--------------------------- MODULE TimelineProofs ---------------------------
(***************************************************************************)
(* Theorems about HlsTimeline, for every window length, number of polls    *)
(* and of generations: its types, that an update moves no media sequence   *)
(* number it still lists, and that polls one after another keep the window *)
(* in order and free of what the startup filter refused; and about         *)
(* StreamHistory: that what was told of a session is what is recorded.     *)
(***************************************************************************)
EXTENDS HlsTimeline, StreamHistory, FilteringProofs, FiniteSetTheorems, SequenceTheorems, TLAPS

Fragments == Generations \X Nat
Entries == [name : Fragments, discontinuity : BOOLEAN]
Timelines == [segments : Seq(Entries), seen : SUBSET Fragments, mediaSequence : Nat,
              discontinuitySequence : Nat, lastGeneration : 0..MaxGeneration]
Reading == [pc : {"looked", "read", "filtered"}, generation : Generations, media : Seq(Fragments)]

TimelineTypeOK ==
    /\ started \in 0..MaxGeneration /\ current \in 0..started
    /\ written \in [Generations -> 0..MaxSegments]
    /\ bootstrapped \in SUBSET Generations
    /\ suppressed \in [Generations -> SUBSET Fragments]
    /\ rejected \in [Generations -> SUBSET Fragments]
    /\ reader \in [Readers -> {Idle} \cup Reading]
    /\ timeline \in Timelines
    /\ overlapped \in BOOLEAN

-----------------------------------------------------------------------------
(* The parts of an update.                                                 *)
Unseen(media) == Omitting(media, timeline.seen)
Joined(g, media) == timeline.segments \o Additions(g, media)
Dropped(g, media) == IF Len(Joined(g, media)) > Length THEN Len(Joined(g, media)) - Length ELSE 0

\* The entries an update adds are the unseen names of the window, in order.
LEMMA AdditionsAre ==
    ASSUME TimelineTypeOK, NEW g \in Generations, NEW media \in Seq(Fragments)
    PROVE  /\ Unseen(media) \in Seq(Fragments) /\ Len(Unseen(media)) \in Nat
           /\ Additions(g, media) \in Seq(Entries)
           /\ Len(Additions(g, media)) = Len(Unseen(media))
           /\ \A i \in 1..Len(Unseen(media)) : Additions(g, media)[i].name = Unseen(media)[i]
  <1>1. PICK u \in Seq(Fragments) : u = Unseen(media)
    BY OmittingMembers DEF Unseen
  <1>2. Len(u) \in Nat  BY <1>1, LenProperties
  <1>3. Additions(g, media) =
          [i \in 1..Len(u) |->
             [name |-> u[i],
              discontinuity |-> i = 1 /\ timeline.segments # <<>> /\ g # timeline.lastGeneration]]
    BY <1>1 DEF Additions, Unseen
  <1>4. ASSUME NEW i \in 1..Len(u)
        PROVE  Additions(g, media)[i] \in Entries /\ Additions(g, media)[i].name = u[i]
    <2>1. u[i] \in Fragments  BY <1>1, <1>2, ElementOfSeq
    <2>2. PICK d \in BOOLEAN : d = (i = 1 /\ timeline.segments # <<>> /\ g # timeline.lastGeneration)
      OBVIOUS
    <2>3. Additions(g, media)[i] = [name |-> u[i], discontinuity |-> d]  BY <1>3, <2>2
    <2>. QED  BY <2>1, <2>2, <2>3 DEF Entries
  <1>5. Additions(g, media) \in Seq(Entries) /\ Len(Additions(g, media)) = Len(u)
    BY <1>2, <1>3, <1>4, IsASeq
  <1>. QED  BY <1>1, <1>2, <1>4, <1>5

\* The old window, followed by those entries.
LEMMA JoinedIs ==
    ASSUME TimelineTypeOK, NEW g \in Generations, NEW media \in Seq(Fragments)
    PROVE  /\ Joined(g, media) \in Seq(Entries)
           /\ Len(timeline.segments) \in Nat /\ Len(Unseen(media)) \in Nat
           /\ Len(Joined(g, media)) = Len(timeline.segments) + Len(Unseen(media))
           /\ \A i \in 1..Len(timeline.segments) : Joined(g, media)[i] = timeline.segments[i]
           /\ \A i \in 1..Len(Unseen(media)) :
                Joined(g, media)[Len(timeline.segments) + i].name = Unseen(media)[i]
  <1>1. PICK t \in Seq(Entries) : t = timeline.segments  BY DEF TimelineTypeOK, Timelines
  <1>2. PICK a \in Seq(Entries) : a = Additions(g, media)  BY AdditionsAre
  <1>3. /\ t \o a \in Seq(Entries) /\ Len(t) \in Nat /\ Len(a) \in Nat
        /\ Len(t \o a) = Len(t) + Len(a)
        /\ \A i \in 1..Len(t) : (t \o a)[i] = t[i]
        /\ \A i \in 1..Len(a) : (t \o a)[Len(t) + i] = a[i]
    <2>1. Len(t) \in Nat /\ Len(a) \in Nat  BY LenProperties
    <2>2. /\ t \o a \in Seq(Entries)
          /\ Len(t \o a) = Len(t) + Len(a)
          /\ \A i \in 1..Len(t) + Len(a) : (t \o a)[i] = IF i <= Len(t) THEN t[i] ELSE a[i - Len(t)]
      BY ConcatProperties
    <2>. QED  BY <2>1, <2>2
  <1>4. /\ Len(a) = Len(Unseen(media))
        /\ \A i \in 1..Len(a) : a[i].name = Unseen(media)[i]
    BY <1>2, AdditionsAre
  <1>5. Joined(g, media) = t \o a  BY <1>1, <1>2 DEF Joined
  <1>6. \A i \in 1..Len(a) : (t \o a)[Len(t) + i].name = Unseen(media)[i]
    BY <1>3, <1>4
  <1>. QED  BY <1>1, <1>3, <1>4, <1>5, <1>6

\* As many leave as exceed the window's length.
LEMMA DroppedIs ==
    ASSUME TimelineTypeOK, NEW g \in Generations, NEW media \in Seq(Fragments)
    PROVE  /\ Dropped(g, media) \in 0..Len(Joined(g, media))
           /\ Len(Joined(g, media)) - Dropped(g, media) <= Length
           /\ Dropped(g, media) = 0 \/ Len(Joined(g, media)) - Dropped(g, media) = Length
           /\ Len(Joined(g, media)) \in Nat
  <1>1. PICK n \in Nat : n = Len(Joined(g, media))  BY JoinedIs
  <1>2. Length \in Nat  BY TimelineAssumption
  <1>. QED  BY <1>1, <1>2 DEF Dropped

\* The marks of the first n entries.
MarksTo(entries, n) == Cardinality({i \in 1..n : entries[i].discontinuity})

\* The marks of a prefix are those of the first entries.
LEMMA MarksOfPrefix ==
    ASSUME NEW s \in Seq(Entries), NEW n \in 0..Len(s)
    PROVE  /\ SubSeq(s, 1, n) \in Seq(Entries) /\ Len(SubSeq(s, 1, n)) = n
           /\ \A i \in 1..n : SubSeq(s, 1, n)[i] = s[i]
           /\ Marks(SubSeq(s, 1, n)) = MarksTo(s, n)
           /\ MarksTo(s, n) \in Nat
  <1>1. Len(s) \in Nat /\ n \in Nat /\ \A i \in 1..n : s[i] \in Entries
    BY LenProperties, ElementOfSeq
  <1>2. /\ SubSeq(s, 1, n) \in Seq(Entries) /\ Len(SubSeq(s, 1, n)) = n
        /\ \A i \in 1..n : SubSeq(s, 1, n)[i] = s[i]
    <2>1. /\ SubSeq(s, 1, n) \in Seq(Entries)
          /\ Len(SubSeq(s, 1, n)) = IF 1 <= n THEN n - 1 + 1 ELSE 0
          /\ \A i \in 1..n - 1 + 1 : SubSeq(s, 1, n)[i] = s[1 + i - 1]
      BY <1>1, SubSeqProperties
    <2>. QED  BY <1>1, <2>1
  <1>3. DOMAIN SubSeq(s, 1, n) = 1..n  BY <1>2, LenProperties
  <1>4. {i \in DOMAIN SubSeq(s, 1, n) : SubSeq(s, 1, n)[i].discontinuity} = {i \in 1..n : s[i].discontinuity}
    BY <1>2, <1>3
  <1>5. MarksTo(s, n) \in Nat
    <2>1. IsFiniteSet(1..n)  BY <1>1, FS_Interval
    <2>. QED  BY <2>1, FS_Subset, FS_CardinalityType DEF MarksTo
  <1>. QED  BY <1>2, <1>4, <1>5 DEF Marks, MarksTo

\* The names of the first n entries.
NamesTo(entries, n) == {entries[i].name : i \in 1..n}

(* What an update leaves: the window slides over the dropped entries.      *)
LEMMA UpdatedIs ==
    ASSUME TimelineTypeOK, NEW g \in Generations, NEW media \in Seq(Fragments),
           NEW all, all = Joined(g, media), NEW drop, drop = Dropped(g, media)
    PROVE  /\ Updated(g, media) \in Timelines
           /\ Len(Updated(g, media).segments) = Len(all) - drop
           /\ \A i \in 1..Len(all) - drop : Updated(g, media).segments[i] = all[drop + i]
           /\ Updated(g, media).mediaSequence = timeline.mediaSequence + drop
           /\ Updated(g, media).discontinuitySequence = timeline.discontinuitySequence + MarksTo(all, drop)
           /\ Updated(g, media).seen =
                (timeline.seen \cup NamesTo(all, Len(all))) \ NamesTo(all, drop)
  <1>1. /\ all \in Seq(Entries) /\ Len(all) \in Nat /\ drop \in 0..Len(all)
        /\ timeline \in Timelines
    BY JoinedIs, DroppedIs DEF TimelineTypeOK
  <1>2. /\ SubSeq(all, drop + 1, Len(all)) \in Seq(Entries)
        /\ Len(SubSeq(all, drop + 1, Len(all))) = Len(all) - drop
        /\ \A i \in 1..Len(all) - drop : SubSeq(all, drop + 1, Len(all))[i] = all[drop + i]
    <2>1. \A i \in drop + 1..Len(all) : all[i] \in Entries  BY <1>1, ElementOfSeq
    <2>2. /\ SubSeq(all, drop + 1, Len(all)) \in Seq(Entries)
          /\ Len(SubSeq(all, drop + 1, Len(all))) = IF drop + 1 <= Len(all) THEN Len(all) - (drop + 1) + 1 ELSE 0
          /\ \A i \in 1..Len(all) - (drop + 1) + 1 : SubSeq(all, drop + 1, Len(all))[i] = all[drop + 1 + i - 1]
      BY <1>1, <2>1, SubSeqProperties
    <2>. QED  BY <1>1, <2>2
  <1>3. Marks(SubSeq(all, 1, drop)) = MarksTo(all, drop) /\ MarksTo(all, drop) \in Nat
    BY <1>1, MarksOfPrefix
  <1>4. Names(all) = NamesTo(all, Len(all))
    BY <1>1, LenProperties DEF Names, NamesTo, ToSet
  <1>5. Names(SubSeq(all, 1, drop)) = NamesTo(all, drop)
    <2>1. /\ SubSeq(all, 1, drop) \in Seq(Entries) /\ Len(SubSeq(all, 1, drop)) = drop
          /\ \A i \in 1..drop : SubSeq(all, 1, drop)[i] = all[i]
      BY <1>1, MarksOfPrefix
    <2>2. DOMAIN SubSeq(all, 1, drop) = 1..drop  BY <2>1, LenProperties
    <2>. QED  BY <2>1, <2>2 DEF Names, NamesTo, ToSet
  <1>6. PICK last \in 0..MaxGeneration :
           last = IF Additions(g, media) = <<>> THEN timeline.lastGeneration ELSE g
    BY <1>1, TimelineAssumption DEF Timelines, Generations
  <1>7. Updated(g, media) =
          [segments |-> SubSeq(all, drop + 1, Len(all)),
           seen |-> (timeline.seen \cup NamesTo(all, Len(all))) \ NamesTo(all, drop),
           mediaSequence |-> timeline.mediaSequence + drop,
           discontinuitySequence |-> timeline.discontinuitySequence + MarksTo(all, drop),
           lastGeneration |-> last]
    BY <1>3, <1>4, <1>5, <1>6 DEF Updated, Joined, Dropped
  <1>8. NamesTo(all, Len(all)) \in SUBSET Fragments
    <2>1. \A i \in 1..Len(all) : all[i] \in Entries  BY <1>1, ElementOfSeq
    <2>. QED  BY <2>1 DEF Entries, NamesTo
  <1>9. timeline.mediaSequence + drop \in Nat /\ timeline.discontinuitySequence + MarksTo(all, drop) \in Nat
    BY <1>1, <1>3 DEF Timelines
  <1>10. Updated(g, media) \in Timelines
    <2>1. PICK segments \in Seq(Entries) : segments = SubSeq(all, drop + 1, Len(all))  BY <1>2
    <2>2. timeline.seen \in SUBSET Fragments  BY <1>1 DEF Timelines
    <2>3. PICK seen \in SUBSET Fragments :
             seen = (timeline.seen \cup NamesTo(all, Len(all))) \ NamesTo(all, drop)
      BY <1>8, <2>2
    <2>4. PICK m \in Nat : m = timeline.mediaSequence + drop  BY <1>9
    <2>5. PICK d \in Nat : d = timeline.discontinuitySequence + MarksTo(all, drop)  BY <1>9
    <2>6. Updated(g, media) = [segments |-> segments, seen |-> seen, mediaSequence |-> m,
                               discontinuitySequence |-> d, lastGeneration |-> last]
      BY <1>7, <2>1, <2>3, <2>4, <2>5
    <2>. QED  BY <2>6 DEF Timelines
  <1>. QED  BY <1>2, <1>7, <1>10

(* The marks up to an entry are those dropped and those still listed.      *)
LEMMA MarksSplit ==
    ASSUME NEW s \in Seq(Entries), NEW t \in Seq(Entries), NEW d \in 0..Len(s),
           NEW n \in 0..Len(t), \A i \in 1..n : t[i] = s[d + i]
    PROVE  MarksTo(s, d + n) = MarksTo(s, d) + MarksTo(t, n)
  <1>1. Len(s) \in Nat /\ Len(t) \in Nat /\ d \in Nat /\ n \in Nat
    BY LenProperties
  <1>. DEFINE A == {i \in 1..d : s[i].discontinuity}
              B == {i \in d + 1..d + n : s[i].discontinuity}
              C == {i \in 1..n : t[i].discontinuity}
  <1>2. {i \in 1..d + n : s[i].discontinuity} = A \cup B  BY <1>1
  <1>3. A \cap B = {}  BY <1>1
  <1>4. IsFiniteSet(A) /\ IsFiniteSet(C)
    <2>1. IsFiniteSet(1..d) /\ IsFiniteSet(1..n)  BY <1>1, FS_Interval
    <2>2. A \in SUBSET (1..d) /\ C \in SUBSET (1..n)  OBVIOUS
    <2>. QED  BY <2>1, <2>2, FS_Subset
  <1>5. ExistsBijection(C, B)
    <2>1. [i \in C |-> d + i] \in Bijection(C, B)
      <3>1. [i \in C |-> d + i] \in [C -> B]  BY <1>1
      <3>2. \A i, j \in C : [k \in C |-> d + k][i] = [k \in C |-> d + k][j] => i = j  BY <1>1
      <3>3. \A b \in B : \E i \in C : [k \in C |-> d + k][i] = b
        <4>1. ASSUME NEW b \in B PROVE b - d \in C /\ d + (b - d) = b
          BY <1>1
        <4>. QED  BY <4>1
      <3>. QED  BY <3>1, <3>2, <3>3 DEF Bijection, Injection, IsInjective, Surjection
    <2>. QED  BY <2>1 DEF ExistsBijection
  <1>6. IsFiniteSet(B) /\ Cardinality(B) = Cardinality(C)
    BY <1>4, <1>5, FS_Bijection
  <1>7. Cardinality(A \cup B) = Cardinality(A) + Cardinality(B) - Cardinality(A \cap B)
    BY <1>4, <1>6, FS_Union
  <1>8. Cardinality(A \cap B) = 0  BY <1>3, FS_EmptySet
  <1>9. Cardinality(A) \in Nat /\ Cardinality(B) \in Nat  BY <1>4, <1>6, FS_CardinalityType
  <1>10. MarksTo(s, d + n) = Cardinality(A \cup B)  BY <1>2 DEF MarksTo
  <1>. QED  BY <1>6, <1>7, <1>8, <1>9, <1>10 DEF MarksTo

\* The file names at most Length fragments, up to the last one written.
LEMMA PlaylistIs ==
    ASSUME TimelineTypeOK, NEW g \in Generations
    PROVE  \E o \in 0..MaxSegments :
              /\ o = (IF written[g] > Length THEN written[g] - Length ELSE 0)
              /\ o <= written[g] /\ written[g] - o <= Length
              /\ Playlist(g) = [i \in 1..written[g] - o |-> <<g, o + i>>]
              /\ Playlist(g) \in Seq(Fragments)
              /\ Len(Playlist(g)) = written[g] - o
  <1>1. PICK w \in 0..MaxSegments : w = written[g]  BY DEF TimelineTypeOK
  <1>2. MaxSegments \in Nat /\ Length \in Nat  BY TimelineAssumption
  <1>3. PICK o \in 0..MaxSegments : o = (IF w > Length THEN w - Length ELSE 0) /\ o <= w /\ w - o <= Length
    BY <1>1, <1>2
  <1>4. Playlist(g) = [i \in 1..w - o |-> <<g, o + i>>]  BY <1>1, <1>3 DEF Playlist
  <1>5. \A i \in 1..w - o : Playlist(g)[i] \in Fragments
    <2>1. ASSUME NEW i \in 1..w - o PROVE <<g, o + i>> \in Fragments
      BY <1>2 DEF Fragments
    <2>. QED  BY <1>4, <2>1
  <1>6. w - o \in Nat  BY <1>2, <1>3
  <1>7. Playlist(g) \in Seq(Fragments) /\ Len(Playlist(g)) = w - o
    <2>1. PICK l \in Nat : l = w - o  BY <1>6
    <2>0. PICK p : p = Playlist(g)  OBVIOUS
    <2>2. p = [i \in 1..l |-> <<g, o + i>>] /\ \A i \in 1..l : p[i] \in Fragments  BY <1>4, <1>5, <2>0, <2>1
    <2>3. Len([i \in 1..l |-> <<g, o + i>>]) = l  OBVIOUS
    <2>4. p \in Seq(Fragments)
      <3>1. p \in [1..l -> Fragments]  BY <2>2
      <3>. QED  BY <3>1
    <2>5. Len(p) = l  BY <2>2, <2>3
    <2>. QED  BY <2>0, <2>1, <2>4, <2>5
  <1>. QED  BY <1>1, <1>3, <1>4, <1>7

\* The types hold at the start.
LEMMA TimelineInitType == Init => TimelineTypeOK
  <1>. SUFFICES ASSUME Init PROVE TimelineTypeOK
    OBVIOUS
  <1>1. MaxGeneration \in Nat /\ MaxSegments \in Nat  BY TimelineAssumption
  <1>2. timeline \in Timelines
    <2>1. <<>> \in Seq(Entries)  BY EmptySeq
    <2>. QED  BY <1>1, <2>1 DEF Init, Timelines
  <1>3. started \in 0..MaxGeneration /\ current \in 0..started /\ overlapped \in BOOLEAN
    <2>1. started = 0 /\ current = 0 /\ overlapped = FALSE  BY DEF Init
    <2>2. 0 \in 0..MaxGeneration /\ 0 \in 0..0  BY <1>1
    <2>. QED  BY <2>1, <2>2
  <1>4. written \in [Generations -> 0..MaxSegments]  BY <1>1 DEF Init
  <1>5. /\ bootstrapped \in SUBSET Generations
        /\ suppressed \in [Generations -> SUBSET Fragments]
        /\ rejected \in [Generations -> SUBSET Fragments]
    BY DEF Init
  <1>6. reader \in [Readers -> {Idle} \cup Reading]  BY DEF Init
  <1>. QED  BY <1>2, <1>3, <1>4, <1>5, <1>6 DEF TimelineTypeOK

\* A reader moved to a well-typed record keeps the type of reader.
LEMMA ReaderSteps ==
    ASSUME TimelineTypeOK, NEW q \in Readers, NEW r \in {Idle} \cup Reading, reader' = [reader EXCEPT ![q] = r]
    PROVE  reader' \in [Readers -> {Idle} \cup Reading]
  BY DEF TimelineTypeOK

\* Each step keeps the types.
LEMMA TimelineStepType == TimelineTypeOK /\ [Next]_vars => TimelineTypeOK'
  <1>. SUFFICES ASSUME TimelineTypeOK, [Next]_vars PROVE TimelineTypeOK'
    OBVIOUS
  <1>0. MaxGeneration \in Nat /\ MaxSegments \in Nat /\ Polls \cap Generations = {}
        /\ \A q \in Readers : reader[q] \in {Idle} \cup Reading
    BY TimelineAssumption DEF TimelineTypeOK, Generations
  <1>1. CASE StartProducer
    BY <1>0, <1>1 DEF StartProducer, TimelineTypeOK, filters
  <1>2. ASSUME NEW g \in Generations, WriteSegment(g) PROVE TimelineTypeOK'
    <2>1. written' \in [Generations -> 0..MaxSegments]
      BY <1>0, <1>2 DEF WriteSegment, TimelineTypeOK
    <2>. QED  BY <1>2, <2>1 DEF WriteSegment, TimelineTypeOK, filters
  <1>3. ASSUME NEW g \in Generations, PromoteProducer(g) PROVE TimelineTypeOK'
    <2>1. current' \in 0..started'
      BY <1>0, <1>3 DEF PromoteProducer, TimelineTypeOK
    <2>. QED  BY <1>3, <2>1 DEF PromoteProducer, TimelineTypeOK, filters
  <1>4. ASSUME NEW q \in Readers, Look(q) PROVE TimelineTypeOK'
    <2>1. PICK g \in Generations : reader' = [reader EXCEPT ![q].pc = "looked", ![q].generation = g]
      <3>1. CASE q \in Polls
        <4>1. current \in Generations
          <5>1. current # 0  BY <1>4, <3>1 DEF Look
          <5>. QED  BY <1>0, <5>1 DEF TimelineTypeOK, Generations
        <4>. QED  BY <1>4, <3>1, <4>1 DEF Look
      <3>2. CASE q \notin Polls
        <4>1. q \in Generations  BY <3>2 DEF Readers
        <4>. QED  BY <1>4, <3>2, <4>1 DEF Look
      <3>. QED  BY <3>1, <3>2
    <2>2. reader' = [reader EXCEPT ![q] = [Idle EXCEPT !.pc = "looked", !.generation = g]]
      BY <1>4, <2>1 DEF Look, TimelineTypeOK
    <2>3. [Idle EXCEPT !.pc = "looked", !.generation = g] \in Reading
      <3>1. <<>> \in Seq(Fragments)  BY EmptySeq
      <3>. QED  BY <3>1 DEF Idle, Reading
    <2>4. reader' \in [Readers -> {Idle} \cup Reading]  BY <2>2, <2>3, ReaderSteps
    <2>5. overlapped' \in BOOLEAN  BY <1>4 DEF Look, TimelineTypeOK
    <2>. QED  BY <1>4, <2>4, <2>5 DEF Look, TimelineTypeOK, producers, filters
  <1>5. ASSUME NEW q \in Readers, reader[q].pc \in {"looked", "read", "filtered"} PROVE reader[q] \in Reading
    BY <1>0, <1>5 DEF Idle
  <1>6. ASSUME NEW q \in Readers, ReadPlaylist(q) PROVE TimelineTypeOK'
    <2>1. reader[q] \in Reading  BY <1>5, <1>6 DEF ReadPlaylist
    <2>2. PICK media \in Seq(Fragments) : media = Playlist(reader[q].generation)
      BY <2>1, PlaylistIs DEF Reading
    <2>3. [reader[q] EXCEPT !.pc = "read", !.media = media] \in Reading  BY <2>1 DEF Reading
    <2>4. reader' = [reader EXCEPT ![q] = [reader[q] EXCEPT !.pc = "read", !.media = media]]
      BY <1>6, <2>2 DEF ReadPlaylist, TimelineTypeOK
    <2>5. reader' \in [Readers -> {Idle} \cup Reading]  BY <2>3, <2>4, ReaderSteps
    <2>. QED  BY <1>6, <2>5 DEF ReadPlaylist, TimelineTypeOK, producers, filters
  <1>7. ASSUME NEW q \in Readers, ReadFails(q) \/ LoopDone(q) PROVE TimelineTypeOK'
    <2>1. reader' \in [Readers -> {Idle} \cup Reading]
      BY <1>7, ReaderSteps DEF ReadFails, LoopDone
    <2>. QED  BY <1>7, <2>1 DEF ReadFails, LoopDone, TimelineTypeOK, producers, filters
  <1>8. ASSUME NEW q \in Readers, Bootstrap(q) PROVE TimelineTypeOK'
    <2>1. reader[q] \in Reading  BY <1>5, <1>8 DEF Bootstrap
    <2>2. PICK g \in Generations, media \in Seq(Fragments) : g = reader[q].generation /\ media = reader[q].media
      BY <2>1 DEF Reading
    <2>3. PICK start \in 1..Len(media) :
             /\ rejected' = [rejected EXCEPT ![g] = {media[i] : i \in 1..start - 1}]
             /\ suppressed' = [suppressed EXCEPT ![g] = rejected'[g]]
             /\ reader' = [reader EXCEPT ![q].pc = "filtered", ![q].media = SubSeq(media, start, Len(media))]
      <3>1. PICK b \in 1..Len(media) :
               /\ rejected' = [rejected EXCEPT ![g] = {media[i] : i \in 1..b - 1}]
               /\ suppressed' = [suppressed EXCEPT ![g] = rejected'[g]]
               /\ reader' = [reader EXCEPT ![q].pc = "filtered", ![q].media = SubSeq(media, b, Len(media))]
        <4>1. PICK b \in 1..Len(reader[q].media) :
                 /\ rejected' = [rejected EXCEPT ![reader[q].generation] = {reader[q].media[i] : i \in 1..b - 1}]
                 /\ suppressed' = [suppressed EXCEPT ![reader[q].generation] = rejected'[reader[q].generation]]
                 /\ reader' = [reader EXCEPT ![q].pc = "filtered",
                                             ![q].media = SubSeq(reader[q].media, b, Len(reader[q].media))]
          BY <1>8, Zenon DEF Bootstrap
        <4>2. b \in 1..Len(media)  BY <4>1, <2>2
        <4>3. rejected' = [rejected EXCEPT ![g] = {media[i] : i \in 1..b - 1}]  BY <4>1, <2>2
        <4>4. suppressed' = [suppressed EXCEPT ![g] = rejected'[g]]  BY <4>1, <2>2
        <4>5. reader' = [reader EXCEPT ![q].pc = "filtered", ![q].media = SubSeq(media, b, Len(media))]
          BY <4>1, <2>2
        <4>. QED  BY <4>2, <4>3, <4>4, <4>5, Zenon
      <3>. QED  BY <3>1, Zenon
    <2>4. /\ bootstrapped' = bootstrapped \cup {g} /\ UNCHANGED <<producers, timeline, overlapped>>
      BY <1>8, <2>2 DEF Bootstrap
    <2>5. Len(media) \in Nat /\ \A i \in 1..Len(media) : media[i] \in Fragments
      BY LenProperties, ElementOfSeq
    <2>6. {media[i] : i \in 1..start - 1} \in SUBSET Fragments  BY <2>5
    <2>7. rejected' \in [Generations -> SUBSET Fragments]
      BY <2>3, <2>6 DEF TimelineTypeOK
    <2>8. suppressed' \in [Generations -> SUBSET Fragments]
      BY <2>3, <2>7 DEF TimelineTypeOK
    <2>9. SubSeq(media, start, Len(media)) \in Seq(Fragments)
      <3>1. \A i \in start..Len(media) : media[i] \in Fragments  BY <2>5
      <3>. QED  BY <2>5, <3>1, SubSeqProperties
    <2>10. [reader[q] EXCEPT !.pc = "filtered", !.media = SubSeq(media, start, Len(media))] \in Reading
      BY <2>1, <2>9 DEF Reading
    <2>11. reader' \in [Readers -> {Idle} \cup Reading]
      BY <2>3, <2>10, ReaderSteps DEF TimelineTypeOK
    <2>. QED  BY <2>4, <2>7, <2>8, <2>11 DEF TimelineTypeOK, producers
  <1>9. ASSUME NEW q \in Readers, Filter(q) PROVE TimelineTypeOK'
    <2>1. reader[q] \in Reading  BY <1>5, <1>9 DEF Filter
    <2>2. PICK g \in Generations, media \in Seq(Fragments) : g = reader[q].generation /\ media = reader[q].media
      BY <2>1 DEF Reading
    <2>3. PICK kept \in Seq(Fragments) : kept = Omitting(media, suppressed[g])
      BY OmittingMembers
    <2>4. /\ suppressed' = [suppressed EXCEPT ![g] = suppressed[g] \cap ToSet(media)]
          /\ reader' = [reader EXCEPT ![q] = IF kept = <<>> THEN Idle
                                             ELSE [@ EXCEPT !.pc = "filtered", !.media = kept]]
          /\ UNCHANGED <<producers, bootstrapped, rejected, timeline, overlapped>>
      BY <1>9, <2>2, <2>3 DEF Filter, SteadyWindow
    <2>5. suppressed' \in [Generations -> SUBSET Fragments]
      BY <2>4 DEF TimelineTypeOK
    <2>6. [reader[q] EXCEPT !.pc = "filtered", !.media = kept] \in Reading  BY <2>1 DEF Reading
    <2>7. reader' \in [Readers -> {Idle} \cup Reading]
      BY <2>4, <2>6 DEF TimelineTypeOK
    <2>. QED  BY <2>4, <2>5, <2>7 DEF TimelineTypeOK, producers
  <1>10. ASSUME NEW q \in Readers, Publish(q) PROVE TimelineTypeOK'
    <2>1. reader[q] \in Reading  BY <1>5, <1>10 DEF Publish
    <2>2. timeline' \in Timelines  BY <1>10, <2>1, UpdatedIs DEF Publish, Reading
    <2>3. reader' \in [Readers -> {Idle} \cup Reading]  BY <1>10, ReaderSteps DEF Publish
    <2>. QED  BY <1>10, <2>2, <2>3 DEF Publish, TimelineTypeOK, producers, filters
  <1>11. CASE UNCHANGED vars  BY <1>11 DEF vars, TimelineTypeOK
  <1>. QED  BY <1>1, <1>2, <1>3, <1>4, <1>6, <1>7, <1>8, <1>9, <1>10, <1>11 DEF Next

-----------------------------------------------------------------------------
(* An update moves no fragment that stays listed, nor its marks.           *)
LEMMA UpdateFixesNumbers ==
    ASSUME TimelineTypeOK, TimelineTypeOK', NEW g \in Generations, NEW media \in Seq(Fragments),
           timeline' = Updated(g, media)
    PROVE  /\ timeline.mediaSequence' >= timeline.mediaSequence
           /\ timeline.mediaSequence' + Len(timeline'.segments)
                >= timeline.mediaSequence + Len(timeline.segments)
           /\ \A n \in Listed :
                n > timeline'.mediaSequence =>
                  /\ At(n)' = At(n)
                  /\ DiscontinuityOf(n)' = DiscontinuityOf(n)
  <1>1. PICK all \in Seq(Entries), drop \in Nat : all = Joined(g, media) /\ drop = Dropped(g, media)
    <2>1. Len(Joined(g, media)) \in Nat /\ Dropped(g, media) \in 0..Len(Joined(g, media))  BY DroppedIs
    <2>. QED  BY <2>1, JoinedIs
  <1>2. PICK old \in Seq(Entries), new \in Seq(Entries) : old = timeline.segments /\ new = timeline'.segments
    BY DEF TimelineTypeOK, Timelines
  <1>3. Len(all) \in Nat /\ Len(old) \in Nat /\ Len(new) \in Nat  BY LenProperties
  <1>4. PICK m \in Nat, d \in Nat : m = timeline.mediaSequence /\ d = timeline.discontinuitySequence
    BY DEF TimelineTypeOK, Timelines
  <1>5. /\ Len(new) = Len(all) - drop
        /\ \A i \in 1..Len(all) - drop : new[i] = all[drop + i]
        /\ timeline'.mediaSequence = m + drop
        /\ timeline'.discontinuitySequence = d + MarksTo(all, drop)
    <2>1. PICK t : t = Updated(g, media) /\ t = timeline'  OBVIOUS
    <2>2. Len(t.segments) = Len(all) - drop /\ \A i \in 1..Len(all) - drop : t.segments[i] = all[drop + i]
      BY <1>1, <2>1, UpdatedIs
    <2>3. t.mediaSequence = m + drop /\ t.discontinuitySequence = d + MarksTo(all, drop)
      BY <1>1, <1>4, <2>1, UpdatedIs
    <2>. QED  BY <1>2, <2>1, <2>2, <2>3
  <1>6. Len(old) <= Len(all) /\ \A i \in 1..Len(old) : all[i] = old[i]
    <2>1. Len(all) = Len(old) + Len(Unseen(media)) /\ Len(Unseen(media)) \in Nat  BY <1>1, <1>2, JoinedIs
    <2>2. \A i \in 1..Len(old) : all[i] = old[i]  BY <1>1, <1>2, JoinedIs
    <2>. QED  BY <1>3, <2>1, <2>2
  <1>7. drop <= Len(all)  BY <1>1, DroppedIs
  <1>8. ASSUME NEW n \in Listed, n > timeline'.mediaSequence
        PROVE  /\ At(n)' = At(n)
               /\ DiscontinuityOf(n)' = DiscontinuityOf(n)
    <2>1. n \in Nat /\ m + drop < n /\ n <= m + Len(old)
      BY <1>2, <1>3, <1>4, <1>5, <1>8 DEF Listed
    <2>2. PICK i \in 1..Len(old) : i = n - m /\ drop < i  BY <1>3, <2>1
    <2>3. n - (m + drop) = i - drop /\ i - drop \in 1..Len(new) /\ drop + (i - drop) = i
      BY <1>3, <1>5, <1>6, <2>1, <2>2
    <2>4. At(n)' = At(n)
      <3>1. new[i - drop] = all[drop + (i - drop)]  BY <1>5, <2>3
      <3>2. new[i - drop] = old[i]  BY <1>6, <2>2, <2>3, <3>1
      <3>. QED  BY <1>2, <1>4, <1>5, <2>2, <2>3, <3>2 DEF At
    <2>5. DiscontinuityOf(n) = d + MarksTo(old, i)
      <3>1. Marks(SubSeq(old, 1, i)) = MarksTo(old, i)  BY <1>3, <2>2, MarksOfPrefix
      <3>. QED  BY <1>2, <1>4, <2>2, <3>1 DEF DiscontinuityOf
    <2>6. DiscontinuityOf(n)' = d + MarksTo(all, drop) + MarksTo(new, i - drop)
      <3>1. Marks(SubSeq(new, 1, i - drop)) = MarksTo(new, i - drop)  BY <1>3, <2>3, MarksOfPrefix
      <3>. QED  BY <1>2, <1>5, <2>3, <3>1 DEF DiscontinuityOf
    <2>7. MarksTo(all, drop + (i - drop)) = MarksTo(all, drop) + MarksTo(new, i - drop)
      <3>1. \A j \in 1..i - drop : new[j] = all[drop + j]  BY <1>3, <1>5, <2>3
      <3>2. drop \in 0..Len(all) /\ i - drop \in 0..Len(new)  BY <1>3, <1>7, <2>3
      <3>. QED  BY <3>1, <3>2, MarksSplit
    <2>8. MarksTo(all, i) = MarksTo(old, i)
      <3>1. \A j \in 1..i : all[j].discontinuity = old[j].discontinuity  BY <1>3, <1>6, <2>2
      <3>2. {j \in 1..i : all[j].discontinuity} = {j \in 1..i : old[j].discontinuity}  BY <3>1
      <3>. QED  BY <3>2 DEF MarksTo
    <2>9. MarksTo(all, drop) \in Nat /\ MarksTo(new, i - drop) \in Nat /\ MarksTo(old, i) \in Nat
      <3>1. drop \in 0..Len(all) /\ i - drop \in 0..Len(new) /\ i \in 0..Len(old)  BY <1>3, <1>7, <2>2, <2>3
      <3>. QED  BY <3>1, MarksOfPrefix
    <2>10. MarksTo(old, i) = MarksTo(all, drop) + MarksTo(new, i - drop)  BY <2>3, <2>7, <2>8
    <2>. QED  BY <2>4, <2>5, <2>6, <2>9, <2>10
  <1>9. /\ timeline.mediaSequence' >= timeline.mediaSequence
        /\ timeline.mediaSequence' + Len(timeline'.segments)
             >= timeline.mediaSequence + Len(timeline.segments)
    BY <1>2, <1>3, <1>4, <1>5, <1>6, <1>7
  <1>. QED  BY <1>8, <1>9

(* The types of the polls, the filter and the timeline, whatever the       *)
(* pipelines write and however reads interleave.                           *)
THEOREM TimelineTypes == Spec => []TimelineTypeOK
  <1>. QED  BY TimelineInitType, TimelineStepType, PTL DEF Spec

(* hlsTimeline.update keeps, for every length of the window and whatever   *)
(* polls overlap, the media sequence number of each fragment it lists, its *)
(* mark and its discontinuity number, and skips no number.                 *)
THEOREM NumbersStayFixed == Spec => SequenceNumbersFixed
  <1>1. ASSUME TimelineTypeOK, TimelineTypeOK', [Next]_vars
        PROVE  [/\ timeline.mediaSequence' >= timeline.mediaSequence
                /\ timeline.mediaSequence' + Len(timeline'.segments)
                     >= timeline.mediaSequence + Len(timeline.segments)
                /\ \A n \in Listed :
                     n > timeline'.mediaSequence =>
                       /\ At(n)' = At(n)
                       /\ DiscontinuityOf(n)' = DiscontinuityOf(n)]_timeline
    <2>1. CASE \E q \in Readers : Publish(q)
      <3>1. PICK q \in Readers : Publish(q)  BY <2>1
      <3>2. reader[q] \in Reading  BY <1>1, <3>1 DEF Publish, TimelineTypeOK, Idle
      <3>3. timeline' = Updated(reader[q].generation, reader[q].media)  BY <3>1 DEF Publish
      <3>. QED  BY <1>1, <3>2, <3>3, UpdateFixesNumbers DEF Reading
    <2>2. CASE UNCHANGED timeline  BY <2>2
    <2>3. (\E q \in Readers : Publish(q)) \/ UNCHANGED timeline
      BY <1>1 DEF Next, vars, StartProducer, WriteSegment, PromoteProducer, Look, ReadPlaylist, ReadFails, Bootstrap,
         Filter, LoopDone
    <2>. QED  BY <2>1, <2>2, <2>3
  <1>. QED  BY <1>1, TimelineTypes, PTL DEF Spec, SequenceNumbersFixed

(* Polls that do not overlap: what relates the pipelines' files, the       *)
(* startup filter, the reader under way and the window.                    *)
Oldest(g) == IF written[g] > Length THEN written[g] - Length ELSE 0

NamesListed == {timeline.segments[i].name : i \in 1..Len(timeline.segments)}

\* No two readers are under way.
OneReader == \A p, q \in Readers : (reader[p] # Idle /\ reader[q] # Idle) => p = q

\* The window lists what the pipelines wrote and the filter let through.
ListedWritten ==
    \A s \in NamesListed :
        s[1] <= current /\ s[2] <= written[s[1]] /\ s \notin rejected[s[1]]

\* What the filter has forgotten has left the playlist file.
ForgottenGone ==
    \A g \in Generations :
        /\ suppressed[g] \subseteq rejected[g]
        /\ \A s \in rejected[g] :
             /\ s[1] = g /\ s[2] <= written[g]
             /\ s \notin suppressed[g] => s[2] <= Oldest(g)

\* If g is the newest generation listed, the window has all its fragments beyond the
\* o-th up to the last one listed, but for those refused.
ListedFrom(g, o) ==
    (\A s \in NamesListed : s[1] <= g) =>
        \A s \in NamesListed : s[1] = g =>
            \A n \in o + 1..s[2] : <<g, n>> \in NamesListed \cup rejected[g]

AllListedFrom == \A g \in Generations : ListedFrom(g, Oldest(g))

\* A file of g that named fragments o + 1 to w, read since the last update.
FileNamed(g, o, w) ==
    /\ o <= w /\ w <= written[g] /\ w - o <= Length /\ o <= Oldest(g)
    /\ \A s \in rejected[g] : s[2] <= w /\ (s \notin suppressed[g] => s[2] <= o)
    /\ \A s \in NamesListed : s[1] = g => s[2] <= w
    /\ ListedFrom(g, o)

\* What the filter leaves of that file, in its order.
Playable(g, media, o, w) ==
    /\ \A i, j \in 1..Len(media) : i < j => Before(media[i], media[j])
    /\ \A i \in 1..Len(media) :
         media[i][1] = g /\ media[i][2] \in o + 1..w /\ media[i] \notin rejected[g]
    /\ \A n \in o + 1..w :
         <<g, n>> \in rejected[g] \/ \E i \in 1..Len(media) : media[i] = <<g, n>>

\* The file a read found, or what the filter has left of it.
HasRead(r, o, w) ==
    /\ FileNamed(r.generation, o, w)
    /\ IF r.pc = "read" THEN r.media = [i \in 1..w - o |-> <<r.generation, o + i>>]
       ELSE Playable(r.generation, r.media, o, w)

ReaderRight(q) ==
    /\ q \in Polls =>
         /\ reader[q].generation <= current
         /\ \A s \in NamesListed : s[1] <= reader[q].generation
    /\ reader[q].pc # "looked" => \E o, w \in 0..MaxSegments : HasRead(reader[q], o, w)

ReadersRight == \A q \in Readers : reader[q] # Idle => ReaderRight(q)

\* Before its first decoder-ready fragment a pipeline has neither refused nor shown any.
UnreadyUnseen ==
    \A g \in Generations \ bootstrapped :
        /\ rejected[g] = {} /\ suppressed[g] = {}
        /\ \A s \in NamesListed : s[1] # g
        /\ \A q \in Readers : reader[q].pc = "filtered" => reader[q].generation # g

TimelineTrue ==
    /\ OneReader /\ timeline.seen = NamesListed /\ WindowMonotonic
    /\ ListedWritten /\ ForgottenGone /\ AllListedFrom /\ ReadersRight /\ UnreadyUnseen

TimelineInv == overlapped \/ TimelineTrue

\* The file names what follows the Oldest-th fragment.
LEMMA OldestIs ==
    ASSUME TimelineTypeOK, NEW g \in Generations
    PROVE  /\ Oldest(g) \in Nat /\ Oldest(g) <= written[g] /\ written[g] - Oldest(g) <= Length
           /\ written[g] \in 0..MaxSegments /\ Oldest(g) \in 0..MaxSegments
  <1>1. PICK w \in 0..MaxSegments : w = written[g]  BY DEF TimelineTypeOK
  <1>2. Length \in Nat /\ MaxSegments \in Nat  BY TimelineAssumption
  <1>. QED  BY <1>1, <1>2 DEF Oldest

LEMMA FragmentParts ==
    \A x \in Fragments : x[1] \in Nat /\ x[2] \in Nat /\ x = <<x[1], x[2]>>
  <1>. QED  BY DEF Fragments, Generations

\* The window lists fragments.
LEMMA NamesAreFragments ==
    ASSUME TimelineTypeOK
    PROVE  /\ NamesListed \subseteq Fragments
           /\ \A s \in NamesListed : s[1] \in Generations /\ s[2] \in Nat
  <1>1. PICK t \in Seq(Entries) : t = timeline.segments  BY DEF TimelineTypeOK, Timelines
  <1>2. \A i \in 1..Len(t) : t[i] \in Entries  BY LenProperties, ElementOfSeq
  <1>3. NamesListed \subseteq Fragments  BY <1>1, <1>2 DEF NamesListed, Entries
  <1>. QED  BY <1>3 DEF Fragments

\* The relations hold at the start, with nothing read or listed.
LEMMA TimelineInvInit == Init => TimelineTrue
  <1>. SUFFICES ASSUME Init PROVE TimelineTrue
    OBVIOUS
  <1>1. NamesListed = {}
    <2>1. timeline.segments = <<>>  BY DEF Init
    <2>. QED  BY <2>1 DEF NamesListed
  <1>2. \A q \in Readers : reader[q] = Idle  BY DEF Init
  <1>3. \A g \in Generations : rejected[g] = {} /\ suppressed[g] = {}  BY DEF Init
  <1>4. OneReader /\ ReadersRight  BY <1>2 DEF OneReader, ReadersRight
  <1>5. timeline.seen = NamesListed /\ WindowMonotonic
    <2>1. timeline.segments = <<>> /\ timeline.seen = {}  BY DEF Init
    <2>. QED  BY <1>1, <2>1 DEF WindowMonotonic
  <1>6. ListedWritten /\ ForgottenGone /\ AllListedFrom
    BY <1>1, <1>3 DEF ListedWritten, ForgottenGone, AllListedFrom, ListedFrom
  <1>7. UnreadyUnseen  BY <1>1, <1>2, <1>3 DEF UnreadyUnseen, Idle
  <1>. QED  BY <1>4, <1>5, <1>6, <1>7 DEF TimelineTrue

-----------------------------------------------------------------------------
(* The steps that leave the readers alone.                                 *)

\* A pipeline starts or becomes the session's current one.
LEMMA PromotionKeeps ==
    ASSUME TimelineTypeOK, TimelineTypeOK', TimelineTrue, current' \in Nat, current <= current',
           UNCHANGED <<written, filters, reader, timeline>>
    PROVE  TimelineTrue'
  <1>0. current \in Nat /\ current' \in Nat  BY TimelineAssumption DEF TimelineTypeOK
  <1>1. NamesListed' = NamesListed  BY DEF NamesListed
  <1>2. OneReader' /\ timeline'.seen = NamesListed' /\ WindowMonotonic'
    BY <1>1 DEF TimelineTrue, OneReader, WindowMonotonic
  <1>3. ListedWritten'
    <2>1. ASSUME NEW s \in NamesListed
          PROVE  s[1] <= current' /\ s[2] <= written'[s[1]] /\ s \notin rejected'[s[1]]
      <3>1. s[1] <= current /\ s[2] <= written[s[1]] /\ s \notin rejected[s[1]] /\ s[1] \in Nat
        BY <2>1, NamesAreFragments DEF TimelineTrue, ListedWritten, Generations
      <3>. QED  BY <1>0, <3>1 DEF filters
    <2>. QED  BY <1>1, <2>1 DEF ListedWritten
  <1>4. ForgottenGone' /\ AllListedFrom' /\ UnreadyUnseen'
    <2>1. UNCHANGED <<written, bootstrapped, suppressed, rejected, reader, timeline>>  BY DEF filters
    <2>2. ForgottenGone'  BY <2>1 DEF TimelineTrue, ForgottenGone, Oldest
    <2>3. AllListedFrom'  BY <1>1, <2>1 DEF TimelineTrue, AllListedFrom, ListedFrom, Oldest
    <2>4. UnreadyUnseen'  BY <1>1, <2>1 DEF TimelineTrue, UnreadyUnseen
    <2>. QED  BY <2>2, <2>3, <2>4
  <1>5. ReadersRight'
    <2>1. UNCHANGED <<written, bootstrapped, suppressed, rejected, reader, timeline>>  BY DEF filters
    <2>2. ASSUME NEW q \in Readers, reader[q] # Idle PROVE ReaderRight(q)'
      <3>1. ReaderRight(q)  BY <2>2 DEF TimelineTrue, ReadersRight
      <3>2. q \in Polls => reader[q].generation <= current'
        <4>1. reader[q].generation \in Nat  BY <2>2 DEF TimelineTypeOK, Reading, Generations
        <4>. QED  BY <1>0, <3>1, <4>1 DEF ReaderRight
      <3>3. ASSUME NEW r, NEW o, NEW w, HasRead(r, o, w) PROVE HasRead(r, o, w)'
        <4>1. FileNamed(r.generation, o, w)' = FileNamed(r.generation, o, w)
          BY <1>1, <2>1 DEF FileNamed, ListedFrom, Oldest
        <4>2. Playable(r.generation, r.media, o, w)' = Playable(r.generation, r.media, o, w)
          BY <2>1 DEF Playable
        <4>. QED  BY <3>3, <4>1, <4>2, Zenon DEF HasRead
      <3>4. PICK r : r = reader[q]  OBVIOUS
      <3>5. reader[q].pc # "looked" => \E o, w \in 0..MaxSegments : HasRead(r, o, w)'
        BY <3>1, <3>3, <3>4, Zenon DEF ReaderRight
      <3>6. reader[q].pc # "looked" => \E o, w \in 0..MaxSegments : HasRead(reader[q], o, w)'
        BY <3>4, <3>5, <2>1
      <3>. QED  BY <1>1, <2>1, <3>1, <3>2, <3>6 DEF ReaderRight
    <2>. QED  BY <2>1, <2>2 DEF ReadersRight
  <1>. QED  BY <1>2, <1>3, <1>4, <1>5 DEF TimelineTrue

\* A pipeline completes a segment: what its file names moves on.
LEMMA WritingKeeps ==
    ASSUME TimelineTypeOK, TimelineTypeOK', TimelineTrue, NEW h \in Generations,
           written' = [written EXCEPT ![h] = written[h] + 1],
           UNCHANGED <<current, filters, reader, timeline>>
    PROVE  TimelineTrue'
  <1>0. \A g \in Generations :
           /\ written[g] \in Nat /\ written'[g] \in Nat /\ written[g] <= written'[g]
           /\ Oldest(g) \in Nat /\ Oldest(g)' \in Nat /\ Oldest(g) <= Oldest(g)'
    <2>1. ASSUME NEW g \in Generations
          PROVE  /\ written[g] \in Nat /\ written'[g] \in Nat /\ written[g] <= written'[g]
                 /\ Oldest(g) \in Nat /\ Oldest(g)' \in Nat /\ Oldest(g) <= Oldest(g)'
      <3>1. PICK a \in Nat, b \in Nat : a = written[g] /\ b = written'[g] /\ a <= b
        BY DEF TimelineTypeOK
      <3>2. Oldest(g) = (IF a > Length THEN a - Length ELSE 0) /\ Oldest(g)' = (IF b > Length THEN b - Length ELSE 0)
        BY <3>1 DEF Oldest
      <3>. QED  BY <3>1, <3>2, TimelineAssumption
    <2>. QED  BY <2>1
  <1>1. NamesListed' = NamesListed  BY DEF NamesListed
  <1>u. UNCHANGED <<current, bootstrapped, suppressed, rejected, reader, timeline>>  BY DEF filters
  <1>n. \A s \in NamesListed : s[1] \in Generations /\ s[2] \in Nat  BY NamesAreFragments
  <1>2. OneReader' /\ timeline'.seen = NamesListed' /\ WindowMonotonic' /\ UnreadyUnseen'
    BY <1>1, <1>u DEF TimelineTrue, OneReader, WindowMonotonic, UnreadyUnseen
  <1>3. ListedWritten'
    <2>1. ASSUME NEW s \in NamesListed
          PROVE  s[1] <= current /\ s[2] <= written'[s[1]] /\ s \notin rejected[s[1]]
      <3>1. s[1] <= current /\ s[2] <= written[s[1]] /\ s \notin rejected[s[1]]
        BY <2>1 DEF TimelineTrue, ListedWritten
      <3>. QED  BY <1>0, <1>n, <3>1
    <2>. QED  BY <1>1, <1>u, <2>1 DEF ListedWritten
  <1>4. ForgottenGone'
    <2>1. ASSUME NEW g \in Generations
          PROVE  /\ suppressed[g] \subseteq rejected[g]
                 /\ \A s \in rejected[g] :
                      /\ s[1] = g /\ s[2] <= written'[g]
                      /\ s \notin suppressed[g] => s[2] <= Oldest(g)'
      <3>1. /\ suppressed[g] \subseteq rejected[g]
            /\ \A s \in rejected[g] :
                 /\ s[1] = g /\ s[2] <= written[g]
                 /\ s \notin suppressed[g] => s[2] <= Oldest(g)
        BY DEF TimelineTrue, ForgottenGone
      <3>2. \A s \in rejected[g] : s[2] \in Nat  BY DEF TimelineTypeOK, Fragments
      <3>. QED  BY <1>0, <3>1, <3>2
    <2>. QED  BY <1>u, <2>1 DEF ForgottenGone
  <1>5. ASSUME NEW g \in Generations, NEW o \in Nat, NEW o2 \in Nat, o <= o2, ListedFrom(g, o)
        PROVE  ListedFrom(g, o2)'
    <2>1. \A s \in NamesListed : \A n \in o2 + 1..s[2] : n \in o + 1..s[2]  BY <1>5, <1>n
    <2>. QED  BY <1>1, <1>5, <1>u, <2>1 DEF ListedFrom
  <1>6. AllListedFrom'
    <2>1. ASSUME NEW g \in Generations PROVE ListedFrom(g, Oldest(g))'
      <3>1. PICK o \in Nat, o2 \in Nat : o = Oldest(g) /\ o2 = Oldest(g)' /\ o <= o2  BY <1>0
      <3>2. ListedFrom(g, o)  BY <3>1 DEF TimelineTrue, AllListedFrom
      <3>3. ListedFrom(g, o2)'  BY <1>5, <3>1, <3>2
      <3>. QED  BY <3>1, <3>3 DEF ListedFrom
    <2>. QED  BY <2>1 DEF AllListedFrom
  <1>7. ReadersRight'
    <2>2. ASSUME NEW q \in Readers, reader[q] # Idle PROVE ReaderRight(q)'
      <3>1. ReaderRight(q)  BY <2>2 DEF TimelineTrue, ReadersRight
      <3>2. PICK r \in Reading : r = reader[q]  BY <2>2 DEF TimelineTypeOK
      <3>3. ASSUME NEW o \in 0..MaxSegments, NEW w \in 0..MaxSegments, HasRead(r, o, w) PROVE HasRead(r, o, w)'
        <4>0. o \in Nat /\ w \in Nat  BY TimelineAssumption
        <4>1. PICK g \in Generations : g = r.generation  BY <3>2 DEF Reading
        <4>2. FileNamed(g, o, w)'
          <5>1. FileNamed(g, o, w)  BY <3>3, <4>1 DEF HasRead
          <5>2. ListedFrom(g, o)'  BY <1>5, <4>0, <5>1 DEF FileNamed
          <5>. QED  BY <1>0, <1>1, <1>u, <4>0, <5>1, <5>2 DEF FileNamed
        <4>3. Playable(g, r.media, o, w)' = Playable(g, r.media, o, w)
          BY <1>u DEF Playable
        <4>. QED  BY <3>3, <4>1, <4>2, <4>3, Zenon DEF HasRead
      <3>5. reader[q].pc # "looked" => \E o, w \in 0..MaxSegments : HasRead(r, o, w)'
        BY <3>1, <3>2, <3>3, Zenon DEF ReaderRight
      <3>6. reader[q].pc # "looked" => \E o, w \in 0..MaxSegments : HasRead(reader[q], o, w)'
        BY <3>2, <3>5, <1>u
      <3>. QED  BY <1>1, <1>u, <3>1, <3>2, <3>6 DEF ReaderRight
    <2>. QED  BY <1>u, <2>2 DEF ReadersRight
  <1>. QED  BY <1>2, <1>3, <1>4, <1>6, <1>7 DEF TimelineTrue

-----------------------------------------------------------------------------
(* The steps of a read.                                                    *)

\* While one reader is under way the others are idle.
LEMMA OthersIdle ==
    ASSUME OneReader, NEW q \in Readers, reader[q] # Idle
    PROVE  \A p \in Readers \ {q} : reader[p] = Idle
  BY DEF OneReader

\* The one reader under way moves on.
LEMMA OnlyReader ==
    ASSUME TimelineTypeOK, NEW q \in Readers, \A p \in Readers \ {q} : reader[p] = Idle,
           NEW r, reader' = [reader EXCEPT ![q] = r], r # Idle => ReaderRight(q)'
    PROVE  OneReader' /\ ReadersRight'
  <1>1. \A p \in Readers : reader'[p] = IF p = q THEN r ELSE Idle  BY DEF TimelineTypeOK
  <1>2. OneReader'  BY <1>1 DEF OneReader
  <1>3. ReadersRight'
    <2>1. ASSUME NEW p \in Readers, reader'[p] # Idle PROVE ReaderRight(p)'
      <3>1. p = q /\ r # Idle  BY <1>1, <2>1
      <3>. QED  BY <3>1 DEF ReaderRight
    <2>. QED  BY <2>1 DEF ReadersRight
  <1>. QED  BY <1>2, <1>3

\* What does not depend on the readers.
LEMMA ReadersApart ==
    ASSUME TimelineTrue, UNCHANGED <<current, written, filters, timeline>>
    PROVE  /\ NamesListed' = NamesListed
           /\ timeline'.seen = NamesListed' /\ WindowMonotonic' /\ ListedWritten' /\ ForgottenGone'
           /\ AllListedFrom'
  <1>u. UNCHANGED <<current, written, bootstrapped, suppressed, rejected, timeline>>  BY DEF filters
  <1>1. NamesListed' = NamesListed  BY DEF NamesListed
  <1>2. timeline'.seen = NamesListed' /\ WindowMonotonic' /\ ListedWritten' /\ ForgottenGone'
    BY <1>1, <1>u DEF TimelineTrue, WindowMonotonic, ListedWritten, ForgottenGone, Oldest
  <1>3. AllListedFrom'
    BY <1>1, <1>u DEF TimelineTrue, AllListedFrom, ListedFrom, Oldest
  <1>. QED  BY <1>1, <1>2, <1>3

\* A read ends without a word to the timeline: ReadFails, LoopDone, a filter that leaves nothing.
LEMMA QuietKeeps ==
    ASSUME TimelineTypeOK, TimelineTrue, NEW q \in Readers, reader[q] # Idle,
           reader' = [reader EXCEPT ![q] = Idle],
           UNCHANGED <<current, written, filters, timeline>>
    PROVE  TimelineTrue'
  <1>1. \A p \in Readers \ {q} : reader[p] = Idle  BY OthersIdle DEF TimelineTrue
  <1>2. OneReader' /\ ReadersRight'  BY <1>1, OnlyReader
  <1>3. UnreadyUnseen'
    <2>1. NamesListed' = NamesListed  BY ReadersApart
    <2>2. \A p \in Readers : reader'[p].pc = "filtered" => reader[p].pc = "filtered" /\ reader'[p] = reader[p]
      BY DEF TimelineTypeOK, Idle
    <2>. QED  BY <2>1, <2>2 DEF TimelineTrue, UnreadyUnseen, filters
  <1>. QED  BY <1>2, <1>3, ReadersApart DEF TimelineTrue

\* A read begins, with nobody else reading.
LEMMA LookKeeps ==
    ASSUME TimelineTypeOK, TimelineTypeOK', TimelineTrue, ~overlapped', NEW q \in Readers, Look(q)
    PROVE  TimelineTrue'
  <1>1. \A p \in Readers : reader[p] = Idle  BY DEF Look
  <1>2. PICK r : /\ r = [reader[q] EXCEPT !.pc = "looked", !.generation = IF q \in Polls THEN current ELSE q]
                 /\ reader' = [reader EXCEPT ![q] = r]
    BY DEF Look, TimelineTypeOK
  <1>3. r.pc = "looked" /\ (q \in Polls => r.generation = current)  BY <1>1, <1>2 DEF Idle
  <1>4. UNCHANGED <<current, written, filters, timeline>>  BY DEF Look, producers
  <1>5. NamesListed' = NamesListed  BY <1>4, ReadersApart
  <1>6. reader'[q] = r  BY <1>2 DEF TimelineTypeOK
  <1>7. ReaderRight(q)'
    <2>1. \A s \in NamesListed : s[1] <= current  BY DEF TimelineTrue, ListedWritten
    <2>2. current \in Nat  BY TimelineAssumption DEF TimelineTypeOK
    <2>. QED  BY <1>3, <1>4, <1>5, <1>6, <2>1, <2>2 DEF ReaderRight
  <1>8. OneReader' /\ ReadersRight'  BY <1>1, <1>2, <1>7, OnlyReader
  <1>9. UnreadyUnseen'
    <2>1. \A p \in Readers : reader'[p].pc # "filtered"
      BY <1>1, <1>2, <1>3 DEF TimelineTypeOK, Idle
    <2>. QED  BY <1>4, <1>5, <2>1 DEF TimelineTrue, UnreadyUnseen, filters
  <1>. QED  BY <1>4, <1>8, <1>9, ReadersApart DEF TimelineTrue

\* A reader under way, by its record.
LEMMA UnderWay ==
    ASSUME TimelineTypeOK, NEW q \in Readers, reader[q].pc # "idle"
    PROVE  /\ reader[q] # Idle /\ reader[q] \in Reading
           /\ reader[q].generation \in Generations /\ reader[q].media \in Seq(Fragments)
  BY DEF TimelineTypeOK, Idle, Reading

\* The file is read: what it names is what the pipeline has kept.
LEMMA ReadKeeps ==
    ASSUME TimelineTypeOK, TimelineTypeOK', TimelineTrue, NEW q \in Readers, ReadPlaylist(q)
    PROVE  TimelineTrue'
  <1>0. reader[q].pc = "looked"  BY DEF ReadPlaylist
  <1>1. PICK g \in Generations : g = reader[q].generation  BY <1>0, UnderWay
  <1>2. reader[q] # Idle /\ \A p \in Readers \ {q} : reader[p] = Idle
    BY <1>0, UnderWay, OthersIdle DEF TimelineTrue
  <1>3. PICK r : r = [reader[q] EXCEPT !.pc = "read", !.media = Playlist(g)] /\ reader' = [reader EXCEPT ![q] = r]
    BY <1>1 DEF ReadPlaylist, TimelineTypeOK
  <1>4. UNCHANGED <<current, written, filters, timeline>>  BY DEF ReadPlaylist, producers
  <1>5. NamesListed' = NamesListed  BY <1>4, ReadersApart
  <1>6. reader'[q] = r /\ r.pc = "read" /\ r.generation = g /\ r.media = Playlist(g)
    BY <1>0, <1>1, <1>3, UnderWay DEF TimelineTypeOK, Reading
  <1>7. PICK o \in 0..MaxSegments, w \in 0..MaxSegments :
           /\ o = Oldest(g) /\ w = written[g] /\ o <= w /\ w - o <= Length
           /\ Playlist(g) = [i \in 1..w - o |-> <<g, o + i>>]
    <2>1. Oldest(g) \in 0..MaxSegments /\ written[g] \in 0..MaxSegments /\ Oldest(g) <= written[g]
          /\ written[g] - Oldest(g) <= Length
      BY OldestIs
    <2>2. Playlist(g) = [i \in 1..written[g] - Oldest(g) |-> <<g, Oldest(g) + i>>]
      BY DEF Playlist, Oldest
    <2>. QED  BY <2>1, <2>2
  <1>8. FileNamed(g, o, w)
    <2>1. \A s \in rejected[g] : s[2] <= w /\ (s \notin suppressed[g] => s[2] <= o)
      BY <1>7 DEF TimelineTrue, ForgottenGone
    <2>2. \A s \in NamesListed : s[1] = g => s[2] <= w
      BY <1>7 DEF TimelineTrue, ListedWritten
    <2>3. ListedFrom(g, o)  BY <1>7 DEF TimelineTrue, AllListedFrom
    <2>4. o <= w /\ w <= written[g] /\ w - o <= Length /\ o <= Oldest(g)
      <3>1. o \in Nat /\ w \in Nat  BY TimelineAssumption
      <3>. QED  BY <1>7, <3>1
    <2>. QED  BY <2>1, <2>2, <2>3, <2>4 DEF FileNamed
  <1>9. FileNamed(g, o, w)'
    BY <1>4, <1>5, <1>8 DEF FileNamed, ListedFrom, Oldest, filters
  <1>10. HasRead(r, o, w)'  BY <1>6, <1>7, <1>9 DEF HasRead
  <1>11. ReaderRight(q)'
    <2>1. q \in Polls => g <= current /\ \A s \in NamesListed : s[1] <= g
      BY <1>1, <1>2 DEF TimelineTrue, ReadersRight, ReaderRight
    <2>2. \E o2, w2 \in 0..MaxSegments : HasRead(reader[q], o2, w2)'
      BY <1>6, <1>10
    <2>. QED  BY <1>4, <1>5, <1>6, <2>1, <2>2 DEF ReaderRight
  <1>12. OneReader' /\ ReadersRight'  BY <1>2, <1>3, <1>11, OnlyReader
  <1>13. UnreadyUnseen'
    <2>1. \A p \in Readers : reader'[p].pc # "filtered"
      BY <1>2, <1>3, <1>6 DEF TimelineTypeOK, Idle
    <2>. QED  BY <1>4, <1>5, <2>1 DEF TimelineTrue, UnreadyUnseen, filters
  <1>. QED  BY <1>4, <1>12, <1>13, ReadersApart DEF TimelineTrue

\* The startup filter refuses a prefix of the file, of which nothing is listed yet.
LEMMA BootstrapKeeps ==
    ASSUME TimelineTypeOK, TimelineTypeOK', TimelineTrue, NEW q \in Readers, Bootstrap(q)
    PROVE  TimelineTrue'
  <1>0. reader[q].pc = "read"  BY DEF Bootstrap
  <1>1. PICK g \in Generations, media \in Seq(Fragments) : g = reader[q].generation /\ media = reader[q].media
    BY <1>0, UnderWay
  <1>2. reader[q] # Idle /\ \A p \in Readers \ {q} : reader[p] = Idle
    BY <1>0, UnderWay, OthersIdle DEF TimelineTrue
  <1>3. ReaderRight(q)  BY <1>2 DEF TimelineTrue, ReadersRight
  <1>4. PICK o \in 0..MaxSegments, w \in 0..MaxSegments :
           FileNamed(g, o, w) /\ media = [i \in 1..w - o |-> <<g, o + i>>]
    <2>1. PICK o \in 0..MaxSegments, w \in 0..MaxSegments : HasRead(reader[q], o, w)
      BY <1>0, <1>3 DEF ReaderRight
    <2>2. PICK r : r = reader[q] /\ HasRead(r, o, w) /\ r.pc = "read" /\ r.generation = g /\ r.media = media
      BY <1>0, <1>1, <2>1
    <2>3. FileNamed(g, o, w) /\ r.media = [i \in 1..w - o |-> <<r.generation, o + i>>]
      BY <2>2 DEF HasRead
    <2>4. media = [i \in 1..w - o |-> <<g, o + i>>]  BY <2>2, <2>3
    <2>. QED  BY <2>3, <2>4
  <1>5. o \in Nat /\ w \in Nat /\ o <= w /\ w <= written[g] /\ written[g] \in Nat /\ w - o <= Length
    BY <1>4, TimelineAssumption DEF FileNamed, TimelineTypeOK
  <1>6. Len(media) = w - o  BY <1>4, <1>5
  <1>7. g \notin bootstrapped  BY <1>1 DEF Bootstrap
  <1>8. PICK b \in 1..Len(reader[q].media) :
           /\ rejected' = [rejected EXCEPT ![reader[q].generation] = {reader[q].media[i] : i \in 1..b - 1}]
           /\ suppressed' = [suppressed EXCEPT ![reader[q].generation] = rejected'[reader[q].generation]]
           /\ reader' = [reader EXCEPT ![q].pc = "filtered",
                                       ![q].media = SubSeq(reader[q].media, b, Len(reader[q].media))]
    BY Zenon DEF Bootstrap
  <1>9. b \in 1..w - o  BY <1>1, <1>6, <1>8
  <1>10. rejected' = [rejected EXCEPT ![g] = {media[i] : i \in 1..b - 1}]  BY <1>1, <1>8
  <1>11. suppressed' = [suppressed EXCEPT ![g] = rejected'[g]]  BY <1>1, <1>8
  <1>12. PICK c \in Nat : c = o + b - 1 /\ c < w /\ o <= c  BY <1>5, <1>9
  <1>13. PICK X : X = {media[i] : i \in 1..b - 1}  OBVIOUS
  <1>14. rejected'[g] = X /\ suppressed'[g] = X
    /\ \A h \in Generations \ {g} : rejected'[h] = rejected[h] /\ suppressed'[h] = suppressed[h]
    BY <1>10, <1>11, <1>13 DEF TimelineTypeOK
  <1>15. \A s \in X : s[1] = g /\ s[2] \in o + 1..c
    <2>1. ASSUME NEW i \in 1..b - 1 PROVE media[i] = <<g, o + i>> /\ o + i \in o + 1..c
      BY <1>4, <1>5, <1>9, <1>12
    <2>. QED  BY <1>13, <2>1
  <1>16. \A n \in o + 1..c : <<g, n>> \in X
    <2>1. ASSUME NEW n \in o + 1..c PROVE <<g, n>> \in X
      <3>1. n - o \in 1..b - 1 /\ o + (n - o) = n /\ n - o \in 1..w - o  BY <1>5, <1>9, <1>12
      <3>2. media[n - o] = <<g, n>>  BY <1>4, <3>1
      <3>. QED  BY <1>13, <3>1, <3>2
    <2>. QED  BY <2>1
  <1>17. PICK kept \in Seq(Fragments) :
            /\ kept = SubSeq(media, b, Len(media))
            /\ Len(kept) = w - c
            /\ \A i \in 1..w - c : kept[i] = <<g, c + i>>
    <2>1. \A i \in b..w - o : media[i] \in Fragments  BY <1>6, <1>9, ElementOfSeq
    <2>2. /\ SubSeq(media, b, w - o) \in Seq(Fragments)
          /\ Len(SubSeq(media, b, w - o)) = IF b <= w - o THEN w - o - b + 1 ELSE 0
          /\ \A i \in 1..w - o - b + 1 : SubSeq(media, b, w - o)[i] = media[b + i - 1]
      BY <1>5, <1>9, <2>1, SubSeqProperties
    <2>3. w - c = w - o - b + 1  BY <1>5, <1>9, <1>12
    <2>4. ASSUME NEW i \in 1..w - c PROVE media[b + i - 1] = <<g, c + i>>
      <3>1. b + i - 1 \in 1..w - o /\ o + (b + i - 1) = c + i  BY <1>5, <1>9, <1>12
      <3>. QED  BY <1>4, <3>1
    <2>5. PICK s : s = SubSeq(media, b, w - o)  OBVIOUS
    <2>6. \A i \in 1..w - c : s[i] = <<g, c + i>>  BY <2>2, <2>3, <2>4, <2>5
    <2>7. Len(s) = w - c  BY <1>9, <1>12, <2>2, <2>3, <2>5
    <2>. QED  BY <1>6, <2>2, <2>5, <2>6, <2>7
  <1>18. PICK r : r = [[reader[q] EXCEPT !.pc = "filtered"] EXCEPT !.media = kept] /\ reader' = [reader EXCEPT ![q] = r]
    BY <1>1, <1>8, <1>17 DEF TimelineTypeOK
  <1>19. reader'[q] = r /\ r.pc = "filtered" /\ r.generation = g /\ r.media = kept
    BY <1>0, <1>1, <1>18, UnderWay DEF TimelineTypeOK, Reading
  <1>20. UNCHANGED <<current, written, timeline>> /\ bootstrapped' = bootstrapped \cup {g}
    BY <1>1 DEF Bootstrap, producers
  <1>21. NamesListed' = NamesListed  BY <1>20 DEF NamesListed
  <1>22. /\ rejected[g] = {} /\ \A s \in NamesListed : s[1] # g
    BY <1>7 DEF TimelineTrue, UnreadyUnseen
  <1>23. timeline'.seen = NamesListed' /\ WindowMonotonic'
    BY <1>20, <1>21 DEF TimelineTrue, WindowMonotonic
  <1>24. ListedWritten'
    BY <1>14, <1>20, <1>21, <1>22, NamesAreFragments DEF TimelineTrue, ListedWritten
  <1>25. ForgottenGone'
    <2>1. ASSUME NEW h \in Generations
          PROVE  /\ suppressed'[h] \subseteq rejected'[h]
                 /\ \A s \in rejected'[h] :
                      /\ s[1] = h /\ s[2] <= written[h]
                      /\ s \notin suppressed'[h] => s[2] <= Oldest(h)
      <3>1. CASE h = g  BY <1>5, <1>12, <1>14, <1>15, <3>1
      <3>2. CASE h # g  BY <1>14, <3>2 DEF TimelineTrue, ForgottenGone
      <3>. QED  BY <3>1, <3>2
    <2>2. \A h \in Generations : Oldest(h)' = Oldest(h)  BY <1>20 DEF Oldest
    <2>. QED  BY <1>20, <2>1, <2>2 DEF ForgottenGone
  <1>26. ASSUME NEW h \in Generations, NEW n, h = g \/ ListedFrom(h, n) PROVE ListedFrom(h, n)'
    <2>1. CASE h = g  BY <1>21, <1>22, <2>1 DEF ListedFrom
    <2>2. CASE h # g  BY <1>14, <1>21, <1>26, <2>2 DEF ListedFrom
    <2>. QED  BY <2>1, <2>2
  <1>27. AllListedFrom'
    <2>1. ASSUME NEW h \in Generations PROVE ListedFrom(h, Oldest(h))'
      <3>1. PICK n : n = Oldest(h) /\ n = Oldest(h)'  BY <1>20 DEF Oldest
      <3>2. ListedFrom(h, n)'  BY <1>26, <3>1 DEF TimelineTrue, AllListedFrom
      <3>. QED  BY <3>1, <3>2 DEF ListedFrom
    <2>. QED  BY <2>1 DEF AllListedFrom
  <1>28. FileNamed(g, o, w)'
    <2>1. o <= Oldest(g)'  BY <1>4, <1>20 DEF FileNamed, Oldest
    <2>2. \A s \in rejected'[g] : s[2] <= w /\ s \in suppressed'[g]  BY <1>5, <1>12, <1>14, <1>15
    <2>. QED  BY <1>5, <1>20, <1>21, <1>22, <1>26, <2>1, <2>2 DEF FileNamed
  <1>29. Playable(g, kept, o, w)'
    <2>1. \A i, j \in 1..Len(kept) : i < j => Before(kept[i], kept[j])
      <3>1. ASSUME NEW i \in 1..w - c, NEW j \in 1..w - c, i < j PROVE Before(<<g, c + i>>, <<g, c + j>>)
        <4>1. c + i < c + j  BY <3>1
        <4>. QED  BY <4>1 DEF Before
      <3>. QED  BY <1>17, <3>1
    <2>2. \A i \in 1..Len(kept) : kept[i][1] = g /\ kept[i][2] \in o + 1..w /\ kept[i] \notin rejected'[g]
      <3>1. ASSUME NEW i \in 1..w - c PROVE c + i \in o + 1..w /\ c + i \notin o + 1..c
        BY <1>5, <1>12
      <3>2. ASSUME NEW i \in 1..w - c PROVE <<g, c + i>> \notin X
        BY <1>15, <3>1
      <3>3. ASSUME NEW i \in 1..Len(kept)
            PROVE  kept[i][1] = g /\ kept[i][2] \in o + 1..w /\ kept[i] \notin rejected'[g]
        <4>1. kept[i] = <<g, c + i>> /\ i \in 1..w - c  BY <1>17
        <4>2. kept[i] \notin rejected'[g]  BY <1>14, <3>2, <4>1
        <4>3. kept[i][1] = g /\ kept[i][2] = c + i  BY <4>1
        <4>. QED  BY <3>1, <4>1, <4>2, <4>3
      <3>. QED  BY <3>3
    <2>3. \A n \in o + 1..w : <<g, n>> \in rejected'[g] \/ \E i \in 1..Len(kept) : kept[i] = <<g, n>>
      <3>1. ASSUME NEW n \in o + 1..w, n \notin o + 1..c PROVE \E i \in 1..Len(kept) : kept[i] = <<g, n>>
        <4>1. n - c \in 1..w - c /\ c + (n - c) = n  BY <1>5, <1>12, <3>1
        <4>. QED  BY <1>17, <4>1
      <3>. QED  BY <1>14, <1>16, <3>1
    <2>. QED  BY <2>1, <2>2, <2>3 DEF Playable
  <1>30. HasRead(r, o, w)'  BY <1>19, <1>28, <1>29 DEF HasRead
  <1>31. ReaderRight(q)'
    <2>1. q \in Polls => g <= current /\ \A s \in NamesListed : s[1] <= g
      BY <1>1, <1>3 DEF ReaderRight
    <2>2. \E o2, w2 \in 0..MaxSegments : HasRead(reader[q], o2, w2)'  BY <1>19, <1>30
    <2>. QED  BY <1>19, <1>20, <1>21, <2>1, <2>2 DEF ReaderRight
  <1>32. OneReader' /\ ReadersRight'  BY <1>2, <1>18, <1>31, OnlyReader
  <1>33. UnreadyUnseen'
    <2>1. ASSUME NEW h \in Generations \ bootstrapped'
          PROVE  /\ rejected'[h] = {} /\ suppressed'[h] = {}
                 /\ \A s \in NamesListed : s[1] # h
                 /\ \A p \in Readers : reader'[p].pc = "filtered" => reader'[p].generation # h
      <3>1. h # g /\ h \notin bootstrapped  BY <1>20
      <3>2. \A p \in Readers : reader'[p].pc = "filtered" => p = q
        BY <1>2, <1>18 DEF TimelineTypeOK, Idle
      <3>. QED  BY <1>14, <1>19, <3>1, <3>2 DEF TimelineTrue, UnreadyUnseen
    <2>. QED  BY <1>21, <2>1 DEF UnreadyUnseen
  <1>. QED  BY <1>23, <1>24, <1>25, <1>27, <1>32, <1>33 DEF TimelineTrue

\* Fragments in the order they were made.
InOrder == {st \in Fragments \X Fragments : Before(st[1], st[2])}

\* Ordered, said of fragments.
LEMMA OrderedMeans ==
    ASSUME NEW s \in Seq(Fragments)
    PROVE  Ordered(s, InOrder) <=> \A i, j \in 1..Len(s) : i < j => Before(s[i], s[j])
  <1>1. Len(s) \in Nat /\ \A i \in 1..Len(s) : s[i] \in Fragments  BY LenProperties, ElementOfSeq
  <1>2. ASSUME NEW i \in 1..Len(s), NEW j \in 1..Len(s)
        PROVE  <<s[i], s[j]>> \in InOrder <=> Before(s[i], s[j])
    <2>1. s[i] \in Fragments /\ s[j] \in Fragments  BY <1>1
    <2>. QED  BY <2>1 DEF InOrder
  <1>. QED  BY <1>2, Zenon DEF Ordered

\* The filter forgets refused names only once the file no longer has them.
LEMMA FilterKeeps ==
    ASSUME TimelineTypeOK, TimelineTypeOK', TimelineTrue, NEW q \in Readers, Filter(q)
    PROVE  TimelineTrue'
  <1>0. reader[q].pc = "read"  BY DEF Filter
  <1>1. PICK g \in Generations, media \in Seq(Fragments) : g = reader[q].generation /\ media = reader[q].media
    BY <1>0, UnderWay
  <1>2. reader[q] # Idle /\ \A p \in Readers \ {q} : reader[p] = Idle
    BY <1>0, UnderWay, OthersIdle DEF TimelineTrue
  <1>3. ReaderRight(q)  BY <1>2 DEF TimelineTrue, ReadersRight
  <1>4. PICK o \in 0..MaxSegments, w \in 0..MaxSegments :
           FileNamed(g, o, w) /\ media = [i \in 1..w - o |-> <<g, o + i>>]
    <2>1. PICK o \in 0..MaxSegments, w \in 0..MaxSegments : HasRead(reader[q], o, w)
      BY <1>0, <1>3 DEF ReaderRight
    <2>2. PICK r : r = reader[q] /\ HasRead(r, o, w) /\ r.pc = "read" /\ r.generation = g /\ r.media = media
      BY <1>0, <1>1, <2>1
    <2>3. FileNamed(g, o, w) /\ r.media = [i \in 1..w - o |-> <<r.generation, o + i>>]
      BY <2>2 DEF HasRead
    <2>4. media = [i \in 1..w - o |-> <<g, o + i>>]  BY <2>2, <2>3
    <2>. QED  BY <2>3, <2>4
  <1>5. o \in Nat /\ w \in Nat /\ o <= w /\ w <= written[g] /\ written[g] \in Nat
    BY <1>4, TimelineAssumption DEF FileNamed, TimelineTypeOK
  <1>6. Len(media) = w - o  BY <1>4, <1>5
  <1>7. \A i \in 1..w - o : media[i] = <<g, o + i>>  BY <1>4
  <1>8. \A n \in o + 1..w : \E i \in 1..w - o : media[i] = <<g, n>>
    <2>1. ASSUME NEW n \in o + 1..w PROVE \E i \in 1..w - o : media[i] = <<g, n>>
      <3>1. n - o \in 1..w - o /\ o + (n - o) = n  BY <1>5
      <3>. QED  BY <1>7, <3>1
    <2>. QED  BY <2>1
  <1>9. PICK old, S : old = suppressed[g] /\ S = old \cap ToSet(media)  OBVIOUS
  <1>10. PICK kept \in Seq(Fragments) :
            /\ kept = Omitting(media, old)
            /\ \A i \in 1..Len(kept) : kept[i] \notin old /\ \E h \in 1..Len(media) : kept[i] = media[h]
            /\ \A h \in 1..Len(media) : media[h] \notin old => \E i \in 1..Len(kept) : kept[i] = media[h]
    BY OmittingMembers
  <1>11. /\ suppressed' = [suppressed EXCEPT ![g] = S]
         /\ reader' = [reader EXCEPT ![q] = IF kept = <<>> THEN Idle
                                            ELSE [@ EXCEPT !.pc = "filtered", !.media = kept]]
         /\ UNCHANGED <<producers, bootstrapped, rejected, timeline, overlapped>>
         /\ g \in bootstrapped
    BY <1>1, <1>9, <1>10 DEF Filter, SteadyWindow
  <1>12. UNCHANGED <<current, written, bootstrapped, rejected, timeline>>  BY <1>11 DEF producers
  <1>13. NamesListed' = NamesListed  BY <1>12 DEF NamesListed
  <1>14. suppressed'[g] = S /\ \A h \in Generations \ {g} : suppressed'[h] = suppressed[h]
    BY <1>11 DEF TimelineTypeOK
  <1>15. \A s \in rejected[g] : s[1] = g /\ s \in Fragments /\ s[2] \in Nat /\ s[2] <= w
           /\ (s \notin old => s[2] <= o)
    BY <1>4, <1>9 DEF FileNamed, TimelineTrue, ForgottenGone, TimelineTypeOK, Fragments
  <1>16. old \subseteq rejected[g]  BY <1>9 DEF TimelineTrue, ForgottenGone
  <1>17. \A s \in rejected[g] : s \notin S => s[2] <= o
    <2>1. ASSUME NEW s \in rejected[g], s \notin S, s \in old PROVE s[2] <= o
      <3>1. s \notin ToSet(media)  BY <1>9, <2>1
      <3>2. \A i \in 1..w - o : media[i] # s  BY <1>6, <3>1, LenProperties DEF ToSet
      <3>3. s[1] = g /\ s[2] \in Nat /\ s[2] <= w /\ s = <<g, s[2]>>  BY <1>15 DEF Fragments
      <3>4. s[2] \notin o + 1..w  BY <1>8, <3>2, <3>3
      <3>. QED  BY <1>5, <3>3, <3>4
    <2>. QED  BY <1>15, <2>1
  <1>18. timeline'.seen = NamesListed' /\ WindowMonotonic' /\ ListedWritten' /\ AllListedFrom'
    <2>1. timeline'.seen = NamesListed' /\ WindowMonotonic' /\ ListedWritten'
      BY <1>12, <1>13 DEF TimelineTrue, WindowMonotonic, ListedWritten
    <2>2. AllListedFrom'  BY <1>12, <1>13 DEF TimelineTrue, AllListedFrom, ListedFrom, Oldest
    <2>. QED  BY <2>1, <2>2
  <1>19. ForgottenGone'
    <2>1. ASSUME NEW h \in Generations
          PROVE  /\ suppressed'[h] \subseteq rejected[h]
                 /\ \A s \in rejected[h] :
                      /\ s[1] = h /\ s[2] <= written[h]
                      /\ s \notin suppressed'[h] => s[2] <= Oldest(h)
      <3>1. CASE h = g
        <4>1. S \subseteq rejected[g]  BY <1>9, <1>16
        <4>2. o <= Oldest(g) /\ Oldest(g) \in Nat  BY <1>4, OldestIs DEF FileNamed
        <4>. QED  BY <1>5, <1>14, <1>15, <1>17, <3>1, <4>1, <4>2
      <3>2. CASE h # g  BY <1>14, <3>2 DEF TimelineTrue, ForgottenGone
      <3>. QED  BY <3>1, <3>2
    <2>2. \A h \in Generations : Oldest(h)' = Oldest(h)  BY <1>12 DEF Oldest
    <2>. QED  BY <1>12, <2>1, <2>2 DEF ForgottenGone
  <1>20. FileNamed(g, o, w)'
    <2>1. o <= Oldest(g)' /\ ListedFrom(g, o)'  BY <1>4, <1>12, <1>13 DEF FileNamed, Oldest, ListedFrom
    <2>2. \A s \in rejected[g] : s[2] <= w /\ (s \notin S => s[2] <= o)  BY <1>15, <1>17
    <2>3. /\ o <= w /\ w <= written[g] /\ w - o <= Length
          /\ \A s \in NamesListed : s[1] = g => s[2] <= w
      BY <1>4 DEF FileNamed
    <2>. QED  BY <1>12, <1>13, <1>14, <2>1, <2>2, <2>3 DEF FileNamed
  <1>21. Playable(g, kept, o, w)'
    <2>1. \A i, j \in 1..Len(kept) : i < j => Before(kept[i], kept[j])
      <3>1. ASSUME NEW i \in 1..w - o, NEW j \in 1..w - o, i < j PROVE Before(<<g, o + i>>, <<g, o + j>>)
        <4>1. o + i < o + j  BY <3>1
        <4>. QED  BY <4>1 DEF Before
      <3>2. Ordered(media, InOrder)  BY <1>6, <1>7, <3>1, OrderedMeans
      <3>3. Ordered(kept, InOrder)  BY <1>10, <3>2, OmittingOrdered
      <3>. QED  BY <3>3, OrderedMeans
    <2>2. ASSUME NEW i \in 1..Len(kept)
          PROVE  kept[i][1] = g /\ kept[i][2] \in o + 1..w /\ kept[i] \notin rejected[g]
      <3>1. PICK h \in 1..w - o : kept[i] = media[h] /\ kept[i] \notin old  BY <1>6, <1>10
      <3>2. kept[i] = <<g, o + h>>  BY <1>7, <3>1
      <3>3. kept[i][1] = g /\ kept[i][2] = o + h /\ o + h \in o + 1..w  BY <1>5, <3>2
      <3>4. kept[i] \notin rejected[g]
        <4>1. ~(o + h <= o)  BY <1>5
        <4>. QED  BY <1>15, <3>1, <3>3, <4>1
      <3>. QED  BY <3>3, <3>4
    <2>3. ASSUME NEW n \in o + 1..w
          PROVE  <<g, n>> \in rejected[g] \/ \E i \in 1..Len(kept) : kept[i] = <<g, n>>
      <3>1. PICK h \in 1..Len(media) : media[h] = <<g, n>>  BY <1>6, <1>8
      <3>. QED  BY <1>10, <1>16, <3>1
    <2>. QED  BY <1>12, <2>1, <2>2, <2>3 DEF Playable
  <1>22. PICK r : /\ reader' = [reader EXCEPT ![q] = r]
                  /\ r # Idle => r.pc = "filtered" /\ r.generation = g /\ r.media = kept
                  /\ r.pc = "filtered" => r # Idle
    <2>1. PICK r : r = IF kept = <<>> THEN Idle ELSE [[reader[q] EXCEPT !.pc = "filtered"] EXCEPT !.media = kept]
      OBVIOUS
    <2>2. reader' = [reader EXCEPT ![q] = r]  BY <1>11, <2>1 DEF TimelineTypeOK
    <2>3. CASE kept = <<>>
      <3>1. r = Idle /\ r.pc # "filtered"  BY <2>1, <2>3 DEF Idle
      <3>. QED  BY <2>2, <3>1, Zenon
    <2>4. CASE kept # <<>>
      <3>1. r.pc = "filtered" /\ r.generation = g /\ r.media = kept
        BY <1>0, <1>1, <2>1, <2>4, UnderWay DEF Reading
      <3>2. r # Idle  BY <3>1 DEF Idle
      <3>. QED  BY <2>2, <3>1, <3>2, Zenon
    <2>. QED  BY <2>3, <2>4
  <1>23. reader'[q] = r  BY <1>22 DEF TimelineTypeOK
  <1>24. ASSUME r # Idle PROVE ReaderRight(q)'
    <2>1. r.pc = "filtered" /\ r.generation = g /\ r.media = kept  BY <1>22, <1>24
    <2>2. HasRead(r, o, w)'  BY <1>20, <1>21, <2>1 DEF HasRead
    <2>3. q \in Polls => g <= current /\ \A s \in NamesListed : s[1] <= g
      BY <1>1, <1>3 DEF ReaderRight
    <2>4. \E o2, w2 \in 0..MaxSegments : HasRead(reader[q], o2, w2)'  BY <1>23, <2>2
    <2>. QED  BY <1>12, <1>13, <1>23, <2>1, <2>3, <2>4 DEF ReaderRight
  <1>25. OneReader' /\ ReadersRight'  BY <1>2, <1>22, <1>24, OnlyReader
  <1>26. UnreadyUnseen'
    <2>1. ASSUME NEW h \in Generations \ bootstrapped
          PROVE  /\ rejected[h] = {} /\ suppressed'[h] = {}
                 /\ \A s \in NamesListed : s[1] # h
                 /\ \A p \in Readers : reader'[p].pc = "filtered" => reader'[p].generation # h
      <3>1. h # g  BY <1>11
      <3>2. \A p \in Readers : reader'[p].pc = "filtered" => p = q /\ r # Idle
        BY <1>2, <1>22, <1>23 DEF TimelineTypeOK, Idle
      <3>. QED  BY <1>14, <1>22, <1>23, <3>1, <3>2 DEF TimelineTrue, UnreadyUnseen
    <2>. QED  BY <1>12, <1>13, <2>1 DEF UnreadyUnseen
  <1>. QED  BY <1>18, <1>19, <1>25, <1>26 DEF TimelineTrue

-----------------------------------------------------------------------------
(* An update, by the names it joins: the old window, then what is unseen;  *)
(* the first d leave.                                                      *)
LEMMA UpdateNames ==
    ASSUME TimelineTypeOK, NEW g \in Generations, NEW media \in Seq(Fragments),
           timeline' = Updated(g, media)
    PROVE  \E p \in Seq(Fragments), M \in Nat, d \in Nat :
              /\ M <= Len(p) /\ M = Len(timeline.segments)
              /\ \A i \in 1..M : p[i] = timeline.segments[i].name
              /\ Len(p) - M = Len(Unseen(media))
              /\ \A i \in 1..Len(p) - M : p[M + i] = Unseen(media)[i]
              /\ d <= Len(p) /\ (d = 0 \/ Len(p) - d = Length)
              /\ Len(timeline'.segments) = Len(p) - d
              /\ \A i \in 1..Len(p) - d : timeline'.segments[i].name = p[d + i]
              /\ timeline'.seen = (timeline.seen \cup {p[i] : i \in 1..Len(p)}) \ {p[i] : i \in 1..d}
  <1>1. PICK all \in Seq(Entries), d \in Nat : all = Joined(g, media) /\ d = Dropped(g, media)
    <2>1. Len(Joined(g, media)) \in Nat /\ Dropped(g, media) \in 0..Len(Joined(g, media))  BY DroppedIs
    <2>. QED  BY <2>1, JoinedIs
  <1>2. PICK n \in Nat : n = Len(all)  BY LenProperties
  <1>0. PICK u : u = Unseen(media)  OBVIOUS
  <1>3. PICK M \in Nat, U \in Nat : M = Len(timeline.segments) /\ u = Unseen(media) /\ U = Len(u) /\ n = M + U
    BY <1>0, <1>1, <1>2, JoinedIs
  <1>4. d <= n /\ (d = 0 \/ n - d = Length)  BY <1>1, <1>2, DroppedIs
  <1>5. \A i \in 1..n : all[i] \in Entries /\ all[i].name \in Fragments
    <2>1. \A i \in 1..n : all[i] \in Entries  BY <1>2, ElementOfSeq
    <2>. QED  BY <2>1 DEF Entries
  <1>6. PICK p : p = [i \in 1..n |-> all[i].name]  OBVIOUS
  <1>7. p \in Seq(Fragments) /\ Len(p) = n
    <2>1. p \in [1..n -> Fragments]  BY <1>5, <1>6
    <2>2. p \in Seq(Fragments)  BY <2>1
    <2>3. Len([i \in 1..n |-> all[i].name]) = n  BY <1>2
    <2>. QED  BY <1>6, <2>2, <2>3
  <1>8. \A i \in 1..M : p[i] = timeline.segments[i].name
    <2>1. \A i \in 1..M : i \in 1..n /\ all[i] = timeline.segments[i]  BY <1>1, <1>3, JoinedIs
    <2>. QED  BY <1>6, <2>1
  <1>9. \A i \in 1..U : p[M + i] = u[i]
    <2>1. \A i \in 1..U : M + i \in 1..n /\ all[M + i].name = u[i]  BY <1>1, <1>3, JoinedIs
    <2>. QED  BY <1>6, <2>1
  <1>10. /\ Len(timeline'.segments) = n - d
         /\ \A i \in 1..n - d : timeline'.segments[i] = all[d + i]
         /\ timeline'.seen = (timeline.seen \cup NamesTo(all, n)) \ NamesTo(all, d)
    <2>1. PICK t : t = Updated(g, media)  OBVIOUS
    <2>2. Len(t.segments) = Len(all) - d /\ \A i \in 1..Len(all) - d : t.segments[i] = all[d + i]
      BY <1>1, <2>1, UpdatedIs
    <2>3. t.seen = (timeline.seen \cup NamesTo(all, Len(all))) \ NamesTo(all, d)
      BY <1>1, <2>1, UpdatedIs
    <2>. QED  BY <1>2, <2>1, <2>2, <2>3
  <1>11. \A i \in 1..n - d : timeline'.segments[i].name = p[d + i]
    <2>1. \A i \in 1..n - d : d + i \in 1..n  BY <1>4
    <2>. QED  BY <1>6, <1>10, <2>1
  <1>12. NamesTo(all, n) = {p[i] : i \in 1..n} /\ NamesTo(all, d) = {p[i] : i \in 1..d}
    <2>1. \A i \in 1..d : i \in 1..n  BY <1>4
    <2>. QED  BY <1>6, <2>1 DEF NamesTo
  <1>13. timeline'.seen = (timeline.seen \cup {p[i] : i \in 1..n}) \ {p[i] : i \in 1..d}
    BY <1>10, <1>12
  <1>14. n - M = U  BY <1>3
  <1>15. /\ M <= Len(p) /\ M = Len(timeline.segments)
         /\ Len(p) - M = Len(Unseen(media)) /\ d <= Len(p) /\ (d = 0 \/ Len(p) - d = Length)
         /\ Len(timeline'.segments) = Len(p) - d
    BY <1>3, <1>4, <1>7, <1>10, <1>14
  <1>16. /\ \A i \in 1..Len(p) - M : p[M + i] = Unseen(media)[i]
         /\ \A i \in 1..Len(p) - d : timeline'.segments[i].name = p[d + i]
         /\ timeline'.seen = (timeline.seen \cup {p[i] : i \in 1..Len(p)}) \ {p[i] : i \in 1..d}
    BY <1>3, <1>7, <1>9, <1>11, <1>13, <1>14
  <1>. QED  BY <1>7, <1>8, <1>15, <1>16, Zenon

(* Of one generation, no more fragments follow one than its file goes on   *)
(* to number.                                                              *)
LEMMA FollowersFit ==
    ASSUME NEW p \in Seq(Fragments), NEW g, NEW n \in Nat, NEW w \in Nat, NEW i \in 1..Len(p),
           \A j, k \in 1..Len(p) : j < k => Before(p[j], p[k]),
           p[i] = <<g, n>>, \A j \in 1..Len(p) : p[j][1] <= g,
           \A j \in 1..Len(p) : p[j][1] = g => p[j][2] <= w
    PROVE  n <= w /\ Len(p) - i <= w - n
  <1>0. PICK l \in Nat : l = Len(p)  BY LenProperties
  <1>1. \A j \in 1..l : p[j][1] \in Nat /\ p[j][2] \in Nat
    BY <1>0, ElementOfSeq DEF Fragments, Generations
  <1>2. p[i][1] = g /\ p[i][2] = n /\ g \in Nat
    BY <1>0, <1>1
  <1>3. n <= w  BY <1>2
  <1>4. \A j \in i + 1..l : p[j][1] = g /\ p[j][2] \in n + 1..w
    <2>1. ASSUME NEW j \in i + 1..l PROVE p[j][1] = g /\ p[j][2] \in n + 1..w
      <3>1. j \in 1..l /\ i < j  BY <1>0
      <3>2. Before(p[i], p[j]) /\ p[j][1] <= g  BY <1>0, <3>1
      <3>3. p[j][1] = g /\ n < p[j][2]  BY <1>1, <1>2, <3>1, <3>2 DEF Before
      <3>. QED  BY <1>0, <1>1, <3>1, <3>3
    <2>. QED  BY <2>1
  <1>5. PICK f : f = [j \in i + 1..l |-> p[j][2]]  OBVIOUS
  <1>6. f \in Injection(i + 1..l, n + 1..w)
    <2>1. f \in [i + 1..l -> n + 1..w]  BY <1>4, <1>5
    <2>2. ASSUME NEW j \in i + 1..l, NEW k \in i + 1..l, j < k PROVE f[j] < f[k]
      <3>1. j \in 1..l /\ k \in 1..l  BY <1>0
      <3>2. Before(p[j], p[k])  BY <1>0, <2>2, <3>1
      <3>3. p[j][1] = g /\ p[k][1] = g  BY <1>4
      <3>4. p[j][2] < p[k][2]  BY <1>2, <3>2, <3>3 DEF Before
      <3>. QED  BY <1>5, <3>4
    <2>3. ASSUME NEW j \in i + 1..l, NEW k \in i + 1..l, f[j] = f[k] PROVE j = k
      <3>1. f[j] \in Nat /\ f[k] \in Nat  BY <1>1, <1>4, <1>5
      <3>2. ~(j < k) /\ ~(k < j)  BY <2>2, <2>3, <3>1
      <3>3. j \in Int /\ k \in Int  BY <1>0
      <3>. QED  BY <3>2, <3>3
    <2>. QED  BY <2>1, <2>3 DEF Injection, IsInjective
  <1>7. IsFiniteSet(n + 1..w) /\ Cardinality(n + 1..w) = w - n
    <2>1. PICK a \in Int : a = n + 1  OBVIOUS
    <2>2. IsFiniteSet(a..w) /\ Cardinality(a..w) = IF a > w THEN 0 ELSE w - a + 1
      <3>1. w \in Int  OBVIOUS
      <3>. QED  BY <3>1, FS_Interval, Zenon
    <2>. QED  BY <1>3, <2>1, <2>2
  <1>8. Cardinality(i + 1..l) = l - i
    <2>1. PICK a \in Int : a = i + 1  BY <1>0
    <2>2. Cardinality(a..l) = IF a > l THEN 0 ELSE l - a + 1  BY FS_Interval
    <2>. QED  BY <1>0, <2>1, <2>2
  <1>9. Cardinality(i + 1..l) <= Cardinality(n + 1..w)  BY <1>6, <1>7, FS_Injection
  <1>. QED  BY <1>0, <1>3, <1>7, <1>8, <1>9

\* The unseen fragments follow all that is listed, and what is dropped has left the file.
LEMMA PublishKeeps ==
    ASSUME TimelineTypeOK, TimelineTypeOK', TimelineTrue, NEW q \in Readers, Publish(q)
    PROVE  TimelineTrue'
  <1>0. reader[q].pc = "filtered" /\ q \in Polls  BY DEF Publish
  <1>1. PICK g \in Generations, media \in Seq(Fragments) : g = reader[q].generation /\ media = reader[q].media
    BY <1>0, UnderWay
  <1>2. reader[q] # Idle /\ \A p \in Readers \ {q} : reader[p] = Idle
    BY <1>0, UnderWay, OthersIdle DEF TimelineTrue
  <1>3. ReaderRight(q)  BY <1>2 DEF TimelineTrue, ReadersRight
  <1>4. g <= current /\ \A s \in NamesListed : s[1] <= g  BY <1>0, <1>1, <1>3 DEF ReaderRight
  <1>5. PICK o \in 0..MaxSegments, w \in 0..MaxSegments : FileNamed(g, o, w) /\ Playable(g, media, o, w)
    <2>1. PICK o \in 0..MaxSegments, w \in 0..MaxSegments : HasRead(reader[q], o, w)
      BY <1>0, <1>3 DEF ReaderRight
    <2>. QED  BY <1>0, <1>1, <2>1 DEF HasRead
  <1>6. /\ timeline' = Updated(g, media) /\ reader' = [reader EXCEPT ![q] = Idle]
        /\ UNCHANGED <<current, written, bootstrapped, suppressed, rejected>>
    BY <1>1 DEF Publish, producers, filters
  <1>7. o \in Nat /\ w \in Nat /\ o <= w /\ w <= written[g] /\ written[g] \in Nat /\ g \in Nat /\ current \in Nat
        /\ Oldest(g) \in Nat /\ o <= Oldest(g)
    <2>1. o \in Nat /\ w \in Nat  BY TimelineAssumption
    <2>2. o <= w /\ w <= written[g] /\ o <= Oldest(g)  BY <1>5 DEF FileNamed
    <2>3. written[g] \in Nat /\ Oldest(g) \in Nat  BY TimelineAssumption, OldestIs
    <2>4. g \in Nat /\ current \in Nat  BY TimelineAssumption DEF TimelineTypeOK, Generations
    <2>. QED  BY <2>1, <2>2, <2>3, <2>4
  <1>n. \A s \in NamesListed : s \in Fragments /\ s[1] \in Generations /\ s[2] \in Nat  BY NamesAreFragments
  <1>8. PICK u \in Seq(Fragments) :
           /\ u = Unseen(media)
           /\ \A i \in 1..Len(u) : u[i] \notin NamesListed /\ \E h \in 1..Len(media) : u[i] = media[h]
           /\ \A h \in 1..Len(media) : media[h] \notin NamesListed => \E i \in 1..Len(u) : u[i] = media[h]
    <2>1. timeline.seen = NamesListed  BY DEF TimelineTrue
    <2>2. PICK u : u = Omitting(media, NamesListed)  OBVIOUS
    <2>3. u = Unseen(media)  BY <2>1, <2>2 DEF Unseen
    <2>4. u \in Seq(Fragments)  BY <2>2, OmittingMembers
    <2>5. \A i \in 1..Len(u) : u[i] \notin NamesListed /\ \E h \in 1..Len(media) : u[i] = media[h]
      BY <2>2, OmittingMembers
    <2>6. \A h \in 1..Len(media) : media[h] \notin NamesListed => \E i \in 1..Len(u) : u[i] = media[h]
      BY <2>2, OmittingMembers
    <2>. QED  BY <2>3, <2>4, <2>5, <2>6, Zenon
  <1>9. \A i, j \in 1..Len(u) : i < j => Before(u[i], u[j])
    <2>1. Ordered(media, InOrder)  BY <1>5, OrderedMeans DEF Playable
    <2>2. Ordered(u, InOrder)  BY <1>8, <2>1, OmittingOrdered DEF Unseen
    <2>. QED  BY <2>2, OrderedMeans
  <1>10. ASSUME NEW i \in 1..Len(u)
         PROVE  u[i][1] = g /\ u[i][2] \in o + 1..w /\ u[i] \notin rejected[g] /\ u[i] \notin NamesListed
                /\ u[i] = <<g, u[i][2]>>
    <2>1. PICK h \in 1..Len(media) : u[i] = media[h]  BY <1>8
    <2>2. media[h][1] = g /\ media[h][2] \in o + 1..w /\ media[h] \notin rejected[g]  BY <1>5 DEF Playable
    <2>3. u[i] \in Fragments  BY LenProperties, ElementOfSeq
    <2>4. u[i] = <<u[i][1], u[i][2]>>  BY <2>3 DEF Fragments
    <2>5. u[i][1] = g /\ u[i][2] \in o + 1..w /\ u[i] \notin rejected[g]  BY <2>1, <2>2
    <2>. QED  BY <1>8, <2>4, <2>5
  <1>11. PICK p \in Seq(Fragments), M \in Nat, d \in Nat :
            /\ M <= Len(p) /\ M = Len(timeline.segments)
            /\ \A i \in 1..M : p[i] = timeline.segments[i].name
            /\ Len(p) - M = Len(u)
            /\ \A i \in 1..Len(p) - M : p[M + i] = u[i]
            /\ d <= Len(p) /\ (d = 0 \/ Len(p) - d = Length)
            /\ Len(timeline'.segments) = Len(p) - d
            /\ \A i \in 1..Len(p) - d : timeline'.segments[i].name = p[d + i]
            /\ timeline'.seen = (timeline.seen \cup {p[i] : i \in 1..Len(p)}) \ {p[i] : i \in 1..d}
    <2>1. PICK p \in Seq(Fragments), M \in Nat, d \in Nat :
             /\ M <= Len(p) /\ M = Len(timeline.segments)
             /\ \A i \in 1..M : p[i] = timeline.segments[i].name
             /\ Len(p) - M = Len(Unseen(media))
             /\ \A i \in 1..Len(p) - M : p[M + i] = Unseen(media)[i]
             /\ d <= Len(p) /\ (d = 0 \/ Len(p) - d = Length)
             /\ Len(timeline'.segments) = Len(p) - d
             /\ \A i \in 1..Len(p) - d : timeline'.segments[i].name = p[d + i]
             /\ timeline'.seen = (timeline.seen \cup {p[i] : i \in 1..Len(p)}) \ {p[i] : i \in 1..d}
      BY <1>6, UpdateNames, Zenon
    <2>2. Len(p) - M = Len(u) /\ \A i \in 1..Len(p) - M : p[M + i] = u[i]  BY <1>8, <2>1
    <2>3. /\ M <= Len(p) /\ M = Len(timeline.segments)
          /\ \A i \in 1..M : p[i] = timeline.segments[i].name
          /\ Len(p) - M = Len(u)
          /\ \A i \in 1..Len(p) - M : p[M + i] = u[i]
          /\ d <= Len(p) /\ (d = 0 \/ Len(p) - d = Length)
          /\ Len(timeline'.segments) = Len(p) - d
          /\ \A i \in 1..Len(p) - d : timeline'.segments[i].name = p[d + i]
          /\ timeline'.seen = (timeline.seen \cup {p[i] : i \in 1..Len(p)}) \ {p[i] : i \in 1..d}
      BY <2>1, <2>2, Zenon
    <2>. QED  BY <2>3, Zenon
  <1>12. PICK L \in Nat : L = Len(p) /\ M <= L /\ d <= L  BY <1>11, LenProperties
  <1>p. \A i \in 1..L : p[i] \in Fragments /\ p[i][1] \in Nat /\ p[i][2] \in Nat /\ p[i] = <<p[i][1], p[i][2]>>
    <2>1. \A i \in 1..L : p[i] \in Fragments  BY <1>12, ElementOfSeq
    <2>. QED  BY <2>1, FragmentParts
  <1>13. NamesListed = {p[i] : i \in 1..M}
    <2>1. M = Len(timeline.segments) /\ \A i \in 1..M : p[i] = timeline.segments[i].name  BY <1>11, Zenon
    <2>2. {timeline.segments[i].name : i \in 1..M} = {p[i] : i \in 1..M}  BY <2>1
    <2>. QED  BY <2>1, <2>2 DEF NamesListed
  <1>14. \A i \in M + 1..L : i - M \in 1..Len(u) /\ p[i] = u[i - M]
    <2>1. ASSUME NEW i \in M + 1..L PROVE i - M \in 1..L - M /\ M + (i - M) = i  BY <1>12
    <2>. QED  BY <1>11, <1>12, <2>1
  <1>15. \A i \in M + 1..L :
            p[i][1] = g /\ p[i][2] \in o + 1..w /\ p[i] \notin rejected[g] /\ p[i] \notin NamesListed
    BY <1>10, <1>14
  <1>16. \A i \in 1..L : p[i][1] <= g /\ (p[i][1] = g => p[i][2] <= w)
    <2>1. ASSUME NEW i \in 1..L PROVE p[i][1] <= g /\ (p[i][1] = g => p[i][2] <= w)
      <3>1. CASE i \in 1..M
        <4>1. p[i] \in NamesListed  BY <1>13, <3>1
        <4>. QED  BY <1>4, <1>5, <4>1 DEF FileNamed
      <3>2. CASE i \in M + 1..L  BY <1>7, <1>15, <3>2
      <3>. QED  BY <1>12, <3>1, <3>2
    <2>. QED  BY <2>1
  <1>17. ListedFrom(g, o)  BY <1>5 DEF FileNamed
  <1>18. ASSUME NEW i \in 1..M, NEW j \in M + 1..L PROVE Before(p[i], p[j])
    <2>0. i \in 1..L /\ j \in 1..L  BY <1>12
    <2>1. p[i] \in NamesListed /\ p[i][1] <= g  BY <1>4, <1>13
    <2>2. p[j][1] = g /\ p[j][2] \in o + 1..w /\ p[j] \notin rejected[g] /\ p[j] \notin NamesListed
      BY <1>15
    <2>3. CASE p[i][1] < g  BY <2>2, <2>3 DEF Before
    <2>4. CASE p[i][1] = g
      <3>1. \A n \in o + 1..p[i][2] : <<g, n>> \in NamesListed \cup rejected[g]
        BY <1>4, <1>17, <2>1, <2>4 DEF ListedFrom
      <3>2. p[j] = <<g, p[j][2]>>  BY <1>p, <2>0, <2>2
      <3>3. p[j][2] \notin o + 1..p[i][2]  BY <2>2, <3>1, <3>2
      <3>4. p[i][2] < p[j][2]  BY <1>7, <1>p, <2>0, <2>2, <3>3
      <3>. QED  BY <2>2, <2>4, <3>4 DEF Before
    <2>. QED  BY <1>7, <1>p, <2>0, <2>1, <2>3, <2>4
  <1>19. \A i, j \in 1..L : i < j => Before(p[i], p[j])
    <2>1. ASSUME NEW i \in 1..L, NEW j \in 1..L, i < j PROVE Before(p[i], p[j])
      <3>1. CASE j \in 1..M
        <4>1. i \in 1..M  BY <2>1, <3>1
        <4>2. Before(timeline.segments[i].name, timeline.segments[j].name)
          BY <1>11, <2>1, <3>1, <4>1 DEF TimelineTrue, WindowMonotonic
        <4>. QED  BY <1>11, <3>1, <4>1, <4>2
      <3>2. CASE j \in M + 1..L /\ i \in 1..M  BY <1>18, <3>2
      <3>3. CASE j \in M + 1..L /\ i \in M + 1..L
        <4>1. i - M < j - M  BY <1>12, <2>1
        <4>. QED  BY <1>9, <1>14, <3>3, <4>1
      <3>. QED  BY <1>12, <3>1, <3>2, <3>3
    <2>. QED  BY <2>1
  <1>20. NamesListed' = {p[i] : i \in d + 1..L}
    <2>1. \A i \in 1..L - d : d + i \in d + 1..L  BY <1>12
    <2>2. \A i \in d + 1..L : i - d \in 1..L - d /\ d + (i - d) = i  BY <1>12
    <2>3. NamesListed' = {p[d + i] : i \in 1..L - d}
      <3>1. Len(timeline'.segments) = L - d /\ \A i \in 1..L - d : timeline'.segments[i].name = p[d + i]
        BY <1>11, <1>12
      <3>. QED  BY <3>1 DEF NamesListed
    <2>4. \A s \in {p[d + i] : i \in 1..L - d} : s \in {p[i] : i \in d + 1..L}  BY <2>1
    <2>5. \A s \in {p[i] : i \in d + 1..L} : s \in {p[d + i] : i \in 1..L - d}  BY <2>2
    <2>. QED  BY <2>3, <2>4, <2>5
  <1>21. \A i \in 1..L, j \in 1..L : p[i] = p[j] => i = j
    <2>1. ASSUME NEW i \in 1..L, NEW j \in 1..L, i < j PROVE p[i] # p[j]
      <3>1. Before(p[i], p[j])  BY <1>19, <2>1
      <3>. QED  BY <1>p, <3>1 DEF Before
    <2>. QED  BY <1>12, <2>1
  <1>22. timeline'.seen = NamesListed'
    <2>1. timeline.seen = {p[i] : i \in 1..M}  BY <1>13 DEF TimelineTrue
    <2>2. timeline'.seen = {p[i] : i \in 1..L} \ {p[i] : i \in 1..d}
      <3>1. timeline.seen \subseteq {p[i] : i \in 1..L}  BY <1>12, <2>1
      <3>2. timeline'.seen = (timeline.seen \cup {p[i] : i \in 1..L}) \ {p[i] : i \in 1..d}  BY <1>11, <1>12
      <3>. QED  BY <3>1, <3>2
    <2>3. {p[i] : i \in 1..L} \ {p[i] : i \in 1..d} = {p[i] : i \in d + 1..L}
      <3>1. \A i \in d + 1..L : i \in 1..L /\ i \notin 1..d  BY <1>12
      <3>2. \A i \in 1..L : i \in d + 1..L \/ i \in 1..d  BY <1>12
      <3>3. \A i \in 1..d : i \in 1..L  BY <1>12
      <3>4. \A i \in d + 1..L : p[i] \in {p[j] : j \in 1..L} /\ p[i] \notin {p[j] : j \in 1..d}
        BY <1>21, <3>1, <3>3
      <3>. QED  BY <3>2, <3>4
    <2>. QED  BY <1>20, <2>2, <2>3
  <1>23. WindowMonotonic'
    <2>1. ASSUME NEW i \in 1..L - d, NEW j \in 1..L - d, i < j PROVE Before(p[d + i], p[d + j])
      <3>1. d + i \in 1..L /\ d + j \in 1..L /\ d + i < d + j  BY <1>12, <2>1
      <3>. QED  BY <1>19, <3>1
    <2>2. Len(timeline'.segments) = L - d /\ \A i \in 1..L - d : timeline'.segments[i].name = p[d + i]
      BY <1>11, <1>12
    <2>3. \A i, j \in 1..Len(timeline'.segments) :
             i < j => Before(timeline'.segments[i].name, timeline'.segments[j].name)
      BY <2>1, <2>2
    <2>. QED  BY <2>3 DEF WindowMonotonic, Before
  <1>24. ListedWritten'
    <2>1. ASSUME NEW i \in 1..L
          PROVE  p[i][1] <= current /\ p[i][2] <= written[p[i][1]] /\ p[i] \notin rejected[p[i][1]]
      <3>1. CASE i \in 1..M
        <4>1. p[i] \in NamesListed  BY <1>13, <3>1
        <4>. QED  BY <4>1 DEF TimelineTrue, ListedWritten
      <3>2. CASE i \in M + 1..L
        <4>1. p[i][1] = g /\ p[i] \notin rejected[g]  BY <1>15, <3>2
        <4>2. PICK y \in o + 1..w : y = p[i][2]  BY <1>15, <3>2
        <4>3. y <= written[g]  BY <1>7
        <4>. QED  BY <1>4, <4>1, <4>2, <4>3
      <3>. QED  BY <1>12, <3>1, <3>2
    <2>2. \A i \in d + 1..L : i \in 1..L  BY <1>12
    <2>3. \A s \in {p[i] : i \in d + 1..L} : s[1] <= current /\ s[2] <= written[s[1]] /\ s \notin rejected[s[1]]
      BY <2>1, <2>2
    <2>. QED  BY <1>6, <1>20, <2>3 DEF ListedWritten
  <1>25. ForgottenGone'  BY <1>6 DEF TimelineTrue, ForgottenGone, Oldest
  <1>26. OneReader' /\ ReadersRight'  BY <1>2, <1>6, OnlyReader
  <1>27. UnreadyUnseen'
    <2>1. ASSUME NEW h \in Generations \ bootstrapped
          PROVE  /\ rejected[h] = {} /\ suppressed[h] = {}
                 /\ \A s \in NamesListed' : s[1] # h
                 /\ \A r \in Readers : reader'[r].pc = "filtered" => reader'[r].generation # h
      <3>1. h # g  BY <1>0, <1>1 DEF TimelineTrue, UnreadyUnseen
      <3>2. \A i \in 1..L : p[i][1] # h
        <4>1. ASSUME NEW i \in 1..L PROVE p[i][1] # h
          <5>1. CASE i \in 1..M
            <6>1. p[i] \in NamesListed  BY <1>13, <5>1
            <6>. QED  BY <6>1 DEF TimelineTrue, UnreadyUnseen
          <5>2. CASE i \in M + 1..L  BY <1>15, <3>1, <5>2
          <5>. QED  BY <1>12, <5>1, <5>2
        <4>. QED  BY <4>1
      <3>3. \A i \in d + 1..L : i \in 1..L  BY <1>12
      <3>4. \A r \in Readers : reader'[r] = Idle  BY <1>2, <1>6 DEF TimelineTypeOK
      <3>. QED  BY <1>20, <3>2, <3>3, <3>4 DEF TimelineTrue, UnreadyUnseen, Idle
    <2>. QED  BY <1>6, <2>1 DEF UnreadyUnseen
  <1>28. AllListedFrom'
    <2>1. ASSUME NEW h \in Generations, \A s \in NamesListed' : s[1] <= h,
                 NEW s \in NamesListed', s[1] = h, NEW n \in Oldest(h) + 1..s[2]
          PROVE  <<h, n>> \in NamesListed' \cup rejected[h]
      <3>1. PICK k \in d + 1..L : s = p[k]  BY <1>20, <2>1
      <3>2. k \in 1..L /\ d < k /\ h \in Nat /\ Oldest(h) \in Nat /\ n \in Nat /\ Oldest(h) < n
        BY <1>12, <1>p, <2>1, <3>1, OldestIs DEF Generations
      <3>3. \A i \in 1..L : p[i][1] <= h
        <4>1. ASSUME NEW i \in 1..L PROVE p[i][1] <= h
          <5>1. CASE i \in d + 1..L  BY <1>20, <2>1, <5>1
          <5>2. CASE i \in 1..d
            <6>1. Before(p[i], p[k])  BY <1>19, <3>2, <5>2
            <6>2. p[k][1] = h /\ i \in 1..L  BY <1>12, <2>1, <3>1, <5>2
            <6>3. p[i][1] \in Nat  BY <1>p, <6>2
            <6>4. p[i][1] < h \/ p[i][1] = h  BY <6>1, <6>2 DEF Before
            <6>. QED  BY <3>2, <6>3, <6>4
          <5>. QED  BY <1>12, <5>1, <5>2
        <4>. QED  BY <4>1
      <3>4. <<h, n>> \in {p[i] : i \in 1..L} \cup rejected[h]
        <4>1. CASE k \in 1..M
          <5>1. \A t \in NamesListed : t[1] <= h  BY <1>12, <1>13, <3>3
          <5>2. s \in NamesListed  BY <1>13, <3>1, <4>1
          <5>3. ListedFrom(h, Oldest(h))  BY DEF TimelineTrue, AllListedFrom
          <5>4. <<h, n>> \in NamesListed \cup rejected[h]  BY <2>1, <5>1, <5>2, <5>3 DEF ListedFrom
          <5>. QED  BY <1>12, <1>13, <5>4
        <4>2. CASE k \in M + 1..L
          <5>1. h = g /\ s[2] \in o + 1..w  BY <1>15, <2>1, <3>1, <4>2
          <5>2. n \in o + 1..w  BY <1>7, <3>2, <2>1, <5>1
          <5>3. <<g, n>> \in rejected[g] \/ \E i \in 1..Len(media) : media[i] = <<g, n>>
            BY <1>5, <5>2 DEF Playable
          <5>4. ASSUME NEW i \in 1..Len(media) PROVE media[i] \in {p[j] : j \in 1..L}
            <6>1. CASE media[i] \in NamesListed  BY <1>12, <1>13, <6>1
            <6>2. CASE media[i] \notin NamesListed
              <7>1. PICK j \in 1..Len(u) : u[j] = media[i]  BY <1>8, <6>2
              <7>2. M + j \in 1..L /\ p[M + j] = u[j]  BY <1>11, <1>12
              <7>. QED  BY <7>1, <7>2
            <6>. QED  BY <6>1, <6>2
          <5>. QED  BY <5>1, <5>3, <5>4
        <4>3. k \in 1..M \/ k \in M + 1..L  BY <1>12, <3>2
        <4>. QED  BY <4>1, <4>2, <4>3
      <3>5. ASSUME NEW i \in 1..L, p[i] = <<h, n>> PROVE i \in d + 1..L
        <4>1. PICK x \in Nat : x = written[h] /\ x - Oldest(h) <= Length
          BY TimelineAssumption, OldestIs
        <4>2. \A j \in 1..L : p[j][1] = h => p[j][2] <= x
          <5>1. ASSUME NEW j \in 1..L, p[j][1] = h PROVE p[j][2] <= x
            <6>1. CASE j \in 1..M
              <7>1. p[j] \in NamesListed  BY <1>13, <6>1
              <7>. QED  BY <4>1, <5>1, <7>1 DEF TimelineTrue, ListedWritten
            <6>2. CASE j \in M + 1..L
              <7>1. h = g /\ p[j][2] \in o + 1..w  BY <1>15, <5>1, <6>2
              <7>2. w <= x  BY <1>7, <4>1, <7>1
              <7>3. PICK y \in o + 1..w : y = p[j][2]  BY <7>1
              <7>4. y <= w /\ y \in Nat /\ w \in Nat  BY <1>7, <7>3
              <7>5. y <= x  BY <7>2, <7>4
              <7>. QED  BY <7>3, <7>5
            <6>. QED  BY <1>12, <6>1, <6>2
          <5>. QED  BY <5>1
        <4>3. n <= x /\ L - i <= x - n  BY <1>12, <1>19, <3>2, <3>3, <3>5, <4>2, FollowersFit
        <4>4. Length \in Nat  BY TimelineAssumption
        <4>5. PICK b \in Nat : b = Oldest(h) /\ b < n /\ x - b <= Length  BY <3>2, <4>1
        <4>6. d = 0 \/ L - d = Length  BY <1>11, <1>12
        <4>7. L - i < Length  BY <3>2, <4>3, <4>4, <4>5
        <4>8. d < i  BY <1>12, <4>4, <4>6, <4>7
        <4>. QED  BY <4>8
      <3>. QED  BY <1>20, <3>4, <3>5
    <2>2. ASSUME NEW h \in Generations PROVE ListedFrom(h, Oldest(h))'
      <3>1. PICK b : b = Oldest(h) /\ b = Oldest(h)'  BY <1>6 DEF Oldest
      <3>2. ListedFrom(h, b)'  BY <1>6, <2>1, <3>1 DEF ListedFrom
      <3>. QED  BY <3>1, <3>2 DEF ListedFrom
    <2>. QED  BY <2>2 DEF AllListedFrom
  <1>. QED  BY <1>22, <1>23, <1>24, <1>25, <1>26, <1>27, <1>28 DEF TimelineTrue

-----------------------------------------------------------------------------
\* Each step keeps the relations unless reads overlap.
LEMMA TimelineInvStep ==
    TimelineTypeOK /\ TimelineTypeOK' /\ TimelineInv /\ [Next]_vars => TimelineInv'
  <1>. SUFFICES ASSUME TimelineTypeOK, TimelineTypeOK', TimelineInv, [Next]_vars, ~overlapped'
                PROVE  TimelineTrue'
    BY DEF TimelineInv
  <1>1. ~overlapped
    <2>1. overlapped => overlapped'
      BY DEF Next, vars, StartProducer, WriteSegment, PromoteProducer, Look, ReadPlaylist, ReadFails, Bootstrap,
         Filter, LoopDone, Publish
    <2>. QED  BY <2>1
  <1>2. TimelineTrue  BY <1>1 DEF TimelineInv
  <1>3. MaxGeneration \in Nat /\ current \in Nat  BY TimelineAssumption DEF TimelineTypeOK
  <1>4. CASE StartProducer  BY <1>2, <1>3, <1>4, PromotionKeeps DEF StartProducer
  <1>5. ASSUME NEW g \in Generations, WriteSegment(g) PROVE TimelineTrue'
    <2>1. written' = [written EXCEPT ![g] = written[g] + 1] /\ UNCHANGED <<current, filters, reader, timeline>>
      BY <1>5 DEF WriteSegment
    <2>. QED  BY <1>2, <2>1, WritingKeeps
  <1>6. ASSUME NEW g \in Generations, PromoteProducer(g) PROVE TimelineTrue'
    <2>1. /\ current' \in Nat /\ current <= current'
          /\ UNCHANGED <<written, filters, reader, timeline>>
      BY <1>3, <1>6, TimelineAssumption DEF PromoteProducer, TimelineTypeOK, Generations
    <2>. QED  BY <1>2, <2>1, PromotionKeeps
  <1>7. ASSUME NEW q \in Readers, Look(q) PROVE TimelineTrue'  BY <1>2, <1>7, LookKeeps
  <1>8. ASSUME NEW q \in Readers, ReadPlaylist(q) PROVE TimelineTrue'  BY <1>2, <1>8, ReadKeeps
  <1>9. ASSUME NEW q \in Readers, ReadFails(q) \/ LoopDone(q) PROVE TimelineTrue'
    <2>1. /\ reader[q] # Idle /\ reader' = [reader EXCEPT ![q] = Idle]
          /\ UNCHANGED <<current, written, filters, timeline>>
      BY <1>9 DEF ReadFails, LoopDone, Idle, producers
    <2>. QED  BY <1>2, <2>1, QuietKeeps
  <1>10. ASSUME NEW q \in Readers, Bootstrap(q) PROVE TimelineTrue'  BY <1>2, <1>10, BootstrapKeeps
  <1>11. ASSUME NEW q \in Readers, Filter(q) PROVE TimelineTrue'  BY <1>2, <1>11, FilterKeeps
  <1>12. ASSUME NEW q \in Readers, Publish(q) PROVE TimelineTrue'  BY <1>2, <1>12, PublishKeeps
  <1>13. CASE UNCHANGED vars
    <2>1. current' \in Nat /\ current <= current' /\ UNCHANGED <<written, filters, reader, timeline>>
      BY <1>3, <1>13 DEF vars, filters
    <2>. QED  BY <1>2, <2>1, PromotionKeeps
  <1>. QED  BY <1>4, <1>5, <1>6, <1>7, <1>8, <1>9, <1>10, <1>11, <1>12, <1>13 DEF Next

(* Unless two reads have overlapped, the window, the filter's memory and   *)
(* the read under way fit each other (TimelineTrue): the inductive         *)
(* invariant behind the order of the fragments viewers are shown.          *)
THEOREM TimelineSafety == Spec => []TimelineInv
  <1>1. Init => TimelineInv  BY TimelineInvInit DEF TimelineInv
  <1>. QED  BY <1>1, TimelineTypes, TimelineInvStep, PTL DEF Spec

(* One poll at a time, the client-facing playlist lists fragments in the   *)
(* order they were made, each once, across every replacement, and none     *)
(* that the startup filter refused (HLSPlaylistSnapshot, hlsTimeline       *)
(* .update, steadyHLSWindow), for every window length.                     *)
THEOREM WindowTrueOnePollAtATime == Spec => []TimelineTrueUnlessOverlapped
  <1>1. TimelineTypeOK /\ TimelineInv => TimelineTrueUnlessOverlapped
    <2>. SUFFICES ASSUME TimelineTypeOK, TimelineTrue PROVE WindowMonotonic /\ RejectedStayHidden
      BY DEF TimelineInv, TimelineTrueUnlessOverlapped
    <2>1. ASSUME NEW s \in NamesListed, NEW g \in Generations, s \in rejected[g] PROVE FALSE
      <3>1. s[1] = g  BY <2>1 DEF TimelineTrue, ForgottenGone
      <3>2. s \notin rejected[s[1]]  BY <2>1 DEF TimelineTrue, ListedWritten
      <3>. QED  BY <2>1, <3>1, <3>2
    <2>2. RejectedStayHidden  BY <2>1 DEF RejectedStayHidden, NamesListed
    <2>. QED  BY <2>2 DEF TimelineTrue
  <1>. QED  BY <1>1, TimelineTypes, TimelineSafety, PTL

-----------------------------------------------------------------------------
(***************************************************************************)
(* The history of a session, for every set of viewers, every capacity of   *)
(* the queue and any number of records.                                    *)
(*                                                                         *)
(* The inductive invariant follows the last word on a viewer: it is the    *)
(* record that waits to be told, or else the last one of the viewer in the *)
(* queue, or else the row.  For a viewer that is not doubtful that word    *)
(* says whether it watches.  Once the session is completing, whoever still *)
(* watches is on the list of those to close, and the end of the session is *)
(* told after them, so that pruning never takes the row of one who watches.*)
(***************************************************************************)

HistoryRecord ==
    [what : {"connection"}, client : HistoryClients, row : {"open", "ended"}, by : {"viewer", "stop", "run"}]
      \cup [what : {"session"}, client : {"none"}, row : {"open", "ended"}, by : {"run"}]
      \cup [what : {"event"}, client : {"none"}, row : {"none"}, by : {"viewer"}]

Stages == {"starting", "live", "ended", "completing", "gone", "down"}

HistoryTypeOK ==
    /\ stage \in Stages
    /\ watching \in [HistoryClients -> {"absent", "open", "ended", "terminated"}]
    /\ toTell \subseteq HistoryRecord
    /\ queue \in Seq(HistoryRecord)
    /\ sessionRow \in {"none", "open", "ended"}
    /\ connectionRow \in [HistoryClients -> {"none", "open", "ended"}]

\* No record of q is about c.
Silent(q, c) == \A i \in 1..Len(q) : q[i].client # c

\* The last record of q about c says that c watches, or that it does not.
LastSays(q, c, watches) ==
    \A i \in 1..Len(q) :
        q[i].client = c /\ (\A j \in i + 1..Len(q) : q[j].client # c) => (q[i].row = "open" <=> watches)

\* The last word on c: told by T, or else by q, or else by the row.
LastWord(c, T, q, row, watches) ==
    /\ \A r, s \in T : r.client = c /\ s.client = c => r = s
    /\ \A r \in T : r.client = c => (r.row = "open" <=> watches)
    /\ (\A r \in T : r.client # c) => LastSays(q, c, watches)
    /\ (\A r \in T : r.client # c) /\ Silent(q, c) => (row = "open" <=> watches)

KnownViewer(c) ==
    /\ LastWord(c, toTell, queue, connectionRow[c], watching[c] = "open")
    /\ stage = "completing" /\ watching[c] = "open" => c \in leaving
    /\ stage \in {"gone", "down"} => watching[c] # "open"

EndToldLate ==
    \/ stage \in {"gone", "down"}
    \/ /\ sessionRow # "ended"
       /\ \A r \in toTell : r.what = "session" => r.row = "open"
       /\ \A i \in 1..Len(queue) : queue[i].what = "session" => queue[i].row = "open"

HistoryInv ==
    /\ HistoryTypeOK
    /\ \A c \in HistoryClients \ doubtful : KnownViewer(c)
    /\ EndToldLate

-----------------------------------------------------------------------------

LEMMA RecordFields ==
    ASSUME NEW r \in HistoryRecord
    PROVE  /\ r.what = "connection" <=> r.client \in HistoryClients
           /\ r.client \in HistoryClients \/ r.client = "none"
           /\ r.row = "open" \/ r.row = "ended" \/ r.row = "none"
           /\ r.what = "connection" => r.row = "open" \/ r.row = "ended"
           /\ r.what = "session" => r.row = "open" \/ r.row = "ended"
  <1>. QED  BY HistoryAssumption DEF HistoryRecord

LEMMA QueueTail ==
    ASSUME NEW q \in Seq(HistoryRecord), q # <<>>
    PROVE  /\ Len(q) \in Nat /\ Len(q) > 0 /\ Tail(q) \in Seq(HistoryRecord) /\ Len(Tail(q)) = Len(q) - 1
           /\ \A i \in 1..Len(q) - 1 : Tail(q)[i] = q[i + 1]
           /\ Head(q) = q[1] /\ Head(q) \in HistoryRecord
  <1>. QED  BY HeadTailProperties

LEMMA QueueAppend ==
    ASSUME NEW q \in Seq(HistoryRecord), NEW r \in HistoryRecord
    PROVE  /\ Len(q) \in Nat /\ Append(q, r) \in Seq(HistoryRecord) /\ Len(Append(q, r)) = Len(q) + 1
           /\ \A i \in 1..Len(q) : Append(q, r)[i] = q[i]
           /\ Append(q, r)[Len(q) + 1] = r
  <1>. QED  BY AppendProperties

LEMMA SaidByAppend ==
    ASSUME NEW q \in Seq(HistoryRecord), NEW r \in HistoryRecord, NEW c, NEW w
    PROVE  /\ r.client # c /\ LastSays(q, c, w) => LastSays(Append(q, r), c, w)
           /\ r.client # c /\ Silent(Append(q, r), c) => Silent(q, c)
           /\ r.client = c => ~Silent(Append(q, r), c)
           /\ r.client = c /\ (r.row = "open" <=> w) => LastSays(Append(q, r), c, w)
  <1>1. PICK n \in Nat, p \in Seq(HistoryRecord) : n = Len(q) /\ p = Append(q, r)  BY QueueAppend
  <1>2. Len(p) = n + 1 /\ (\A i \in 1..n : p[i] = q[i]) /\ p[n + 1] = r  BY <1>1, QueueAppend
  <1>3. ASSUME r.client # c, LastSays(q, c, w) PROVE LastSays(p, c, w)
    <2>. SUFFICES ASSUME NEW i \in 1..n + 1, p[i].client = c, \A j \in i + 1..n + 1 : p[j].client # c
                  PROVE  p[i].row = "open" <=> w
      BY <1>2 DEF LastSays
    <2>1. i \in 1..n /\ q[i] = p[i]  BY <1>2, <1>3
    <2>2. \A j \in i + 1..n : q[j].client # c  BY <1>2, <2>1
    <2>. QED  BY <1>1, <1>3, <2>1, <2>2 DEF LastSays
  <1>4. ASSUME Silent(p, c) PROVE Silent(q, c)
    BY <1>1, <1>2, <1>4 DEF Silent
  <1>5. ASSUME r.client = c PROVE ~Silent(p, c)
    BY <1>2, <1>5 DEF Silent
  <1>6. ASSUME r.client = c, r.row = "open" <=> w PROVE LastSays(p, c, w)
    <2>. SUFFICES ASSUME NEW i \in 1..n + 1, p[i].client = c, \A j \in i + 1..n + 1 : p[j].client # c
                  PROVE  p[i].row = "open" <=> w
      BY <1>2 DEF LastSays
    <2>1. i = n + 1  BY <1>2, <1>6
    <2>. QED  BY <1>2, <1>6, <2>1
  <1>. QED  BY <1>1, <1>3, <1>4, <1>5, <1>6

LEMMA SaidByTail ==
    ASSUME NEW q \in Seq(HistoryRecord), q # <<>>, NEW c, NEW w
    PROVE  /\ LastSays(q, c, w) => LastSays(Tail(q), c, w)
           /\ Silent(Tail(q), c) /\ Head(q).client # c => Silent(q, c)
           /\ Silent(Tail(q), c) /\ Head(q).client = c /\ LastSays(q, c, w) => (Head(q).row = "open" <=> w)
  <1>1. PICK n \in Nat, p \in Seq(HistoryRecord) : n + 1 = Len(q) /\ p = Tail(q)
    <2>1. Tail(q) \in Seq(HistoryRecord) /\ Len(q) - 1 \in Nat /\ (Len(q) - 1) + 1 = Len(q)
      BY QueueTail
    <2>. QED  BY <2>1
  <1>2. Len(p) = n /\ (\A i \in 1..n : p[i] = q[i + 1]) /\ Head(q) = q[1]  BY <1>1, QueueTail
  <1>3. ASSUME LastSays(q, c, w) PROVE LastSays(p, c, w)
    <2>. SUFFICES ASSUME NEW i \in 1..n, p[i].client = c, \A j \in i + 1..n : p[j].client # c
                  PROVE  p[i].row = "open" <=> w
      BY <1>2 DEF LastSays
    <2>1. i + 1 \in 1..n + 1 /\ q[i + 1] = p[i]  BY <1>2
    <2>2. ASSUME NEW j \in (i + 1) + 1..n + 1 PROVE q[j].client # c
      <3>1. PICK h \in i + 1..n : j = h + 1
        <4>1. j - 1 \in i + 1..n /\ j = (j - 1) + 1  OBVIOUS
        <4>. QED  BY <4>1
      <3>2. p[h].client # c /\ h \in 1..n  BY <3>1
      <3>3. p[h] = q[h + 1]  BY <1>2, <3>2
      <3>. QED  BY <3>1, <3>2, <3>3
    <2>. QED  BY <1>1, <1>3, <2>1, <2>2 DEF LastSays
  <1>4. ASSUME Silent(p, c) PROVE \A j \in 2..n + 1 : q[j].client # c
    <2>. SUFFICES ASSUME NEW j \in 2..n + 1 PROVE q[j].client # c
      OBVIOUS
    <2>1. PICK h \in 1..n : j = h + 1
      <3>1. j - 1 \in 1..n /\ j = (j - 1) + 1  OBVIOUS
      <3>. QED  BY <3>1
    <2>2. p[h].client # c  BY <1>2, <1>4, <2>1 DEF Silent
    <2>3. p[h] = q[h + 1]  BY <1>2, <2>1
    <2>. QED  BY <2>1, <2>2, <2>3
  <1>5. ASSUME Silent(p, c), Head(q).client # c PROVE Silent(q, c)
    <2>1. \A j \in 1..n + 1 : j = 1 \/ j \in 2..n + 1  OBVIOUS
    <2>. QED  BY <1>1, <1>2, <1>4, <1>5, <2>1 DEF Silent
  <1>6. ASSUME Silent(p, c), Head(q).client = c, LastSays(q, c, w) PROVE Head(q).row = "open" <=> w
    <2>1. 1 \in 1..n + 1 /\ \A j \in 1 + 1..n + 1 : q[j].client # c  BY <1>4, <1>6
    <2>. QED  BY <1>1, <1>2, <1>6, <2>1 DEF LastSays
  <1>. QED  BY <1>1, <1>3, <1>5, <1>6

-----------------------------------------------------------------------------

\* A step that leaves the records and the rows alone.
LEMMA NothingTold ==
    ASSUME HistoryInv, NEW c \in HistoryClients \ doubtful, UNCHANGED <<toTell, queue, connectionRow>>,
           watching'[c] = "open" <=> watching[c] = "open",
           stage' = "completing" /\ watching'[c] = "open" => c \in leaving',
           stage' \in {"gone", "down"} => watching'[c] # "open"
    PROVE  KnownViewer(c)'
  <1>1. LastWord(c, toTell, queue, connectionRow[c], watching[c] = "open")
    BY DEF HistoryInv, KnownViewer
  <1>2. (watching'[c] = "open") = (watching[c] = "open")
    OBVIOUS
  <1>3. LastWord(c, toTell, queue, connectionRow[c], watching'[c] = "open")
    BY <1>1, <1>2
  <1>. QED  BY <1>3 DEF KnownViewer

\* A viewer's record is left to tell when none waits.
LEMMA NewWord ==
    ASSUME NEW c, NEW T \in SUBSET HistoryRecord, NEW q, NEW row, NEW r, NEW w,
           r.client = c, \A s \in T : s.client # c, r.row = "open" <=> w
    PROVE  LastWord(c, T \cup {r}, q, row, w)
  <1>. QED  BY DEF LastWord

\* A record that is about somebody else.
LEMMA OthersWord ==
    ASSUME NEW c, NEW T \in SUBSET HistoryRecord, NEW q, NEW row, NEW R, \A r \in R : r.client # c, NEW w,
           LastWord(c, T, q, row, w)
    PROVE  LastWord(c, T \cup R, q, row, w) /\ LastWord(c, T \ R, q, row, w)
  <1>. QED  BY DEF LastWord

LEMMA RegisterKeepsKnown ==
    ASSUME HistoryInv, NEW d \in HistoryClients, RegisterViewer(d)
    PROVE  HistoryInv'
  <1>1. PICK r : r = Connection(d, "open", "viewer")  OBVIOUS
  <1>2. r \in HistoryRecord /\ r.client = d /\ r.row = "open" /\ r.what = "connection"
    BY <1>1 DEF Connection, HistoryRecord
  <1>3. toTell' = toTell \cup {r} /\ watching' = [watching EXCEPT ![d] = "open"]
        /\ UNCHANGED <<stage, queue, sessionRow, connectionRow, leaving>>
    BY <1>1 DEF RegisterViewer
  <1>4. HistoryTypeOK'
    BY <1>2, <1>3 DEF HistoryInv, HistoryTypeOK
  <1>5. EndToldLate'
    BY <1>2, <1>3 DEF HistoryInv, EndToldLate
  <1>6. ASSUME NEW c \in HistoryClients, c \notin doubtful'
        PROVE  KnownViewer(c)'
    <2>0. c \notin doubtful  BY <1>6 DEF RegisterViewer
    <2>1. LastWord(c, toTell, queue, connectionRow[c], watching[c] = "open")
          /\ toTell \in SUBSET HistoryRecord /\ watching \in [HistoryClients -> {"absent", "open", "ended", "terminated"}]
      BY <2>0 DEF HistoryInv, KnownViewer, HistoryTypeOK
    <2>2. CASE c = d
      <3>1. \A s \in toTell : s.client # d  BY <1>6, <2>2 DEF RegisterViewer, Pending
      <3>2. stage \notin {"completing", "gone", "down"}  BY <1>6, <2>2 DEF RegisterViewer
      <3>3. watching'[c] = "open"  BY <1>3, <2>1, <2>2
      <3>4. LastWord(c, toTell \cup {r}, queue, connectionRow[c], watching'[c] = "open")
        BY <1>2, <2>1, <2>2, <3>1, <3>3, NewWord
      <3>. QED  BY <1>3, <3>2, <3>4 DEF KnownViewer
    <2>3. CASE c # d
      <3>1. LastWord(c, toTell \cup {r}, queue, connectionRow[c], watching[c] = "open")
        <4>1. \A s \in {r} : s.client # c  BY <1>2, <2>3
        <4>. QED  BY <2>1, <4>1, OthersWord
      <3>2. watching'[c] = watching[c]  BY <1>3, <2>1, <2>3
      <3>. QED  BY <1>3, <2>0, <3>1, <3>2 DEF HistoryInv, KnownViewer
    <2>. QED  BY <2>2, <2>3
  <1>. QED  BY <1>4, <1>5, <1>6 DEF HistoryInv

\* CloseViewer, and CompleteViewer for one that still watches.
LEMMA EndingKeeps ==
    ASSUME HistoryInv, NEW d \in HistoryClients, NEW state \in {"ended", "terminated"},
           NEW by \in {"viewer", "run"}, End(d, state, by),
           UNCHANGED <<stage, queue, sessionRow, connectionRow>>,
           leaving' = leaving \/ leaving' = leaving \ {d}
    PROVE  HistoryInv'
  <1>1. PICK r : r = Connection(d, "ended", by)  OBVIOUS
  <1>2. r \in HistoryRecord /\ r.client = d /\ r.row = "ended" /\ r.what = "connection"
    BY <1>1 DEF Connection, HistoryRecord
  <1>3. toTell' = toTell \cup {r} /\ watching' = [watching EXCEPT ![d] = state]
    BY <1>1 DEF End
  <1>4. HistoryTypeOK'
    BY <1>2, <1>3 DEF HistoryInv, HistoryTypeOK
  <1>5. EndToldLate'
    BY <1>2, <1>3 DEF HistoryInv, EndToldLate
  <1>6. ASSUME NEW c \in HistoryClients, c \notin doubtful'
        PROVE  KnownViewer(c)'
    <2>0. c \notin doubtful  BY <1>6 DEF End
    <2>1. LastWord(c, toTell, queue, connectionRow[c], watching[c] = "open")
          /\ toTell \in SUBSET HistoryRecord /\ watching \in [HistoryClients -> {"absent", "open", "ended", "terminated"}]
      BY <2>0 DEF HistoryInv, KnownViewer, HistoryTypeOK
    <2>2. CASE c = d
      <3>1. \A s \in toTell : s.client # d  BY <1>6, <2>2 DEF End, Pending
      <3>3. watching'[c] # "open"  BY <1>3, <2>1, <2>2
      <3>4. LastWord(c, toTell \cup {r}, queue, connectionRow[c], watching'[c] = "open")
        BY <1>2, <2>1, <2>2, <3>1, <3>3, NewWord
      <3>. QED  BY <1>3, <3>3, <3>4 DEF KnownViewer
    <2>3. CASE c # d
      <3>1. LastWord(c, toTell \cup {r}, queue, connectionRow[c], watching[c] = "open")
        <4>1. \A s \in {r} : s.client # c  BY <1>2, <2>3
        <4>. QED  BY <2>1, <4>1, OthersWord
      <3>2. watching'[c] = watching[c]  BY <1>3, <2>1, <2>3
      <3>. QED  BY <1>3, <2>0, <2>3, <3>1, <3>2 DEF HistoryInv, KnownViewer
    <2>. QED  BY <2>2, <2>3
  <1>. QED  BY <1>4, <1>5, <1>6 DEF HistoryInv

\* requestStop ends every viewer that watches at once.
LEMMA StopKeeps ==
    ASSUME HistoryInv, StopSession
    PROVE  HistoryInv'
  <1>1. PICK open : open = {c \in HistoryClients : watching[c] = "open"}  OBVIOUS
  <1>2. PICK R : R = {Connection(c, "ended", "stop") : c \in open}  OBVIOUS
  <1>3. /\ watching' = [c \in HistoryClients |-> IF c \in open THEN "ended" ELSE watching[c]]
        /\ toTell' = toTell \cup R /\ doubtful' = doubtful \cup {c \in open : Pending(c)}
        /\ stage' = (IF stage = "live" THEN "ended" ELSE stage) /\ stage \notin {"gone", "down"}
        /\ UNCHANGED <<queue, sessionRow, connectionRow, leaving>>
    BY <1>1, <1>2 DEF StopSession
  <1>4. \A r \in R : r \in HistoryRecord /\ r.row = "ended" /\ r.what = "connection" /\ r.client \in open
    BY <1>1, <1>2 DEF Connection, HistoryRecord
  <1>5. \A c \in open : Connection(c, "ended", "stop") \in R /\ \A r \in R : r.client = c => r = Connection(c, "ended", "stop")
    BY <1>2 DEF Connection
  <1>6. HistoryTypeOK'
    <2>1. toTell' \subseteq HistoryRecord  BY <1>3, <1>4 DEF HistoryInv, HistoryTypeOK
    <2>2. watching' \in [HistoryClients -> {"absent", "open", "ended", "terminated"}]
      BY <1>3 DEF HistoryInv, HistoryTypeOK
    <2>. QED  BY <1>3, <2>1, <2>2 DEF HistoryInv, HistoryTypeOK, Stages
  <1>7. EndToldLate'
    <2>1. \A r \in R : r.what # "session"  BY <1>4
    <2>. QED  BY <1>3, <2>1 DEF HistoryInv, EndToldLate
  <1>8. ASSUME NEW c \in HistoryClients, c \notin doubtful'
        PROVE  KnownViewer(c)'
    <2>0. c \notin doubtful  BY <1>3, <1>8
    <2>1. LastWord(c, toTell, queue, connectionRow[c], watching[c] = "open") /\ toTell \in SUBSET HistoryRecord
      BY <2>0 DEF HistoryInv, KnownViewer, HistoryTypeOK
    <2>2. watching'[c] # "open"  BY <1>1, <1>3
    <2>3. CASE c \in open
      <3>1. PICK r : r = Connection(c, "ended", "stop")  OBVIOUS
      <3>2. r \in R /\ r.client = c /\ r.row = "ended"  BY <1>5, <2>3, <3>1 DEF Connection
      <3>3. \A s \in toTell : s.client # c  BY <1>3, <1>8, <2>3 DEF Pending
      <3>4. LastWord(c, toTell \cup {r}, queue, connectionRow[c], watching'[c] = "open")
        BY <2>1, <2>2, <3>2, <3>3, NewWord
      <3>5. \A s \in R \ {r} : s.client # c  BY <1>5, <2>3, <3>1
      <3>6. toTell \cup {r} \in SUBSET HistoryRecord  BY <1>4, <2>1, <3>2
      <3>7. LastWord(c, (toTell \cup {r}) \cup (R \ {r}), queue, connectionRow[c], watching'[c] = "open")
        BY <3>4, <3>5, <3>6, OthersWord
      <3>8. (toTell \cup {r}) \cup (R \ {r}) = toTell \cup R  BY <3>2
      <3>. QED  BY <1>3, <2>2, <3>7, <3>8 DEF KnownViewer
    <2>4. CASE c \notin open
      <3>1. \A s \in R : s.client # c  BY <1>4, <2>4
      <3>2. LastWord(c, toTell \cup R, queue, connectionRow[c], watching[c] = "open")
        BY <2>1, <3>1, OthersWord
      <3>3. watching'[c] = watching[c]  BY <1>3, <2>4
      <3>. QED  BY <1>3, <2>2, <3>2, <3>3 DEF KnownViewer
    <2>. QED  BY <2>3, <2>4
  <1>. QED  BY <1>6, <1>7, <1>8 DEF HistoryInv

\* A record enters the queue.
LEMMA AppendedWord ==
    ASSUME NEW c, NEW T \in SUBSET HistoryRecord, NEW q \in Seq(HistoryRecord), NEW row, NEW w,
           NEW r \in HistoryRecord, r \in T \/ r.client # c,
           LastWord(c, T, q, row, w)
    PROVE  LastWord(c, T \ {r}, Append(q, r), row, w)
  <1>1. CASE r.client = c
    <2>1. (r.row = "open" <=> w) /\ \A s \in T \ {r} : s.client # c  BY <1>1 DEF LastWord
    <2>2. LastSays(Append(q, r), c, w) /\ ~Silent(Append(q, r), c)  BY <1>1, <2>1, SaidByAppend
    <2>. QED  BY <2>1, <2>2 DEF LastWord
  <1>2. CASE r.client # c
    <2>1. (\A s \in T \ {r} : s.client # c) => \A s \in T : s.client # c  BY <1>2
    <2>2. LastSays(q, c, w) => LastSays(Append(q, r), c, w)  BY <1>2, SaidByAppend
    <2>3. Silent(Append(q, r), c) => Silent(q, c)  BY <1>2, SaidByAppend
    <2>. QED  BY <2>1, <2>2, <2>3 DEF LastWord
  <1>. QED  BY <1>1, <1>2

LEMMA TellKeeps ==
    ASSUME HistoryInv, NEW r \in toTell, Tell(r)
    PROVE  HistoryInv'
  <1>1. /\ r \in HistoryRecord /\ toTell \in SUBSET HistoryRecord /\ queue \in Seq(HistoryRecord)
        /\ HistoryTypeOK /\ EndToldLate
    BY DEF HistoryInv, HistoryTypeOK
  <1>2. toTell' = toTell \ {r} /\ UNCHANGED <<stage, watching, sessionRow, connectionRow, leaving>>
    BY DEF Tell
  <1>3. \/ queue' = Append(queue, r) /\ doubtful' = doubtful
        \/ queue' = queue /\ doubtful' = doubtful \cup {r.client}
    BY DEF Tell
  <1>4. queue' \in Seq(HistoryRecord)  BY <1>1, <1>3, QueueAppend
  <1>5. HistoryTypeOK'  BY <1>1, <1>2, <1>4 DEF HistoryTypeOK
  <1>6. EndToldLate'
    <2>1. CASE queue' = queue  BY <1>1, <1>2, <2>1 DEF EndToldLate
    <2>2. CASE queue' = Append(queue, r)
      <3>1. PICK n \in Nat, p \in Seq(HistoryRecord) : n = Len(queue) /\ p = Append(queue, r)  BY <1>1, QueueAppend
      <3>2. Len(p) = n + 1 /\ (\A i \in 1..n : p[i] = queue[i]) /\ p[n + 1] = r  BY <1>1, <3>1, QueueAppend
      <3>3. \A i \in 1..n + 1 : i \in 1..n \/ i = n + 1  BY <3>1
      <3>4. CASE stage \in {"gone", "down"}  BY <1>2, <3>4 DEF EndToldLate
      <3>5. CASE stage \notin {"gone", "down"}
        <4>1. \A i \in 1..n + 1 : p[i].what = "session" => p[i].row = "open"
          BY <1>1, <3>1, <3>2, <3>3, <3>5 DEF EndToldLate
        <4>2. p = queue' /\ Len(queue') = n + 1  BY <2>2, <3>1, <3>2
        <4>. QED  BY <1>1, <1>2, <3>5, <4>1, <4>2 DEF EndToldLate
      <3>. QED  BY <3>4, <3>5
    <2>. QED  BY <1>3, <2>1, <2>2
  <1>7. ASSUME NEW c \in HistoryClients, c \notin doubtful'
        PROVE  KnownViewer(c)'
    <2>0. c \notin doubtful  BY <1>3, <1>7
    <2>1. LastWord(c, toTell, queue, connectionRow[c], watching[c] = "open")
      BY <2>0 DEF HistoryInv, KnownViewer
    <2>2. LastWord(c, toTell', queue', connectionRow[c], watching[c] = "open")
      <3>1. CASE queue' = Append(queue, r)
        BY <1>1, <1>2, <2>1, <3>1, AppendedWord
      <3>2. CASE queue' = queue /\ doubtful' = doubtful \cup {r.client}
        <4>1. \A s \in {r} : s.client # c  BY <1>7, <3>2
        <4>. QED  BY <1>1, <1>2, <2>1, <3>2, <4>1, OthersWord
      <3>. QED  BY <1>3, <3>1, <3>2
    <2>. QED  BY <1>2, <2>0, <2>2 DEF HistoryInv, KnownViewer
  <1>. QED  BY <1>5, <1>6, <1>7 DEF HistoryInv

LEMMA TellEventKeeps ==
    ASSUME HistoryInv, TellEvent
    PROVE  HistoryInv'
  <1>1. PICK r : r = [what |-> "event", client |-> "none", row |-> "none", by |-> "viewer"]  OBVIOUS
  <1>2. r \in HistoryRecord /\ r.what = "event" /\ r.client = "none"  BY <1>1 DEF HistoryRecord
  <1>3. queue' = Append(queue, r) /\ UNCHANGED <<stage, watching, toTell, sessionRow, connectionRow, leaving, doubtful>>
    BY <1>1 DEF TellEvent
  <1>4. toTell \in SUBSET HistoryRecord /\ queue \in Seq(HistoryRecord) /\ HistoryTypeOK /\ EndToldLate
    BY DEF HistoryInv, HistoryTypeOK
  <1>5. HistoryTypeOK'
    <2>1. queue' \in Seq(HistoryRecord)  BY <1>2, <1>3, <1>4, QueueAppend
    <2>. QED  BY <1>3, <1>4, <2>1 DEF HistoryTypeOK
  <1>6. EndToldLate'
    <2>1. PICK n \in Nat, p \in Seq(HistoryRecord) : n = Len(queue) /\ p = Append(queue, r)  BY <1>2, <1>4, QueueAppend
    <2>2. Len(p) = n + 1 /\ (\A i \in 1..n : p[i] = queue[i]) /\ p[n + 1] = r  BY <1>2, <1>4, <2>1, QueueAppend
    <2>3. \A i \in 1..n + 1 : i \in 1..n \/ i = n + 1  BY <2>1
    <2>4. CASE stage \in {"gone", "down"}  BY <1>3, <2>4 DEF EndToldLate
    <2>5. CASE stage \notin {"gone", "down"}
      <3>1. \A i \in 1..n + 1 : p[i].what = "session" => p[i].row = "open"
        BY <1>2, <1>4, <2>1, <2>2, <2>3, <2>5 DEF EndToldLate
      <3>2. p = queue' /\ Len(queue') = n + 1  BY <1>3, <2>1, <2>2
      <3>. QED  BY <1>3, <1>4, <2>5, <3>1, <3>2 DEF EndToldLate
    <2>. QED  BY <2>4, <2>5
  <1>7. ASSUME NEW c \in HistoryClients, c \notin doubtful'
        PROVE  KnownViewer(c)'
    <2>0. c \notin doubtful  BY <1>3, <1>7
    <2>1. LastWord(c, toTell, queue, connectionRow[c], watching[c] = "open")
      BY <2>0 DEF HistoryInv, KnownViewer
    <2>2. r.client # c  BY <1>2, HistoryAssumption
    <2>3. LastWord(c, toTell \ {r}, Append(queue, r), connectionRow[c], watching[c] = "open")
      BY <1>2, <1>4, <2>1, <2>2, AppendedWord
    <2>4. toTell \ {r} = toTell \/ r \in toTell  OBVIOUS
    <2>5. LastWord(c, toTell, Append(queue, r), connectionRow[c], watching[c] = "open")
      BY <2>1, <2>2, <2>3 DEF LastWord
    <2>. QED  BY <1>3, <2>0, <2>5 DEF HistoryInv, KnownViewer
  <1>. QED  BY <1>5, <1>6, <1>7 DEF HistoryInv


\* A record leaves the queue and is written, or lost.
LEMMA TakenFromQueue ==
    ASSUME HistoryInv, queue # <<>>
    PROVE  /\ Tail(queue) \in Seq(HistoryRecord) /\ Head(queue) \in HistoryRecord
           /\ \/ stage \in {"gone", "down"}
              \/ /\ Head(queue).what = "session" => Head(queue).row = "open"
                 /\ \A i \in 1..Len(Tail(queue)) : Tail(queue)[i].what = "session" => Tail(queue)[i].row = "open"
  <1>1. queue \in Seq(HistoryRecord) /\ EndToldLate  BY DEF HistoryInv, HistoryTypeOK
  <1>2. PICK n \in Nat, p \in Seq(HistoryRecord) : n + 1 = Len(queue) /\ p = Tail(queue)
    <2>1. Tail(queue) \in Seq(HistoryRecord) /\ Len(queue) - 1 \in Nat /\ (Len(queue) - 1) + 1 = Len(queue)
      BY <1>1, QueueTail
    <2>. QED  BY <2>1
  <1>3. /\ p \in Seq(HistoryRecord) /\ Len(p) = n /\ (\A i \in 1..n : p[i] = queue[i + 1])
        /\ Head(queue) = queue[1] /\ Head(queue) \in HistoryRecord
    BY <1>1, <1>2, QueueTail
  <1>4. ASSUME stage \notin {"gone", "down"}
        PROVE  /\ queue[1].what = "session" => queue[1].row = "open"
               /\ \A i \in 1..n : p[i].what = "session" => p[i].row = "open"
    <2>1. \A i \in 1..n + 1 : queue[i].what = "session" => queue[i].row = "open"  BY <1>1, <1>2, <1>4 DEF EndToldLate
    <2>2. 1 \in 1..n + 1 /\ \A i \in 1..n : i + 1 \in 1..n + 1  OBVIOUS
    <2>. QED  BY <1>3, <2>1, <2>2
  <1>. QED  BY <1>2, <1>3, <1>4

LEMMA WriteKeeps ==
    ASSUME HistoryInv, WriteRecord
    PROVE  HistoryInv'
  <1>1. PICK r : r = Head(queue)  OBVIOUS
  <1>2. PICK kept \in BOOLEAN : kept <=> (r.what = "connection" => sessionRow # "none")  OBVIOUS
  <1>3. /\ queue # <<>> /\ queue' = Tail(queue)
        /\ sessionRow' = (IF r.what = "session" THEN r.row ELSE sessionRow)
        /\ connectionRow' = (IF r.what = "connection" /\ kept THEN [connectionRow EXCEPT ![r.client] = r.row] ELSE connectionRow)
        /\ doubtful' = (IF kept THEN doubtful ELSE doubtful \cup {r.client})
        /\ UNCHANGED <<stage, watching, toTell, leaving>>
    BY <1>1, <1>2 DEF WriteRecord
  <1>4. /\ HistoryTypeOK /\ EndToldLate /\ queue \in Seq(HistoryRecord) /\ r \in HistoryRecord
        /\ Tail(queue) \in Seq(HistoryRecord)
    BY <1>1, <1>3, TakenFromQueue DEF HistoryInv, HistoryTypeOK
  <1>5. HistoryTypeOK'
    <2>1. sessionRow' \in {"none", "open", "ended"}  BY <1>3, <1>4, RecordFields DEF HistoryTypeOK
    <2>2. connectionRow' \in [HistoryClients -> {"none", "open", "ended"}]
      BY <1>3, <1>4, RecordFields DEF HistoryTypeOK
    <2>. QED  BY <1>3, <1>4, <2>1, <2>2 DEF HistoryTypeOK
  <1>6. EndToldLate'
    <2>1. CASE stage \in {"gone", "down"}  BY <1>3, <2>1 DEF EndToldLate
    <2>2. CASE stage \notin {"gone", "down"}
      <3>1. r.what = "session" => r.row = "open"  BY <1>1, <1>3, <2>2, TakenFromQueue
      <3>2. \A i \in 1..Len(Tail(queue)) : Tail(queue)[i].what = "session" => Tail(queue)[i].row = "open"
        BY <1>3, <2>2, TakenFromQueue
      <3>3. sessionRow' # "ended"  BY <1>3, <1>4, <2>2, <3>1 DEF EndToldLate
      <3>. QED  BY <1>3, <1>4, <2>2, <3>2, <3>3 DEF EndToldLate
    <2>. QED  BY <2>1, <2>2
  <1>7. ASSUME NEW c \in HistoryClients, c \notin doubtful'
        PROVE  KnownViewer(c)'
    <2>0. c \notin doubtful /\ (r.client = c => kept)  BY <1>3, <1>7
    <2>1. PICK w \in BOOLEAN : w <=> watching[c] = "open"  OBVIOUS
    <2>2. w = (watching[c] = "open")  BY <2>1
    <2>3. LastWord(c, toTell, queue, connectionRow[c], w)
      <3>1. LastWord(c, toTell, queue, connectionRow[c], watching[c] = "open")  BY <2>0 DEF HistoryInv, KnownViewer
      <3>. QED  BY <2>2, <3>1
    <2>4. r.client = c => r.what = "connection" /\ kept  BY <1>4, <2>0, RecordFields
    <2>5. connectionRow'[c] = IF r.client = c THEN r.row ELSE connectionRow[c]
      <3>1. connectionRow \in [HistoryClients -> {"none", "open", "ended"}]  BY <1>4 DEF HistoryTypeOK
      <3>. QED  BY <1>3, <2>4, <3>1
    <2>6. LastWord(c, toTell, Tail(queue), connectionRow'[c], w)
      <3>1. LastSays(queue, c, w) => LastSays(Tail(queue), c, w)  BY <1>3, <1>4, SaidByTail
      <3>2. Silent(Tail(queue), c) /\ r.client # c => Silent(queue, c)  BY <1>1, <1>3, <1>4, SaidByTail
      <3>3. Silent(Tail(queue), c) /\ r.client = c /\ LastSays(queue, c, w) => (r.row = "open" <=> w)
        BY <1>1, <1>3, <1>4, SaidByTail
      <3>. QED  BY <2>3, <2>5, <3>1, <3>2, <3>3 DEF LastWord
    <2>7. LastWord(c, toTell', queue', connectionRow'[c], watching'[c] = "open")
      BY <1>3, <2>2, <2>6
    <2>. QED  BY <1>3, <2>0, <2>7 DEF HistoryInv, KnownViewer
  <1>. QED  BY <1>5, <1>6, <1>7 DEF HistoryInv

LEMMA LosingKeeps ==
    ASSUME HistoryInv, WriteIsLost
    PROVE  HistoryInv'
  <1>1. PICK r : r = Head(queue)  OBVIOUS
  <1>2. /\ queue # <<>> /\ queue' = Tail(queue) /\ doubtful' = doubtful \cup {r.client}
        /\ UNCHANGED <<stage, watching, toTell, sessionRow, connectionRow, leaving>>
    BY <1>1 DEF WriteIsLost
  <1>3. /\ HistoryTypeOK /\ EndToldLate /\ queue \in Seq(HistoryRecord) /\ r \in HistoryRecord
        /\ Tail(queue) \in Seq(HistoryRecord)
    BY <1>1, <1>2, TakenFromQueue DEF HistoryInv, HistoryTypeOK
  <1>4. HistoryTypeOK'  BY <1>2, <1>3 DEF HistoryTypeOK
  <1>5. EndToldLate'
    <2>1. CASE stage \in {"gone", "down"}  BY <1>2, <2>1 DEF EndToldLate
    <2>2. CASE stage \notin {"gone", "down"}
      <3>1. \A i \in 1..Len(Tail(queue)) : Tail(queue)[i].what = "session" => Tail(queue)[i].row = "open"
        BY <1>2, <2>2, TakenFromQueue
      <3>. QED  BY <1>2, <1>3, <2>2, <3>1 DEF EndToldLate
    <2>. QED  BY <2>1, <2>2
  <1>6. ASSUME NEW c \in HistoryClients, c \notin doubtful'
        PROVE  KnownViewer(c)'
    <2>0. c \notin doubtful /\ r.client # c  BY <1>2, <1>6
    <2>1. PICK w \in BOOLEAN : w <=> watching[c] = "open"  OBVIOUS
    <2>2. w = (watching[c] = "open")  BY <2>1
    <2>3. LastWord(c, toTell, queue, connectionRow[c], w)
      <3>1. LastWord(c, toTell, queue, connectionRow[c], watching[c] = "open")  BY <2>0 DEF HistoryInv, KnownViewer
      <3>. QED  BY <2>2, <3>1
    <2>4. LastWord(c, toTell, Tail(queue), connectionRow[c], w)
      <3>1. LastSays(queue, c, w) => LastSays(Tail(queue), c, w)  BY <1>2, <1>3, SaidByTail
      <3>2. Silent(Tail(queue), c) => Silent(queue, c)  BY <1>1, <1>2, <1>3, <2>0, SaidByTail
      <3>. QED  BY <2>3, <3>1, <3>2 DEF LastWord
    <2>5. LastWord(c, toTell', queue', connectionRow'[c], watching'[c] = "open")
      BY <1>2, <2>2, <2>4
    <2>. QED  BY <1>2, <2>0, <2>5 DEF HistoryInv, KnownViewer
  <1>. QED  BY <1>4, <1>5, <1>6 DEF HistoryInv

\* Retention takes the row of a session that has ended: nobody known watches.
LEMMA PruningKeeps ==
    ASSUME HistoryInv, PruneHistory
    PROVE  HistoryInv'
  <1>1. /\ sessionRow = "ended" /\ sessionRow' = "none" /\ connectionRow' = [c \in HistoryClients |-> "none"]
        /\ UNCHANGED <<stage, watching, toTell, queue, leaving, doubtful>>
    BY DEF PruneHistory
  <1>2. HistoryTypeOK /\ EndToldLate /\ stage \in {"gone", "down"}  BY <1>1 DEF HistoryInv, EndToldLate
  <1>3. HistoryTypeOK' /\ EndToldLate'  BY <1>1, <1>2 DEF HistoryTypeOK, EndToldLate
  <1>4. ASSUME NEW c \in HistoryClients, c \notin doubtful'
        PROVE  KnownViewer(c)'
    <2>0. KnownViewer(c)  BY <1>1, <1>4 DEF HistoryInv
    <2>1. watching[c] # "open" /\ LastWord(c, toTell, queue, connectionRow[c], watching[c] = "open")
      BY <1>2, <2>0 DEF KnownViewer
    <2>2. connectionRow'[c] = "none"  BY <1>1
    <2>3. LastWord(c, toTell, queue, "none", watching[c] = "open")  BY <2>1 DEF LastWord
    <2>4. LastWord(c, toTell', queue', connectionRow'[c], watching'[c] = "open")
      BY <1>1, <2>2, <2>3
    <2>. QED  BY <1>1, <2>0, <2>4 DEF KnownViewer
  <1>. QED  BY <1>3, <1>4 DEF HistoryInv

LEMMA StoppingKeeps ==
    ASSUME HistoryInv, ProcessStops
    PROVE  HistoryInv'
  <1>1. /\ stage' = "down" /\ queue' = <<>> /\ toTell' = {}
        /\ watching' = [c \in HistoryClients |-> "absent"]
        /\ doubtful' = doubtful \cup {c \in HistoryClients : watching[c] = "open" \/ Pending(c) \/ Told(c)}
        /\ UNCHANGED <<sessionRow, connectionRow>>
    BY DEF ProcessStops
  <1>2. HistoryTypeOK /\ queue \in Seq(HistoryRecord)  BY DEF HistoryInv, HistoryTypeOK
  <1>3. HistoryTypeOK' /\ EndToldLate'  BY <1>1, <1>2 DEF HistoryTypeOK, EndToldLate, Stages
  <1>4. ASSUME NEW c \in HistoryClients, c \notin doubtful'
        PROVE  KnownViewer(c)'
    <2>0. c \notin doubtful /\ watching[c] # "open" /\ ~Pending(c) /\ ~Told(c)  BY <1>1, <1>4
    <2>1. LastWord(c, toTell, queue, connectionRow[c], watching[c] = "open")
      BY <2>0 DEF HistoryInv, KnownViewer
    <2>2. Silent(queue, c)
      <3>. SUFFICES ASSUME NEW i \in 1..Len(queue), queue[i].client = c PROVE FALSE
        BY DEF Silent
      <3>1. queue[i] \in HistoryRecord /\ i \in DOMAIN queue  BY <1>2, ElementOfSeq
      <3>2. queue[i].what = "connection"  BY <3>1, RecordFields
      <3>. QED  BY <2>0, <3>1, <3>2 DEF Told
    <2>3. connectionRow[c] # "open"  BY <2>0, <2>1, <2>2 DEF LastWord, Pending
    <2>4. PICK e : e = <<>> /\ Len(e) = 0 /\ e = queue'  BY <1>1
    <2>5. LastWord(c, {}, e, connectionRow[c], FALSE)  BY <2>3, <2>4 DEF LastWord, LastSays
    <2>6. watching'[c] = "absent"  BY <1>1
    <2>7. LastWord(c, toTell', queue', connectionRow'[c], watching'[c] = "open")
      <3>1. (watching'[c] = "open") = FALSE  BY <2>6
      <3>. QED  BY <1>1, <2>4, <2>5, <3>1
    <2>. QED  BY <1>1, <2>6, <2>7 DEF KnownViewer
  <1>. QED  BY <1>3, <1>4 DEF HistoryInv

LEMMA CompletedKeeps ==
    ASSUME HistoryInv, CompleteSession
    PROVE  HistoryInv'
  <1>1. PICK r : r = SessionRecord("ended")  OBVIOUS
  <1>2. r \in HistoryRecord /\ r.client = "none"  BY <1>1 DEF SessionRecord, HistoryRecord
  <1>3. /\ stage = "completing" /\ leaving = {} /\ toTell' = toTell \cup {r} /\ stage' = "gone"
        /\ UNCHANGED <<watching, queue, sessionRow, connectionRow, leaving, doubtful>>
    BY <1>1 DEF CompleteSession
  <1>4. HistoryTypeOK' /\ EndToldLate'
    BY <1>2, <1>3 DEF HistoryInv, HistoryTypeOK, EndToldLate, Stages
  <1>5. ASSUME NEW c \in HistoryClients, c \notin doubtful'
        PROVE  KnownViewer(c)'
    <2>0. KnownViewer(c) /\ toTell \in SUBSET HistoryRecord  BY <1>3, <1>5 DEF HistoryInv, HistoryTypeOK
    <2>1. watching[c] # "open" /\ LastWord(c, toTell, queue, connectionRow[c], watching[c] = "open")
      BY <1>3, <2>0 DEF KnownViewer
    <2>2. \A s \in {r} : s.client # c  BY <1>2, HistoryAssumption
    <2>3. LastWord(c, toTell \cup {r}, queue, connectionRow[c], watching[c] = "open")
      BY <2>0, <2>1, <2>2, OthersWord
    <2>. QED  BY <1>3, <2>1, <2>3 DEF KnownViewer
  <1>. QED  BY <1>4, <1>5 DEF HistoryInv

LEMMA HistoryInitInv == HistoryInit => HistoryInv
  <1>. SUFFICES ASSUME HistoryInit PROVE HistoryInv
    OBVIOUS
  <1>1. PICK r : r = SessionRecord("open")  OBVIOUS
  <1>2. r \in HistoryRecord /\ r.client = "none" /\ r.row = "open"  BY <1>1 DEF SessionRecord, HistoryRecord
  <1>3. PICK e \in Seq(HistoryRecord) : e = <<>> /\ Len(e) = 0 /\ queue = e
    <2>1. <<>> \in Seq(HistoryRecord) /\ Len(<<>>) = 0  BY EmptySeq
    <2>. QED  BY <2>1 DEF HistoryInit
  <1>4. toTell = {r} /\ stage = "starting" /\ sessionRow = "none"
        /\ watching = [c \in HistoryClients |-> "absent"] /\ connectionRow = [c \in HistoryClients |-> "none"]
    BY <1>1 DEF HistoryInit
  <1>5. HistoryTypeOK  BY <1>2, <1>3, <1>4 DEF HistoryTypeOK, Stages
  <1>6. EndToldLate  BY <1>2, <1>3, <1>4 DEF EndToldLate
  <1>7. ASSUME NEW c \in HistoryClients PROVE KnownViewer(c)
    <2>1. r.client # c  BY <1>2, HistoryAssumption
    <2>2. watching[c] = "absent" /\ connectionRow[c] = "none"  BY <1>4
    <2>3. LastWord(c, {r}, e, "none", FALSE)  BY <1>3, <2>1 DEF LastWord, LastSays
    <2>4. (watching[c] = "open") = FALSE  BY <2>2
    <2>5. LastWord(c, toTell, queue, connectionRow[c], watching[c] = "open")  BY <1>3, <1>4, <2>2, <2>3, <2>4
    <2>. QED  BY <2>2, <2>5 DEF KnownViewer
  <1>. QED  BY <1>5, <1>6, <1>7 DEF HistoryInv

\* Steps that tell nothing and write no row of a viewer.
LEMMA SilentStepKeeps ==
    ASSUME HistoryInv, UNCHANGED <<toTell, queue, connectionRow, doubtful>>,
           HistoryTypeOK', EndToldLate',
           \A c \in HistoryClients \ doubtful :
              /\ watching'[c] = "open" <=> watching[c] = "open"
              /\ stage' = "completing" /\ watching'[c] = "open" => c \in leaving'
              /\ stage' \in {"gone", "down"} => watching'[c] # "open"
    PROVE  HistoryInv'
  <1>1. \A c \in HistoryClients \ doubtful : KnownViewer(c)'  BY NothingTold
  <1>. QED  BY <1>1 DEF HistoryInv

LEMMA HistoryStepInv == HistoryInv /\ [HistoryNext]_historyVars => HistoryInv'
  <1>. SUFFICES ASSUME HistoryInv, [HistoryNext]_historyVars PROVE HistoryInv'
    OBVIOUS
  <1>0. HistoryTypeOK /\ EndToldLate /\ watching \in [HistoryClients -> {"absent", "open", "ended", "terminated"}]
    BY DEF HistoryInv, HistoryTypeOK
  <1>00. \A c \in HistoryClients \ doubtful :
            /\ stage = "completing" /\ watching[c] = "open" => c \in leaving
            /\ stage \in {"gone", "down"} => watching[c] # "open"
    BY DEF HistoryInv, KnownViewer
  <1>1. CASE TellSession
    <2>1. stage' \in {"ended", "live"} /\ UNCHANGED <<watching, toTell, queue, sessionRow, connectionRow, leaving, doubtful>>
          /\ stage = "starting"
      BY <1>1 DEF TellSession
    <2>2. HistoryTypeOK' /\ EndToldLate'  BY <1>0, <2>1 DEF HistoryTypeOK, EndToldLate, Stages
    <2>. QED  BY <2>1, <2>2, SilentStepKeeps
  <1>2. CASE FailSession
    <2>1. stage' = "ended" /\ UNCHANGED <<watching, toTell, queue, sessionRow, connectionRow, leaving, doubtful>>
          /\ stage = "live"
      BY <1>2 DEF FailSession
    <2>2. HistoryTypeOK' /\ EndToldLate'  BY <1>0, <2>1 DEF HistoryTypeOK, EndToldLate, Stages
    <2>. QED  BY <2>1, <2>2, SilentStepKeeps
  <1>3. CASE BeginCompletion
    <2>1. stage' = "completing" /\ UNCHANGED <<watching, toTell, queue, sessionRow, connectionRow, doubtful>>
          /\ stage = "ended" /\ leaving' = {c \in HistoryClients : watching[c] # "absent"}
      BY <1>3 DEF BeginCompletion
    <2>2. HistoryTypeOK' /\ EndToldLate'  BY <1>0, <2>1 DEF HistoryTypeOK, EndToldLate, Stages
    <2>3. \A c \in HistoryClients : watching'[c] = "open" => c \in leaving'  BY <2>1
    <2>. QED  BY <2>1, <2>2, <2>3, SilentStepKeeps
  <1>4. CASE ReconcileSession
    <2>1. stage = "down" /\ sessionRow' = "ended"
          /\ UNCHANGED <<stage, watching, toTell, queue, connectionRow, leaving, doubtful>>
      BY <1>4 DEF ReconcileSession
    <2>2. HistoryTypeOK' /\ EndToldLate'  BY <1>0, <2>1 DEF HistoryTypeOK, EndToldLate
    <2>. QED  BY <1>00, <2>1, <2>2, SilentStepKeeps
  <1>5. ASSUME NEW d \in HistoryClients, ForgetViewer(d) PROVE HistoryInv'
    <2>1. watching' = [watching EXCEPT ![d] = "absent"] /\ watching[d] # "open"
          /\ UNCHANGED <<stage, toTell, queue, sessionRow, connectionRow, leaving, doubtful>>
      BY <1>5 DEF ForgetViewer
    <2>2. HistoryTypeOK' /\ EndToldLate'  BY <1>0, <2>1 DEF HistoryTypeOK, EndToldLate
    <2>3. \A c \in HistoryClients : watching'[c] = "open" <=> watching[c] = "open"  BY <1>0, <2>1
    <2>. QED  BY <1>00, <2>1, <2>2, <2>3, SilentStepKeeps
  <1>6. ASSUME NEW d \in HistoryClients, CompleteViewer(d) PROVE HistoryInv'
    <2>1. UNCHANGED <<stage, queue, sessionRow, connectionRow>> /\ leaving' = leaving \ {d} /\ stage = "completing"
      BY <1>6 DEF CompleteViewer
    <2>2. CASE watching[d] = "open"
      <3>1. End(d, "ended", "run")  BY <1>6, <2>2 DEF CompleteViewer
      <3>. QED  BY <2>1, <3>1, EndingKeeps
    <2>3. CASE watching[d] # "open"
      <3>1. UNCHANGED <<watching, toTell, doubtful>>  BY <1>6, <2>3 DEF CompleteViewer
      <3>2. HistoryTypeOK' /\ EndToldLate'  BY <1>0, <2>1, <3>1 DEF HistoryTypeOK, EndToldLate
      <3>3. \A c \in HistoryClients \ doubtful : watching'[c] = "open" => c \in leaving'
        BY <1>00, <2>1, <2>3, <3>1
      <3>. QED  BY <2>1, <3>1, <3>2, <3>3, SilentStepKeeps
    <2>. QED  BY <2>2, <2>3
  <1>7. ASSUME NEW d \in HistoryClients, CloseViewer(d) PROVE HistoryInv'
    <2>1. PICK state \in {"ended", "terminated"} : End(d, state, "viewer")  BY <1>7 DEF CloseViewer
    <2>2. UNCHANGED <<stage, queue, sessionRow, connectionRow, leaving>>  BY <1>7 DEF CloseViewer
    <2>. QED  BY <2>1, <2>2, EndingKeeps
  <1>8. CASE UNCHANGED historyVars
    <2>1. UNCHANGED <<stage, watching, toTell, queue, sessionRow, connectionRow, leaving, doubtful>>
      BY <1>8 DEF historyVars
    <2>2. HistoryTypeOK' /\ EndToldLate'  BY <1>0, <2>1 DEF HistoryTypeOK, EndToldLate
    <2>. QED  BY <1>00, <2>1, <2>2, SilentStepKeeps
  <1>. QED  BY <1>1, <1>2, <1>3, <1>4, <1>5, <1>6, <1>7, <1>8, StopKeeps, CompletedKeeps, TellEventKeeps,
               WriteKeeps, LosingKeeps, PruningKeeps, StoppingKeeps, TellKeeps, RegisterKeepsKnown
            DEF HistoryNext

(* The last word on every viewer that is not doubtful, through the queue,   *)
(* the writer, retention and a restart (streamObserver, PruneRetentionData, *)
(* ReconcileStreamSessions).                                               *)
THEOREM HistorySafety == HistorySpec => []HistoryInv
  <1>. QED  BY HistoryInitInv, HistoryStepInv, PTL DEF HistorySpec

(* Once everything told is written, the history says who watches, for all   *)
(* viewers but those whose record was dropped, lost or out of order         *)
(* (observeCompleted, streamObserver.run).                                  *)
THEOREM HistoryStaysTrue == HistorySpec => []HistoryTellsWhoWatches
  <1>1. HistoryInv => HistoryTellsWhoWatches
    <2>. SUFFICES ASSUME HistoryInv, queue = <<>>, toTell = {}, NEW c \in HistoryClients \ doubtful
                  PROVE  (connectionRow[c] = "open") = (watching[c] = "open" /\ stage # "gone")
      BY DEF HistoryTellsWhoWatches
    <2>1. KnownViewer(c)  BY DEF HistoryInv
    <2>2. PICK e : e = <<>> /\ Len(e) = 0 /\ e = queue  OBVIOUS
    <2>3. LastWord(c, {}, e, connectionRow[c], watching[c] = "open")  BY <2>1, <2>2 DEF KnownViewer
    <2>4. connectionRow[c] = "open" <=> watching[c] = "open"  BY <2>2, <2>3 DEF LastWord, Silent
    <2>5. stage = "gone" => watching[c] # "open"  BY <2>1 DEF KnownViewer
    <2>. QED  BY <2>4, <2>5
  <1>. QED  BY <1>1, HistorySafety, PTL

=============================================================================
