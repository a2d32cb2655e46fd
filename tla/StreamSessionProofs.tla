-------------------------- MODULE StreamSessionProofs -------------------------
(***************************************************************************)
(* Safety of a shared stream (StreamSession) for every source list, every  *)
(* finite number of producers and of neighbours on the pool, every limit:  *)
(* what the supervisor, the start goroutines of the cold race, the cleanup *)
(* goroutines and the requests do to each other's producers.               *)
(*                                                                         *)
(* The inductive invariant SessionInv says who answers for each producer.  *)
(* It is the active one, or in the hands of exactly one goroutine, or its  *)
(* cleanup goroutine has it; only the active one feeds the hub, and only   *)
(* while the supervisor is in a control state where it is Live.  The rest  *)
(* places the supervisor's own start or stop (RunOK) and the race (RaceOK). *)
(* Then each action takes a producer from one of these to the next.        *)
(***************************************************************************)
EXTENDS StreamSession, FiniteSetTheorems, TLAPS

ThreadPcs == {"idle", "begin", "recheck", "leased", "waiting", "cleanup", "ok", "err",
              "stop", "stopped", "stuck"}
SupPcs == {"top", "cold", "race", "raceBoth", "retryWait", "failWait", "monitor", "decide",
           "replace", "replaceHls", "drop", "promoted", "break", "exit", "panic",
           "ending", "ended", "gone"}
Somebody == Producers \cup {NoProducer}
Reasons == {"none", "error", "next", "restart", "hedge"}

ProducerRows == [phase : {"free", "leased", "running", "stopping", "halted"}, idx : Nat,
                 reserve : {0, 1}, failed : BOOLEAN, bridged : BOOLEAN, hedged : BOOLEAN]
ThreadRows == [pc : ThreadPcs, idx : Nat, prod : Somebody, err : {"none", "other", "limit", "stuck"}]
SupRows == [pc : SupPcs, list : SourceLists, active : Somebody, next : Nat, attempt : Nat,
            target : Nat, reason : Reasons, stuck : BOOLEAN]

SessionTypeOK ==
    /\ sources \in SourceLists
    /\ everReady \in BOOLEAN
    /\ current \in Somebody
    /\ forceNext \in {"none", "next", "restart"}
    /\ producer \in [Producers -> ProducerRows]
    /\ others \subseteq OtherLeases
    /\ thr \in [Threads -> ThreadRows]
    /\ sup \in SupRows

(* The supervisor has a producer that feeds the hub.                       *)
Live ==
    \/ sup.pc \in {"monitor", "decide", "replace", "replaceHls", "drop", "promoted", "panic"}
    \/ sup.pc = "top" /\ Active # NoProducer

(* What a goroutine that starts or stops a producer has in hand.           *)
HandOK(t) ==
    /\ thr[t].pc = "leased" => thr[t].prod # NoProducer /\ producer[thr[t].prod].phase = "leased"
    /\ thr[t].pc \in {"waiting", "ok"} =>
         thr[t].prod # NoProducer /\ producer[thr[t].prod].phase = "running"
    /\ thr[t].pc \in {"cleanup", "stop"} =>
         thr[t].prod # NoProducer /\ producer[thr[t].prod].phase \in {"stopping", "halted"}
    /\ thr[t].pc \in {"idle", "begin", "recheck", "err", "stopped", "stuck"} =>
         thr[t].prod = NoProducer

HandsOK ==
    /\ \A t \in Threads : HandOK(t)
    /\ \A s, t \in Threads : s # t /\ thr[s].prod # NoProducer => thr[s].prod # thr[t].prod

(* The active producer runs, feeds the hub, and is in nobody else's hands. *)
ActiveOK ==
    /\ Live => /\ Active # NoProducer
               /\ producer[Active].phase = "running" /\ producer[Active].bridged
               /\ current = Active
               /\ \A t \in Threads : thr[t].prod # Active
    /\ sup.pc \in {"cold", "race", "raceBoth", "retryWait", "failWait"} => Active = NoProducer

(* Nobody else feeds the hub, and no other running one is current.         *)
FeedOK ==
    /\ \A p \in Producers : producer[p].bridged => Live /\ p = Active
    /\ current # NoProducer =>
         \/ Live /\ current = Active
         \/ producer[current].phase \in {"stopping", "halted"}

(* Every producer that runs is in somebody's hands.                        *)
Accounted ==
    \A p \in Producers : producer[p].phase \in {"leased", "running"} =>
        (Live /\ p = Active) \/ \E t \in Threads : thr[t].prod = p

(* Where the supervisor's own start or stop is.                            *)
RunOK ==
    /\ sup.pc \in {"top", "monitor", "decide", "retryWait", "failWait", "race", "raceBoth",
                   "panic", "ending", "ended", "gone"} => thr["run"].pc = "idle"
    /\ sup.pc = "replaceHls" => thr["run"].pc = "ok"
    /\ sup.pc \in {"drop", "break", "exit", "promoted"} =>
         thr["run"].pc \in {"stop", "stopped", "stuck"} /\ thr["run"].err # "limit"

(* There is a race only before the first success.                          *)
RaceOK ==
    /\ ~everReady /\ sup.pc \notin {"race", "raceBoth"} => \A t \in Racers : thr[t].pc = "idle"
    /\ sup.pc = "race" => thr["second"].pc = "idle"
    /\ sup.pc \in {"race", "raceBoth"} => ~everReady

SessionInv ==
    /\ SessionTypeOK
    /\ HandsOK
    /\ ActiveOK
    /\ FeedOK
    /\ Accounted
    /\ RunOK
    /\ RaceOK

-----------------------------------------------------------------------------
(* Rows of the goroutines and of the producers. *)

(* What a step of one goroutine does to the goroutines. *)
LEMMA ThreadMoves ==
    ASSUME SessionTypeOK, NEW t \in Threads, NEW r \in ThreadRows, ThreadStep(t, r)
    PROVE  /\ thr' \in [Threads -> ThreadRows]
           /\ thr'[t] = r
           /\ \A s \in Threads : s # t => thr'[s] = thr[s]
  BY DEF ThreadStep, SessionTypeOK

LEMMA ThreadRow ==
    ASSUME SessionTypeOK, NEW t \in Threads
    PROVE  /\ thr[t] \in ThreadRows /\ thr[t].pc \in ThreadPcs /\ thr[t].idx \in Nat
           /\ thr[t].prod \in Somebody /\ thr[t].err \in {"none", "other", "limit", "stuck"}
  BY DEF SessionTypeOK, ThreadRows

LEMMA ProducerRow ==
    ASSUME SessionTypeOK, NEW p \in Producers
    PROVE  /\ producer[p] \in ProducerRows
           /\ producer[p].phase \in {"free", "leased", "running", "stopping", "halted"}
           /\ producer[p].idx \in Nat /\ producer[p].reserve \in {0, 1}
           /\ producer[p].failed \in BOOLEAN /\ producer[p].bridged \in BOOLEAN
           /\ producer[p].hedged \in BOOLEAN
  BY DEF SessionTypeOK, ProducerRows

(* What quiescing a producer does to the producers. *)
LEMMA QuiesceMoves ==
    ASSUME SessionTypeOK, NEW p \in Producers
    PROVE  /\ Quiesce(p) \in [Producers -> ProducerRows]
           /\ Quiesce(p)[p].phase = "stopping" /\ Quiesce(p)[p].bridged = FALSE
           /\ \A q \in Producers : q # p => Quiesce(p)[q] = producer[q]
  <1>1. PICK x : x = [producer[p] EXCEPT !.bridged = FALSE]
    OBVIOUS
  <1>2. PICK y : y = [x EXCEPT !.phase = "stopping"]
    OBVIOUS
  <1>3. producer[p] \in ProducerRows
    BY ProducerRow
  <1>4. x \in ProducerRows /\ x.bridged = FALSE
    <2>1. PICK o \in BOOLEAN : o = FALSE
      OBVIOUS
    <2>2. x = [producer[p] EXCEPT !.bridged = o]
      BY <1>1, <2>1
    <2>. QED  BY <1>3, <2>1, <2>2 DEF ProducerRows
  <1>5. y \in ProducerRows /\ y.phase = "stopping" /\ y.bridged = FALSE
    BY <1>2, <1>4 DEF ProducerRows
  <1>6. Quiesce(p) = [producer EXCEPT ![p] = y]
    BY <1>1, <1>2 DEF Quiesce, SessionTypeOK
  <1>. QED  BY <1>5, <1>6 DEF SessionTypeOK

LEMMA FollowingIsNat ==
    ASSUME NEW list \in SourceLists, NEW i \in Nat
    PROVE  Following(list, i) \in Nat /\ Len(list) \in Nat \ {0}
  <1>1. list # <<>> /\ list \in Seq(UNION {{l[j] : j \in DOMAIN l} : l \in {list}})
    BY SourceAssumption
  <1>2. PICK n \in Nat : n = Len(list)
    BY <1>1
  <1>3. n # 0
    BY <1>1, <1>2
  <1>4. (i % n) + 1 \in Nat
    BY <1>3
  <1>. QED  BY <1>2, <1>3, <1>4 DEF Following

LEMMA SessionStarts == Init => SessionInv
  <1> SUFFICES ASSUME Init PROVE SessionInv
    OBVIOUS
  <1>1. SessionTypeOK
    <2>1. sources \in SourceLists
      BY IdentityAssumption DEF Init
    <2>2. Idle \in ThreadRows
      BY DEF Idle, ThreadRows, ThreadPcs, Somebody
    <2>3. Free \in ProducerRows
      BY DEF Free, ProducerRows
    <2>4. sup \in SupRows
      BY <2>1 DEF Init, SupRows, SupPcs, Somebody, Reasons
    <2>. QED  BY <2>1, <2>2, <2>3, <2>4 DEF Init, SessionTypeOK, Somebody
  <1>2. /\ \A t \in Threads : thr[t].pc = "idle" /\ thr[t].prod = NoProducer
        /\ \A p \in Producers : producer[p].phase = "free" /\ producer[p].bridged = FALSE
        /\ sup.pc = "top" /\ sup.active = NoProducer /\ current = NoProducer
    BY DEF Init, Idle, Free
  <1>3. ~Live
    BY <1>2 DEF Live, Active
  <1>4. HandsOK
    BY <1>2 DEF HandsOK, HandOK
  <1>5. ActiveOK /\ FeedOK /\ Accounted
    BY <1>2, <1>3 DEF ActiveOK, FeedOK, Accounted
  <1>6. RunOK /\ RaceOK
    BY <1>2 DEF RunOK, RaceOK, Threads, Racers
  <1>. QED  BY <1>1, <1>4, <1>5, <1>6 DEF SessionInv

-----------------------------------------------------------------------------
(* startManagedProducer until it has a lease. *)

(* Whatever a start attempt comes to, the supervisor waits where it was. *)
LEMMA AttemptUnseen ==
    ASSUME SessionInv, NEW t \in Threads, NEW r \in ThreadRows, ThreadStep(t, r),
           thr[t].pc \in {"begin", "recheck", "leased", "waiting", "cleanup"},
           UNCHANGED <<sup, everReady>>
    PROVE  RunOK' /\ RaceOK'
  <1>. /\ thr'[t] = r /\ \A s \in Threads : s # t => thr'[s] = thr[s]
    BY ThreadMoves DEF SessionInv
  <1>1. RunOK'
    BY DEF SessionInv, RunOK, Threads
  <1>2. RaceOK'
    BY DEF SessionInv, RaceOK, Threads, Racers
  <1>. QED  BY <1>1, <1>2

(* A goroutine that has no producer before and after changes nothing else. *)
LEMMA EmptyHanded ==
    ASSUME SessionInv, NEW t \in Threads, NEW r \in ThreadRows, ThreadStep(t, r),
           thr[t].prod = NoProducer, r.prod = NoProducer,
           r.pc \in {"idle", "begin", "recheck", "err", "stopped", "stuck"},
           UNCHANGED <<sources, everReady, current, forceNext, producer, others, sup>>
    PROVE  SessionTypeOK' /\ HandsOK' /\ ActiveOK' /\ FeedOK' /\ Accounted'
  <1>. /\ thr' \in [Threads -> ThreadRows]
       /\ thr'[t] = r /\ \A s \in Threads : s # t => thr'[s] = thr[s]
    BY ThreadMoves DEF SessionInv
  <1>1. SessionTypeOK'
    BY DEF SessionInv, SessionTypeOK
  <1>2. HandsOK'
    BY DEF SessionInv, HandsOK, HandOK
  <1>3. Live' <=> Live
    BY DEF Live, Active
  <1>4. ActiveOK' /\ FeedOK'
    BY <1>3 DEF SessionInv, ActiveOK, FeedOK, Active
  <1>5. Accounted'
    <2> SUFFICES ASSUME NEW p \in Producers, producer[p].phase \in {"leased", "running"},
                        ~(Live /\ p = Active)
                 PROVE  \E s \in Threads : thr'[s].prod = p
      BY <1>3 DEF Accounted, Active
    <2>1. PICK s \in Threads : thr[s].prod = p
      BY DEF SessionInv, Accounted
    <2>2. s # t
      BY <2>1, IdentityAssumption
    <2>. QED  BY <2>1, <2>2
  <1>. QED  BY <1>1, <1>2, <1>4, <1>5

LEMMA KeepsSourceRejected ==
    ASSUME SessionInv, NEW t \in Threads, SourceRejected(t)
    PROVE  SessionInv'
  <1>1. PICK r : r = [thr[t] EXCEPT !.pc = "err", !.err = "other"]
    OBVIOUS
  <1>2. thr[t].prod = NoProducer /\ thr[t] \in ThreadRows
    BY ThreadRow DEF SourceRejected, SessionInv, HandsOK, HandOK
  <1>3. r \in ThreadRows /\ r.prod = NoProducer /\ r.pc = "err"
    BY <1>1, <1>2 DEF ThreadRows, ThreadPcs
  <1>4. ThreadStep(t, r) /\ thr[t].pc = "begin"
    BY <1>1 DEF SourceRejected
  <1>5. UNCHANGED <<sources, everReady, current, forceNext, producer, others, sup>>
    BY DEF SourceRejected, shared, requests
  <1>. QED  BY <1>2, <1>3, <1>4, <1>5, AttemptUnseen, EmptyHanded DEF SessionInv

(* A goroutine that nobody touches keeps what it has in hand. *)
LEMMA HandStays ==
    ASSUME SessionInv, NEW s \in Threads, thr'[s] = thr[s],
           thr[s].prod # NoProducer => producer'[thr[s].prod] = producer[thr[s].prod]
    PROVE  HandOK(s)'
  <1>1. HandOK(s)
    BY DEF SessionInv, HandsOK
  <1>. QED  BY <1>1 DEF HandOK

(* A refused lease. *)
LEMMA KeepsRefusal ==
    ASSUME SessionInv, NEW t \in Threads, NEW reserve, NEW next \in {"recheck", "err"},
           LeaseRefused(t, reserve, next), thr[t].pc \in {"begin", "recheck"},
           UNCHANGED <<shared, everReady, current, sup>>
    PROVE  SessionInv'
  <1>1. PICK r : r = [thr[t] EXCEPT !.pc = next, !.err = "limit"]
    OBVIOUS
  <1>2. thr[t].prod = NoProducer /\ thr[t] \in ThreadRows
    BY ThreadRow DEF SessionInv, HandsOK, HandOK
  <1>3. r \in ThreadRows /\ r.prod = NoProducer /\ r.pc = next
    BY <1>1, <1>2 DEF ThreadRows, ThreadPcs
  <1>4. ThreadStep(t, r) /\ UNCHANGED producer
    BY <1>1 DEF LeaseRefused
  <1>5. UNCHANGED <<sources, everReady, current, forceNext, producer, others, sup>>
    BY <1>4 DEF shared, requests
  <1>. QED  BY <1>2, <1>3, <1>4, <1>5, AttemptUnseen, EmptyHanded DEF SessionInv

(* A granted lease. *)
LEMMA KeepsGrant ==
    ASSUME SessionInv, NEW t \in Threads, NEW p \in Producers, NEW reserve \in {0, 1},
           LeaseGranted(t, p, reserve), thr[t].pc \in {"begin", "recheck"},
           UNCHANGED <<shared, everReady, current, sup>>
    PROVE  SessionInv'
  <1>1. PICK row : row = [Free EXCEPT !.phase = "leased", !.idx = thr[t].idx, !.reserve = reserve]
    OBVIOUS
  <1>2. row \in ProducerRows /\ row.phase = "leased" /\ row.bridged = FALSE
    BY <1>1, ThreadRow DEF Free, ProducerRows, SessionInv
  <1>3. producer' = [producer EXCEPT ![p] = row] /\ producer[p].phase = "free"
    BY <1>1 DEF LeaseGranted
  <1>4. /\ producer' \in [Producers -> ProducerRows] /\ producer'[p] = row
        /\ \A q \in Producers : q # p => producer'[q] = producer[q]
    BY <1>2, <1>3 DEF SessionInv, SessionTypeOK
  <1>5. PICK r : r = [Idle EXCEPT !.pc = "leased", !.prod = p]
    OBVIOUS
  <1>6. r \in ThreadRows /\ r.pc = "leased" /\ r.prod = p
    BY <1>5 DEF Idle, ThreadRows, ThreadPcs, Somebody
  <1>7. ThreadStep(t, r)
    BY <1>5 DEF LeaseGranted
  <1>8. /\ thr' \in [Threads -> ThreadRows]
        /\ thr'[t] = r /\ \A s \in Threads : s # t => thr'[s] = thr[s]
    BY <1>6, <1>7, ThreadMoves DEF SessionInv
  <1>9. thr[t].prod = NoProducer /\ p # NoProducer
    BY IdentityAssumption DEF SessionInv, HandsOK, HandOK
  <1>10. \A s \in Threads : thr[s].prod # p
    <2> SUFFICES ASSUME NEW s \in Threads, thr[s].prod = p PROVE FALSE
      OBVIOUS
    <2>1. thr[s].pc \in ThreadPcs /\ HandOK(s)
      BY ThreadRow DEF SessionInv, HandsOK
    <2>. QED  BY <1>3, <1>9, <2>1 DEF HandOK, ThreadPcs
  <1>. UNCHANGED <<sources, everReady, current, forceNext, others, sup>>
    BY DEF shared, requests
  <1>11. SessionTypeOK'
    BY <1>4, <1>8 DEF SessionInv, SessionTypeOK
  <1>12. HandsOK'
    <2>1. \A s \in Threads : HandOK(s)'
      <3>1. HandOK(t)'
        BY <1>2, <1>4, <1>6, <1>8, <1>9 DEF HandOK
      <3>2. ASSUME NEW s \in Threads, s # t PROVE HandOK(s)'
        <4>1. thr[s].prod \in Somebody /\ thr[s].prod # p
          BY <1>10, ThreadRow DEF SessionInv
        <4>. QED  BY <1>4, <1>8, <3>2, <4>1, HandStays DEF Somebody
      <3>. QED  BY <3>1, <3>2
    <2>2. ASSUME NEW x \in Threads, NEW y \in Threads, x # y, thr'[x].prod # NoProducer
          PROVE  thr'[x].prod # thr'[y].prod
      BY <2>2, <1>6, <1>8, <1>9, <1>10 DEF SessionInv, HandsOK
    <2>. QED  BY <2>1, <2>2 DEF HandsOK
  <1>13. Live' <=> Live
    BY DEF Live, Active
  <1>14. Live => Active # p
    BY <1>3 DEF SessionInv, ActiveOK
  <1>15. ActiveOK'
    <2>1. Live => Active \in Producers
      BY DEF SessionInv, SessionTypeOK, SupRows, Somebody, ActiveOK, Active
    <2>. QED  BY <2>1, <1>4, <1>6, <1>8, <1>13, <1>14 DEF SessionInv, ActiveOK, Active
  <1>16. FeedOK'
    <2>1. current # NoProducer => current \in Producers /\ current # p
      BY <1>3, <1>14 DEF SessionInv, FeedOK, SessionTypeOK, Somebody
    <2>. QED  BY <2>1, <1>2, <1>4, <1>13 DEF SessionInv, FeedOK, Active
  <1>17. Accounted'
    BY <1>4, <1>6, <1>8, <1>9, <1>13, IdentityAssumption DEF SessionInv, Accounted, Active
  <1>18. RunOK' /\ RaceOK'
    BY <1>6, <1>7, AttemptUnseen
  <1>. QED  BY <1>11, <1>12, <1>15, <1>16, <1>17, <1>18 DEF SessionInv

LEMMA KeepsAcquireLease ==
    ASSUME SessionInv, NEW t \in Threads, AcquireLease(t)
    PROVE  SessionInv'
  <1>. UNCHANGED <<shared, everReady, current, sup>> /\ thr[t].pc = "begin"
    BY DEF AcquireLease
  <1>1. PICK reserve \in {0, 1} :
            \/ \E p \in Producers : LeaseGranted(t, p, reserve)
            \/ LeaseRefused(t, reserve, IF prewarm THEN "recheck" ELSE "err")
    BY DEF AcquireLease
  <1>2. ASSUME NEW p \in Producers, LeaseGranted(t, p, reserve) PROVE SessionInv'
    BY <1>2, KeepsGrant
  <1>3. ASSUME NEW next \in {"recheck", "err"}, LeaseRefused(t, reserve, next) PROVE SessionInv'
    BY <1>3, KeepsRefusal
  <1>. QED  BY <1>1, <1>2, <1>3

LEMMA KeepsRecheckPrewarm ==
    ASSUME SessionInv, NEW t \in Threads, RecheckPrewarm(t)
    PROVE  SessionInv'
  <1>. UNCHANGED <<shared, everReady, current, sup>> /\ thr[t].pc = "recheck"
    BY DEF RecheckPrewarm
  <1>1. CASE ThreadStep(t, [thr[t] EXCEPT !.pc = "err"]) /\ UNCHANGED producer
    <2>1. PICK r : r = [thr[t] EXCEPT !.pc = "err"]
      OBVIOUS
    <2>2. thr[t].prod = NoProducer /\ thr[t] \in ThreadRows
      BY ThreadRow DEF SessionInv, HandsOK, HandOK
    <2>3. r \in ThreadRows /\ r.prod = NoProducer /\ r.pc = "err"
      BY <2>1, <2>2 DEF ThreadRows, ThreadPcs
    <2>4. UNCHANGED <<sources, everReady, current, forceNext, producer, others, sup>>
      BY <1>1 DEF shared, requests
    <2>5. ThreadStep(t, r)
      BY <1>1, <2>1
    <2>. QED  BY <2>2, <2>3, <2>4, <2>5, AttemptUnseen, EmptyHanded DEF SessionInv
  <1>2. ASSUME NEW p \in Producers, LeaseGranted(t, p, 0) PROVE SessionInv'
    BY <1>2, KeepsGrant
  <1>3. CASE LeaseRefused(t, 0, "err")
    BY <1>3, KeepsRefusal
  <1>. QED  BY <1>1, <1>2, <1>3 DEF RecheckPrewarm

-----------------------------------------------------------------------------
(* startManagedProducer with a lease in hand. *)

(* The supervisor's locals change in nothing the invariant is about. *)
SameFeed ==
    /\ sup' \in SupRows /\ Active' = Active /\ (Live' <=> Live)
    /\ sup'.pc \in {"cold", "race", "raceBoth", "retryWait", "failWait"} => Active = NoProducer
    /\ UNCHANGED everReady

(* A goroutine starts, stops or gives up the producer it has in hand. *)
LEMMA InHand ==
    ASSUME SessionInv, NEW t \in Threads, NEW p \in Producers, thr[t].prod = p,
           NEW r \in ThreadRows, ThreadStep(t, r),
           NEW row \in ProducerRows, producer' = [producer EXCEPT ![p] = row],
           row.bridged = FALSE, r.prod \in {p, NoProducer}, HandOK(t)',
           row.phase \in {"leased", "running"} => r.prod = p,
           current' \in {current, NoProducer}, current # p => current' = current,
           current' = p => row.phase \in {"stopping", "halted"},
           SameFeed, UNCHANGED <<sources, forceNext, others>>
    PROVE  SessionTypeOK' /\ HandsOK' /\ ActiveOK' /\ FeedOK' /\ Accounted'
  <1>1. /\ thr' \in [Threads -> ThreadRows]
        /\ thr'[t] = r /\ \A s \in Threads : s # t => thr'[s] = thr[s]
    BY ThreadMoves DEF SessionInv
  <1>2. /\ producer' \in [Producers -> ProducerRows] /\ producer'[p] = row
        /\ \A q \in Producers : q # p => producer'[q] = producer[q]
    BY DEF SessionInv, SessionTypeOK
  <1>3. p # NoProducer /\ \A s \in Threads : s # t => thr[s].prod # p
    BY IdentityAssumption DEF SessionInv, HandsOK
  <1>4. SessionTypeOK'
    BY <1>1, <1>2 DEF SessionInv, SessionTypeOK, SameFeed, Somebody
  <1>5. HandsOK'
    <2>1. ASSUME NEW s \in Threads, s # t PROVE HandOK(s)'
      <3>1. thr[s].prod \in Somebody /\ thr[s].prod # p
        BY <1>3, <2>1, ThreadRow DEF SessionInv
      <3>. QED  BY <1>1, <1>2, <2>1, <3>1, HandStays DEF Somebody
    <2>2. ASSUME NEW x \in Threads, NEW y \in Threads, x # y, thr'[x].prod # NoProducer
          PROVE  thr'[x].prod # thr'[y].prod
      <3>1. x # t /\ y # t => thr[x].prod # thr[y].prod
        BY <1>1, <2>2 DEF SessionInv, HandsOK
      <3>. QED  BY <1>1, <1>3, <2>2, <3>1
    <2>. QED  BY <2>1, <2>2 DEF HandsOK
  <1>6. Live => Active \in Producers /\ Active # p
    BY DEF SessionInv, SessionTypeOK, SupRows, Somebody, ActiveOK, Active
  <1>7. ActiveOK'
    <2>1. ASSUME Live PROVE current' = current
      BY <2>1, <1>6 DEF SessionInv, ActiveOK
    <2>. QED  BY <2>1, <1>1, <1>2, <1>3, <1>6 DEF SessionInv, ActiveOK, SameFeed
  <1>8. FeedOK'
    <2>1. \A q \in Producers : producer'[q].bridged => Live' /\ q = Active'
      BY <1>2 DEF SessionInv, FeedOK, SameFeed
    <2>2. ASSUME current' # NoProducer
          PROVE  \/ Live' /\ current' = Active'
                 \/ producer'[current'].phase \in {"stopping", "halted"}
      <3>1. current' = current /\ current \in Producers
        BY <2>2 DEF SessionInv, SessionTypeOK, Somebody
      <3>. QED  BY <1>2, <1>6, <2>2, <3>1 DEF SessionInv, FeedOK, SameFeed
    <2>. QED  BY <2>1, <2>2 DEF FeedOK
  <1>9. Accounted'
    <2> SUFFICES ASSUME NEW q \in Producers, producer'[q].phase \in {"leased", "running"},
                        ~(Live' /\ q = Active')
                 PROVE  \E s \in Threads : thr'[s].prod = q
      BY DEF Accounted
    <2>1. CASE q = p
      BY <1>1, <1>2, <2>1
    <2>2. CASE q # p
      <3>1. PICK s \in Threads : thr[s].prod = q
        BY <1>2, <2>2 DEF SessionInv, Accounted, SameFeed
      <3>. QED  BY <1>1, <2>2, <3>1
    <2>. QED  BY <2>1, <2>2
  <1>. QED  BY <1>4, <1>5, <1>7, <1>8, <1>9

LEMMA SameSupervisor ==
    ASSUME SessionInv, UNCHANGED <<sup, everReady>> PROVE SameFeed
  BY DEF SameFeed, SessionInv, SessionTypeOK, ActiveOK, Active, Live

(* What is in a goroutine's hands is a producer that feeds nobody. *)
LEMMA InHandFacts ==
    ASSUME SessionInv, NEW t \in Threads, thr[t].prod # NoProducer
    PROVE  /\ thr[t].prod \in Producers /\ producer[thr[t].prod].bridged = FALSE
           /\ ~(Live /\ thr[t].prod = Active)
           /\ producer[thr[t].prod].phase \in {"leased", "running"} => current # thr[t].prod
           /\ thr[t].pc \in {"leased", "waiting", "ok", "cleanup", "stop"}
  <1>1. thr[t].prod \in Producers
    BY ThreadRow DEF SessionInv, Somebody
  <1>2. ~(Live /\ thr[t].prod = Active)
    BY DEF SessionInv, ActiveOK
  <1>3. producer[thr[t].prod].bridged = FALSE
    BY <1>1, <1>2, ProducerRow DEF SessionInv, FeedOK
  <1>4. producer[thr[t].prod].phase \in {"leased", "running"} => current # thr[t].prod
    BY <1>2 DEF SessionInv, FeedOK
  <1>5. thr[t].pc \in {"leased", "waiting", "ok", "cleanup", "stop"}
    <2>1. HandOK(t) /\ thr[t].pc \in ThreadPcs
      BY ThreadRow DEF SessionInv, HandsOK
    <2>. QED  BY <2>1 DEF HandOK, ThreadPcs
  <1>. QED  BY <1>1, <1>2, <1>3, <1>4, <1>5

(* The other way round: these goroutines have a producer. *)
LEMMA HandFull ==
    ASSUME SessionInv, NEW t \in Threads,
           thr[t].pc \in {"leased", "waiting", "ok", "cleanup", "stop"}
    PROVE  /\ thr[t].prod # NoProducer /\ thr[t].prod \in Producers
           /\ thr[t].pc = "leased" => producer[thr[t].prod].phase = "leased"
           /\ thr[t].pc \in {"waiting", "ok"} => producer[thr[t].prod].phase = "running"
           /\ thr[t].pc \in {"cleanup", "stop"} =>
                 producer[thr[t].prod].phase \in {"stopping", "halted"}
  <1>1. HandOK(t)
    BY DEF SessionInv, HandsOK
  <1>2. thr[t].prod # NoProducer
    BY <1>1 DEF HandOK
  <1>. QED  BY <1>1, <1>2, InHandFacts DEF HandOK

LEMMA KeepsRelayFails ==
    ASSUME SessionInv, NEW t \in Threads, RelayFails(t)
    PROVE  SessionInv'
  <1>1. PICK r : r = [thr[t] EXCEPT !.pc = "err", !.prod = NoProducer, !.err = "other"]
    OBVIOUS
  <1>2. thr[t].pc = "leased" /\ ThreadStep(t, r)
    BY <1>1 DEF RelayFails
  <1>3. r \in ThreadRows /\ r.pc = "err" /\ r.prod = NoProducer
    BY <1>1, ThreadRow DEF SessionInv, ThreadRows, ThreadPcs, Somebody
  <1>4. Free \in ProducerRows /\ Free.phase = "free" /\ Free.bridged = FALSE
    BY DEF Free, ProducerRows
  <1>5. producer' = [producer EXCEPT ![thr[t].prod] = Free]
    BY DEF RelayFails
  <1>6. UNCHANGED <<sup, everReady, current>> /\ UNCHANGED <<sources, forceNext, others>>
    BY DEF RelayFails, shared, requests
  <1>7. HandOK(t)'
    BY <1>2, <1>3, ThreadMoves DEF HandOK, SessionInv
  <1>8. thr[t].prod \in Producers /\ current # thr[t].prod
    BY <1>2, HandFull, InHandFacts
  <1>9. SessionTypeOK' /\ HandsOK' /\ ActiveOK' /\ FeedOK' /\ Accounted'
    BY <1>2, <1>3, <1>4, <1>5, <1>6, <1>7, <1>8, InHand, SameSupervisor
  <1>. QED  BY <1>2, <1>3, <1>6, <1>9, AttemptUnseen DEF SessionInv

LEMMA KeepsLaunch ==
    ASSUME SessionInv, NEW t \in Threads, Launch(t)
    PROVE  SessionInv'
  <1>1. PICK r : r = [thr[t] EXCEPT !.pc = "waiting"]
    OBVIOUS
  <1>2. thr[t].pc = "leased" /\ ThreadStep(t, r)
    BY <1>1 DEF Launch
  <1>3. r \in ThreadRows /\ r.pc = "waiting" /\ r.prod = thr[t].prod
    BY <1>1, ThreadRow DEF SessionInv, ThreadRows, ThreadPcs, Somebody
  <1>4. /\ thr[t].prod \in Producers /\ current # thr[t].prod /\ thr[t].prod # NoProducer
        /\ producer[thr[t].prod].bridged = FALSE
    BY <1>2, HandFull, InHandFacts
  <1>5. PICK row : row = [producer[thr[t].prod] EXCEPT !.phase = "running"]
    OBVIOUS
  <1>6. row \in ProducerRows /\ row.phase = "running" /\ row.bridged = FALSE
    BY <1>4, <1>5, ProducerRow DEF ProducerRows, SessionInv
  <1>7. producer' = [producer EXCEPT ![thr[t].prod] = row]
    BY <1>4, <1>5 DEF Launch
  <1>8. UNCHANGED <<sup, everReady, current>> /\ UNCHANGED <<sources, forceNext, others>>
    BY DEF Launch, shared, requests
  <1>9. HandOK(t)'
    <2>1. thr'[t] = r /\ producer'[thr[t].prod] = row
      BY <1>2, <1>3, <1>4, <1>7, ThreadMoves DEF SessionInv, SessionTypeOK
    <2>. QED  BY <1>3, <1>4, <1>6, <2>1 DEF HandOK
  <1>10. SessionTypeOK' /\ HandsOK' /\ ActiveOK' /\ FeedOK' /\ Accounted'
    BY <1>2, <1>3, <1>4, <1>6, <1>7, <1>8, <1>9, InHand, SameSupervisor
  <1>. QED  BY <1>2, <1>3, <1>8, <1>10, AttemptUnseen DEF SessionInv

LEMMA KeepsStartSucceeds ==
    ASSUME SessionInv, NEW t \in Threads, StartSucceeds(t)
    PROVE  SessionInv'
  <1>1. PICK r : r = [thr[t] EXCEPT !.pc = "ok"]
    OBVIOUS
  <1>2. thr[t].pc = "waiting" /\ ThreadStep(t, r)
    BY <1>1 DEF StartSucceeds
  <1>3. r \in ThreadRows /\ r.pc = "ok" /\ r.prod = thr[t].prod
    BY <1>1, ThreadRow DEF SessionInv, ThreadRows, ThreadPcs, Somebody
  <1>4. /\ thr[t].prod \in Producers /\ current # thr[t].prod /\ thr[t].prod # NoProducer
        /\ producer[thr[t].prod].bridged = FALSE /\ producer[thr[t].prod].phase = "running"
    BY <1>2, HandFull, InHandFacts
  <1>5. PICK row : row = producer[thr[t].prod]
    OBVIOUS
  <1>6. row \in ProducerRows /\ row.phase = "running" /\ row.bridged = FALSE
    BY <1>4, <1>5, ProducerRow DEF SessionInv
  <1>7. producer' = [producer EXCEPT ![thr[t].prod] = row] /\ UNCHANGED producer
    BY <1>4, <1>5 DEF StartSucceeds, SessionInv, SessionTypeOK
  <1>8. UNCHANGED <<sup, everReady, current>> /\ UNCHANGED <<sources, forceNext, others>>
    BY DEF StartSucceeds, shared, requests
  <1>9. HandOK(t)'
    <2>1. thr'[t] = r
      BY <1>2, <1>3, ThreadMoves DEF SessionInv
    <2>. QED  BY <1>3, <1>4, <1>7, <2>1 DEF HandOK
  <1>10. SessionTypeOK' /\ HandsOK' /\ ActiveOK' /\ FeedOK' /\ Accounted'
    BY <1>2, <1>3, <1>4, <1>6, <1>7, <1>8, <1>9, InHand, SameSupervisor
  <1>. QED  BY <1>2, <1>3, <1>8, <1>10, AttemptUnseen DEF SessionInv

(* A producer in hand is stopped: the shape of every such step. *)
LEMMA QuiesceInHand ==
    ASSUME SessionInv, NEW t \in Threads, NEW p \in Producers, thr[t].prod = p,
           NEW r \in ThreadRows, ThreadStep(t, r), r.prod = p, r.pc \in {"cleanup", "stop"},
           producer' = Quiesce(p), UNCHANGED current,
           SameFeed, UNCHANGED <<sources, forceNext, others>>
    PROVE  SessionTypeOK' /\ HandsOK' /\ ActiveOK' /\ FeedOK' /\ Accounted'
  <1>1. PICK row : row = Quiesce(p)[p]
    OBVIOUS
  <1>2. row \in ProducerRows /\ row.phase = "stopping" /\ row.bridged = FALSE
    BY <1>1, QuiesceMoves DEF SessionInv
  <1>3. producer' = [producer EXCEPT ![p] = row]
    <2>1. producer' \in [Producers -> ProducerRows]
      BY QuiesceMoves DEF SessionInv
    <2>2. \A q \in Producers : producer'[q] = [producer EXCEPT ![p] = row][q]
      BY <1>1, QuiesceMoves DEF SessionInv, SessionTypeOK
    <2>. QED  BY <2>1, <2>2 DEF SessionInv, SessionTypeOK
  <1>4. HandOK(t)'
    <2>1. thr'[t] = r /\ producer'[p] = row
      BY <1>3, ThreadMoves DEF SessionInv, SessionTypeOK
    <2>. QED  BY <1>2, <2>1, IdentityAssumption DEF HandOK
  <1>5. current \in {current, NoProducer}
    OBVIOUS
  <1>. QED  BY <1>2, <1>3, <1>4, <1>5, InHand

LEMMA KeepsStartFails ==
    ASSUME SessionInv, NEW t \in Threads, StartFails(t)
    PROVE  SessionInv'
  <1>1. PICK r : r = [thr[t] EXCEPT !.pc = "cleanup", !.err = "other"]
    OBVIOUS
  <1>2. thr[t].pc = "waiting" /\ ThreadStep(t, r)
    BY <1>1 DEF StartFails
  <1>3. r \in ThreadRows /\ r.pc = "cleanup" /\ r.prod = thr[t].prod
    BY <1>1, ThreadRow DEF SessionInv, ThreadRows, ThreadPcs, Somebody
  <1>4. thr[t].prod \in Producers
    BY <1>2, HandFull
  <1>5. UNCHANGED <<sup, everReady, current>> /\ UNCHANGED <<sources, forceNext, others>>
    BY DEF StartFails, shared, requests
  <1>6. producer' = Quiesce(thr[t].prod)
    BY DEF StartFails
  <1>7. SessionTypeOK' /\ HandsOK' /\ ActiveOK' /\ FeedOK' /\ Accounted'
    BY <1>2, <1>3, <1>4, <1>5, <1>6, QuiesceInHand, SameSupervisor
  <1>. QED  BY <1>2, <1>3, <1>5, <1>7, AttemptUnseen DEF SessionInv

LEMMA KeepsCleanupTimesOut ==
    ASSUME SessionInv, NEW t \in Threads, CleanupTimesOut(t)
    PROVE  SessionInv'
  <1>0. thr[t].pc \in {"cleanup", "stop"}
    BY DEF CleanupTimesOut
  <1>1. PICK r : r = IF thr[t].pc = "cleanup"
                     THEN [thr[t] EXCEPT !.pc = "err", !.prod = NoProducer, !.err = "stuck"]
                     ELSE [thr[t] EXCEPT !.pc = "stuck", !.prod = NoProducer]
    OBVIOUS
  <1>2. ThreadStep(t, r)
    BY <1>1 DEF CleanupTimesOut
  <1>3. /\ r \in ThreadRows /\ r.prod = NoProducer
        /\ thr[t].pc = "cleanup" => r.pc = "err"
        /\ thr[t].pc = "stop" => r.pc = "stuck" /\ r.err = thr[t].err
    BY <1>1, <1>0, ThreadRow DEF SessionInv, ThreadRows, ThreadPcs, Somebody
  <1>4. /\ thr[t].prod \in Producers /\ thr[t].prod # NoProducer
        /\ producer[thr[t].prod].bridged = FALSE
        /\ producer[thr[t].prod].phase \in {"stopping", "halted"}
    BY <1>0, HandFull, InHandFacts
  <1>5. PICK row : row = producer[thr[t].prod]
    OBVIOUS
  <1>6. row \in ProducerRows /\ row.bridged = FALSE /\ row.phase \in {"stopping", "halted"}
    BY <1>4, <1>5, ProducerRow DEF SessionInv
  <1>7. producer' = [producer EXCEPT ![thr[t].prod] = row]
    BY <1>4, <1>5 DEF CleanupTimesOut, SessionInv, SessionTypeOK
  <1>8. /\ UNCHANGED <<sup, everReady>> /\ UNCHANGED <<sources, forceNext, others>>
        /\ current' \in {current, NoProducer} /\ (current # thr[t].prod => current' = current)
    BY DEF CleanupTimesOut, shared, requests, ClearCurrent
  <1>9. thr'[t] = r /\ \A s \in Threads : s # t => thr'[s] = thr[s]
    BY <1>2, <1>3, ThreadMoves DEF SessionInv
  <1>10. HandOK(t)'
    BY <1>0, <1>3, <1>9 DEF HandOK
  <1>11. SessionTypeOK' /\ HandsOK' /\ ActiveOK' /\ FeedOK' /\ Accounted'
    BY <1>2, <1>3, <1>4, <1>6, <1>7, <1>8, <1>10, InHand, SameSupervisor
  <1>12. RunOK'
    <2>1. thr["run"].pc = "cleanup" => RunOK'
      BY <1>2, <1>3, <1>8, AttemptUnseen, <1>9 DEF RunOK, SessionInv, Threads
    <2>. QED  BY <2>1, <1>0, <1>3, <1>8, <1>9 DEF SessionInv, RunOK, Threads
  <1>13. RaceOK'
    BY <1>0, <1>8, <1>9 DEF SessionInv, RaceOK, Threads, Racers
  <1>. QED  BY <1>11, <1>12, <1>13 DEF SessionInv

-----------------------------------------------------------------------------
(* Cleanup goroutines, the loser of the race, requests. *)

(* A producer queues an error, or its Stop returns: nothing else moves. *)
LEMMA ProducerAlone ==
    ASSUME SessionInv, NEW p \in Producers, NEW row \in ProducerRows,
           producer' = [producer EXCEPT ![p] = row], row.bridged = producer[p].bridged,
           \/ row.phase = producer[p].phase
           \/ row.phase = "halted" /\ producer[p].phase = "stopping",
           UNCHANGED <<sources, everReady, current, forceNext, others, thr, sup>>
    PROVE  SessionInv'
  <1>1. /\ producer' \in [Producers -> ProducerRows] /\ producer'[p] = row
        /\ \A q \in Producers : q # p => producer'[q] = producer[q]
    BY DEF SessionInv, SessionTypeOK
  <1>2. SessionTypeOK'
    BY <1>1 DEF SessionInv, SessionTypeOK
  <1>3. HandsOK'
    <2>1. ASSUME NEW s \in Threads PROVE HandOK(s)'
      <3>1. HandOK(s) /\ thr[s].prod \in Somebody
        BY ThreadRow DEF SessionInv, HandsOK
      <3>2. CASE thr[s].prod = p
        BY <1>1, <3>1, <3>2 DEF HandOK
      <3>3. CASE thr[s].prod # p
        BY <1>1, <3>1, <3>3 DEF HandOK, Somebody
      <3>. QED  BY <3>2, <3>3
    <2>. QED  BY <2>1 DEF SessionInv, HandsOK
  <1>4. Live' <=> Live
    BY DEF Live, Active
  <1>5. Live => Active \in Producers
    BY DEF SessionInv, SessionTypeOK, SupRows, Somebody, ActiveOK, Active
  <1>6. ActiveOK'
    BY <1>1, <1>4, <1>5 DEF SessionInv, ActiveOK, Active
  <1>7. FeedOK'
    <2>1. current \in Somebody
      BY DEF SessionInv, SessionTypeOK
    <2>. QED  BY <1>1, <1>4, <2>1 DEF SessionInv, FeedOK, Active, Somebody
  <1>8. Accounted'
    BY <1>1, <1>4 DEF SessionInv, Accounted, Active
  <1>9. RunOK' /\ RaceOK'
    BY DEF SessionInv, RunOK, RaceOK
  <1>. QED  BY <1>2, <1>3, <1>6, <1>7, <1>8, <1>9 DEF SessionInv

LEMMA KeepsProducerFails ==
    ASSUME SessionInv, NEW p \in Producers, ProducerFails(p)
    PROVE  SessionInv'
  <1>1. PICK o \in BOOLEAN : o = TRUE
    OBVIOUS
  <1>2. PICK row : row = [producer[p] EXCEPT !.failed = o]
    OBVIOUS
  <1>3. /\ row \in ProducerRows /\ row.bridged = producer[p].bridged
        /\ row.phase = producer[p].phase
    BY <1>2, ProducerRow DEF ProducerRows, SessionInv
  <1>4. producer' = [producer EXCEPT ![p] = row]
    BY <1>1, <1>2 DEF ProducerFails
  <1>5. UNCHANGED <<sources, everReady, current, forceNext, others, thr, sup>>
    BY DEF ProducerFails, shared, requests
  <1>. QED  BY <1>3, <1>4, <1>5, ProducerAlone

LEMMA KeepsProducerHalts ==
    ASSUME SessionInv, NEW p \in Producers, ProducerHalts(p)
    PROVE  SessionInv'
  <1>2. PICK row : row = [producer[p] EXCEPT !.phase = "halted"]
    OBVIOUS
  <1>3. /\ row \in ProducerRows /\ row.bridged = producer[p].bridged
        /\ row.phase = "halted"
    BY <1>2, ProducerRow DEF ProducerRows, SessionInv
  <1>4. producer' = [producer EXCEPT ![p] = row] /\ producer[p].phase = "stopping"
    BY <1>2 DEF ProducerHalts
  <1>5. UNCHANGED <<sources, everReady, current, forceNext, others, thr, sup>>
    BY DEF ProducerHalts, shared, requests
  <1>. QED  BY <1>3, <1>4, <1>5, ProducerAlone

LEMMA KeepsCleanupDone ==
    ASSUME SessionInv, NEW p \in Producers, CleanupDone(p)
    PROVE  SessionInv'
  <1>1. Free \in ProducerRows /\ Free.phase = "free" /\ Free.bridged = FALSE
    BY DEF Free, ProducerRows
  <1>2. /\ producer' \in [Producers -> ProducerRows] /\ producer'[p] = Free
        /\ \A q \in Producers : q # p => producer'[q] = producer[q]
        /\ producer[p].phase = "halted"
    BY <1>1 DEF CleanupDone, SessionInv, SessionTypeOK
  <1>3. /\ UNCHANGED <<sources, everReady, forceNext, others, sup>>
        /\ current' = IF current = p THEN NoProducer ELSE current
    BY DEF CleanupDone, shared, requests, ClearCurrent
  <1>4. ASSUME NEW t \in Threads
        PROVE  /\ thr'[t] \in ThreadRows
               /\ thr[t].prod # p => thr'[t] = thr[t]
               /\ thr[t].prod = p => /\ thr'[t].prod = NoProducer /\ thr'[t].err = thr[t].err
                                     /\ thr[t].pc \in {"cleanup", "stop"}
                                     /\ thr'[t].pc = IF thr[t].pc = "cleanup" THEN "err" ELSE "stopped"
    <2>1. thr'[t] = IF thr[t].prod # p THEN thr[t]
                    ELSE [thr[t] EXCEPT !.prod = NoProducer,
                                        !.pc = IF @ = "cleanup" THEN "err" ELSE "stopped"]
      BY DEF CleanupDone
    <2>2. thr[t] \in ThreadRows
      BY ThreadRow DEF SessionInv
    <2>3. CASE thr[t].prod # p
      BY <2>1, <2>2, <2>3
    <2>4. CASE thr[t].prod = p
      <3>1. PICK pc : pc = IF thr[t].pc = "cleanup" THEN "err" ELSE "stopped"
        OBVIOUS
      <3>2. thr'[t] = [thr[t] EXCEPT !.prod = NoProducer, !.pc = pc]
        BY <2>1, <2>2, <2>4, <3>1 DEF ThreadRows
      <3>3. pc \in ThreadPcs
        BY <3>1 DEF ThreadPcs
      <3>4. thr[t].pc \in {"cleanup", "stop"}
        BY <1>2, <2>4, HandFull, InHandFacts, IdentityAssumption
      <3>. QED  BY <2>2, <2>4, <3>1, <3>2, <3>3, <3>4 DEF ThreadRows, Somebody
    <2>. QED  BY <2>3, <2>4
  <1>5. thr' \in [Threads -> ThreadRows]
    <2>1. thr' = [t \in Threads |-> thr'[t]]
      BY DEF CleanupDone
    <2>. QED  BY <1>4, <2>1
  <1>6. SessionTypeOK'
    BY <1>2, <1>3, <1>5 DEF SessionInv, SessionTypeOK, Somebody
  <1>7. HandsOK'
    <2>1. ASSUME NEW t \in Threads PROVE HandOK(t)'
      <3>1. CASE thr[t].prod = p
        BY <1>4, <3>1 DEF HandOK
      <3>2. CASE thr[t].prod # p
        <4>1. thr[t].prod \in Somebody
          BY ThreadRow DEF SessionInv
        <4>. QED  BY <1>2, <1>4, <3>2, <4>1, HandStays DEF Somebody
      <3>. QED  BY <3>1, <3>2
    <2>2. ASSUME NEW x \in Threads, NEW y \in Threads, x # y, thr'[x].prod # NoProducer
          PROVE  thr'[x].prod # thr'[y].prod
      <3>1. thr[x].prod # p /\ thr'[x].prod = thr[x].prod
        BY <1>4, <2>2
      <3>2. thr[x].prod # thr[y].prod
        BY <2>2, <3>1 DEF SessionInv, HandsOK
      <3>. QED  BY <1>4, <2>2, <3>1, <3>2
    <2>. QED  BY <2>1, <2>2 DEF HandsOK
  <1>8. Live' <=> Live
    BY <1>3 DEF Live, Active
  <1>9. Live => Active \in Producers /\ Active # p
    BY <1>2 DEF SessionInv, SessionTypeOK, SupRows, Somebody, ActiveOK, Active
  <1>10. ActiveOK'
    <2>1. Live => \A t \in Threads : thr'[t].prod # Active
      BY <1>4 DEF SessionInv, ActiveOK
    <2>. QED  BY <1>2, <1>3, <1>8, <1>9, <2>1 DEF SessionInv, ActiveOK, Active
  <1>11. FeedOK'
    <2>1. current \in Somebody
      BY DEF SessionInv, SessionTypeOK
    <2>. QED  BY <1>1, <1>2, <1>3, <1>8, <1>9, <2>1 DEF SessionInv, FeedOK, Active, Somebody
  <1>12. Accounted'
    <2> SUFFICES ASSUME NEW q \in Producers, producer'[q].phase \in {"leased", "running"},
                        ~(Live /\ q = Active)
                 PROVE  \E s \in Threads : thr'[s].prod = q
      BY <1>3, <1>8 DEF Accounted, Active
    <2>1. q # p
      BY <1>1, <1>2
    <2>2. PICK s \in Threads : thr[s].prod = q
      BY <1>2, <2>1 DEF SessionInv, Accounted
    <2>. QED  BY <1>4, <2>1, <2>2
  <1>13. RunOK'
    <2>1. /\ thr["run"].pc \notin {"cleanup", "stop"} => thr'["run"] = thr["run"]
          /\ thr["run"].pc = "cleanup" => thr'["run"] = thr["run"] \/ thr'["run"].pc = "err"
          /\ thr["run"].pc = "stop" => /\ thr'["run"] = thr["run"] \/ thr'["run"].pc = "stopped"
                                       /\ thr'["run"].err = thr["run"].err
      BY <1>4 DEF Threads
    <2>. QED  BY <1>3, <2>1 DEF SessionInv, RunOK
  <1>14. RaceOK'
    <2>1. \A t \in Racers : thr[t].pc = "idle" => thr'[t] = thr[t]
      BY <1>4 DEF Threads, Racers
    <2>. QED  BY <1>3, <2>1 DEF SessionInv, RaceOK, Racers
  <1>. QED  BY <1>6, <1>7, <1>10, <1>11, <1>12, <1>13, <1>14 DEF SessionInv

LEMMA IdleRow == Idle \in ThreadRows /\ Idle.pc = "idle" /\ Idle.prod = NoProducer
  BY DEF Idle, ThreadRows, ThreadPcs, Somebody

LEMMA BeginRow ==
    ASSUME NEW i \in Nat
    PROVE  Begin(i) \in ThreadRows /\ Begin(i).pc = "begin" /\ Begin(i).prod = NoProducer
  BY DEF Begin, Idle, ThreadRows, ThreadPcs, Somebody

LEMMA StoppingRow ==
    ASSUME NEW p \in Producers
    PROVE  /\ Stopping(p) \in ThreadRows /\ Stopping(p).pc = "stop" /\ Stopping(p).prod = p
           /\ Stopping(p).err = "none"
  BY DEF Stopping, Idle, ThreadRows, ThreadPcs, Somebody

LEMMA KeepsStopLoser ==
    ASSUME SessionInv, NEW t \in Racers, StopLoser(t)
    PROVE  SessionInv'
  <1>. /\ t \in Threads /\ t # "run"
    BY DEF Racers, Threads
  <1>0. /\ UNCHANGED <<sources, everReady, current, forceNext, others, sup>>
        /\ sup.pc \notin {"race", "raceBoth"}
    BY DEF StopLoser, shared, requests
  <1>1. CASE thr[t].pc = "ok" /\ producer' = Quiesce(thr[t].prod) /\ ThreadStep(t, Stopping(thr[t].prod))
    <2>1. thr[t].prod \in Producers
      BY <1>1, HandFull
    <2>2. SessionTypeOK' /\ HandsOK' /\ ActiveOK' /\ FeedOK' /\ Accounted'
      BY <1>0, <1>1, <2>1, StoppingRow, QuiesceInHand, SameSupervisor
    <2>3. thr'["run"] = thr["run"]
      BY <1>1, <2>1, StoppingRow, ThreadMoves DEF SessionInv, Threads
    <2>4. RunOK'
      BY <1>0, <2>3 DEF SessionInv, RunOK
    <2>5. RaceOK'
      BY <1>0, <1>1 DEF SessionInv, RaceOK
    <2>. QED  BY <2>2, <2>4, <2>5 DEF SessionInv
  <1>2. CASE thr[t].pc \in {"err", "stopped", "stuck"} /\ ThreadStep(t, Idle) /\ UNCHANGED producer
    <2>1. thr[t].prod = NoProducer
      BY <1>2 DEF SessionInv, HandsOK, HandOK
    <2>2. SessionTypeOK' /\ HandsOK' /\ ActiveOK' /\ FeedOK' /\ Accounted'
      BY <1>0, <1>2, <2>1, IdleRow, EmptyHanded
    <2>3. thr'["run"] = thr["run"]
      BY <1>2, IdleRow, ThreadMoves DEF SessionInv, Threads
    <2>4. RunOK'
      BY <1>0, <2>3 DEF SessionInv, RunOK
    <2>5. RaceOK'
      BY <1>0, <1>2 DEF SessionInv, RaceOK
    <2>. QED  BY <2>2, <2>4, <2>5 DEF SessionInv
  <1>. QED  BY <1>1, <1>2 DEF StopLoser

(* Requests only reach what the invariant speaks of through the list, the  *)
(* channel of the manual switch and the other sessions' leases.            *)
LEMMA RequestsKeep ==
    ASSUME SessionInv, sources' \in SourceLists, forceNext' \in {"none", "next", "restart"},
           others' \subseteq OtherLeases, UNCHANGED <<everReady, current, producer, thr, sup>>
    PROVE  SessionInv'
  <1>1. SessionTypeOK'
    BY DEF SessionInv, SessionTypeOK
  <1>2. Live' <=> Live
    BY DEF Live, Active
  <1>3. HandsOK'
    BY DEF SessionInv, HandsOK, HandOK
  <1>4. ActiveOK' /\ FeedOK' /\ Accounted'
    BY <1>2 DEF SessionInv, ActiveOK, FeedOK, Accounted, Active
  <1>5. RunOK' /\ RaceOK'
    BY DEF SessionInv, RunOK, RaceOK
  <1>. QED  BY <1>1, <1>3, <1>4, <1>5 DEF SessionInv

LEMMA KeepsRequest ==
    ASSUME SessionInv, Request
    PROVE  SessionInv'
  <1>0. /\ sources \in SourceLists /\ forceNext \in {"none", "next", "restart"}
        /\ others \subseteq OtherLeases
    BY DEF SessionInv, SessionTypeOK
  <1>1. UNCHANGED <<everReady, current, producer, thr, sup>>
    BY DEF Request, Reuse, ForceNextSource, RestartSource, RequestStop, StopProceeds,
           RegisterClient, CloseClient, OtherSession
  <1>2. sources' \in SourceLists
    BY <1>0 DEF Request, Reuse, ForceNextSource, RestartSource, RequestStop, StopProceeds,
           RegisterClient, CloseClient, OtherSession
  <1>3. forceNext' \in {"none", "next", "restart"}
    BY <1>0 DEF Request, Reuse, ForceNextSource, RestartSource, RequestStop, StopProceeds,
           RegisterClient, CloseClient, OtherSession, requests
  <1>4. others' \subseteq OtherLeases
    BY <1>0 DEF Request, Reuse, ForceNextSource, RestartSource, RequestStop, StopProceeds,
           RegisterClient, CloseClient, OtherSession
  <1>. QED  BY <1>1, <1>2, <1>3, <1>4, RequestsKeep

-----------------------------------------------------------------------------
(* The supervisor: cold starts. *)

(* No pipeline starts or stops, and no goroutine has one before or after   *)
(* its move: the supervisor thinks, waits or delegates.                    *)
LEMMA NothingInHand ==
    ASSUME SessionInv, SameFeed,
           producer' \in [Producers -> ProducerRows],
           \A p \in Producers : /\ producer'[p].phase = producer[p].phase
                                /\ producer'[p].bridged = producer[p].bridged,
           thr' \in [Threads -> ThreadRows],
           \A t \in Threads :
              \/ thr'[t] = thr[t]
              \/ /\ thr[t].prod = NoProducer /\ thr'[t].prod = NoProducer
                 /\ thr'[t].pc \in {"idle", "begin", "recheck", "err", "stopped", "stuck"},
           sources' \in SourceLists, forceNext' \in {"none", "next", "restart"},
           UNCHANGED <<current, others>>
    PROVE  SessionTypeOK' /\ HandsOK' /\ ActiveOK' /\ FeedOK' /\ Accounted'
  <1>1. SessionTypeOK'
    BY DEF SessionInv, SessionTypeOK, SameFeed
  <1>2. HandsOK'
    <2>1. ASSUME NEW t \in Threads PROVE HandOK(t)'
      <3>1. HandOK(t) /\ thr[t].prod \in Somebody
        BY ThreadRow DEF SessionInv, HandsOK
      <3>2. CASE thr'[t] = thr[t]
        <4>1. thr[t].prod # NoProducer => producer'[thr[t].prod].phase = producer[thr[t].prod].phase
          BY <3>1 DEF Somebody
        <4>. QED  BY <3>1, <3>2, <4>1 DEF HandOK
      <3>3. CASE /\ thr'[t].prod = NoProducer
                 /\ thr'[t].pc \in {"idle", "begin", "recheck", "err", "stopped", "stuck"}
        BY <3>3 DEF HandOK
      <3>. QED  BY <3>2, <3>3
    <2>2. ASSUME NEW x \in Threads, NEW y \in Threads, x # y, thr'[x].prod # NoProducer
          PROVE  thr'[x].prod # thr'[y].prod
      BY <2>2 DEF SessionInv, HandsOK
    <2>. QED  BY <2>1, <2>2 DEF HandsOK
  <1>3. Live => Active \in Producers
    BY DEF SessionInv, SessionTypeOK, SupRows, Somebody, ActiveOK, Active
  <1>4. ActiveOK'
    <2>1. Live => \A t \in Threads : thr'[t].prod # Active
      BY <1>3, IdentityAssumption DEF SessionInv, ActiveOK
    <2>. QED  BY <1>3, <2>1 DEF SessionInv, ActiveOK, SameFeed
  <1>5. FeedOK'
    <2>1. current \in Somebody
      BY DEF SessionInv, SessionTypeOK
    <2>. QED  BY <2>1 DEF SessionInv, FeedOK, SameFeed, Somebody
  <1>6. Accounted'
    <2> SUFFICES ASSUME NEW q \in Producers, producer[q].phase \in {"leased", "running"},
                        ~(Live /\ q = Active)
                 PROVE  \E s \in Threads : thr'[s].prod = q
      BY DEF Accounted, SameFeed
    <2>1. PICK s \in Threads : thr[s].prod = q
      BY DEF SessionInv, Accounted
    <2>2. thr'[s] = thr[s]
      BY <2>1, IdentityAssumption
    <2>. QED  BY <2>1, <2>2
  <1>. QED  BY <1>1, <1>2, <1>4, <1>5, <1>6

(* One goroutine moves, empty-handed. *)
LEMMA EmptyMove ==
    ASSUME SessionInv, SameFeed, NEW t \in Threads, NEW r \in ThreadRows, ThreadStep(t, r),
           thr[t].prod = NoProducer, r.prod = NoProducer,
           r.pc \in {"idle", "begin", "recheck", "err", "stopped", "stuck"},
           UNCHANGED <<sources, forceNext, current, producer, others>>
    PROVE  SessionTypeOK' /\ HandsOK' /\ ActiveOK' /\ FeedOK' /\ Accounted'
  <1>. /\ thr' \in [Threads -> ThreadRows]
       /\ thr'[t] = r /\ \A s \in Threads : s # t => thr'[s] = thr[s]
    BY ThreadMoves DEF SessionInv
  <1>. sources \in SourceLists /\ forceNext \in {"none", "next", "restart"}
       /\ producer \in [Producers -> ProducerRows]
    BY DEF SessionInv, SessionTypeOK
  <1>. QED  BY NothingInHand

(* No goroutine moves at all. *)
LEMMA StillHands ==
    ASSUME SessionInv, SameFeed,
           UNCHANGED <<sources, forceNext, current, producer, others, thr>>
    PROVE  SessionTypeOK' /\ HandsOK' /\ ActiveOK' /\ FeedOK' /\ Accounted'
  <1>. sources \in SourceLists /\ forceNext \in {"none", "next", "restart"}
       /\ producer \in [Producers -> ProducerRows] /\ thr \in [Threads -> ThreadRows]
    BY DEF SessionInv, SessionTypeOK
  <1>. QED  BY NothingInHand

(* The locals of the supervisor. *)
LEMMA SupRow ==
    ASSUME SessionInv
    PROVE  /\ sup \in SupRows /\ sup.pc \in SupPcs /\ sup.list \in SourceLists
           /\ sup.active \in Somebody /\ sup.next \in Nat /\ sup.attempt \in Nat
           /\ sup.target \in Nat /\ sup.reason \in Reasons /\ sup.stuck \in BOOLEAN
  BY DEF SessionInv, SessionTypeOK, SupRows

(* A new control state between which and the old one nothing is fed anew. *)
LEMMA GotoFeed ==
    ASSUME SessionInv, UNCHANGED everReady, sup' \in SupRows, sup'.active = sup.active,
           \/ ~Live /\ sup'.pc \notin {"monitor", "decide", "replace", "replaceHls", "drop",
                                       "promoted", "panic", "top"}
           \/ ~Live /\ sup'.pc = "top" /\ Active = NoProducer
           \/ Live /\ sup'.pc \in {"monitor", "decide", "replace", "replaceHls", "drop",
                                   "promoted", "panic", "top"},
           sup'.pc \in {"cold", "race", "raceBoth", "retryWait", "failWait"} => Active = NoProducer
    PROVE  SameFeed
  <1>1. Live => Active # NoProducer
    BY DEF SessionInv, ActiveOK
  <1>. QED  BY <1>1 DEF SameFeed, Live, Active

LEMMA KeepsHedgeColdStart ==
    ASSUME SessionInv, HedgeColdStart
    PROVE  SessionInv'
  <1>1. PICK r : r = Begin(Following(sup.list, sup.next))
    OBVIOUS
  <1>2. r \in ThreadRows /\ r.pc = "begin" /\ r.prod = NoProducer
    BY <1>1, BeginRow, SupRow, FollowingIsNat
  <1>3. /\ sup.pc = "race" /\ sup' = [sup EXCEPT !.pc = "raceBoth"] /\ ThreadStep("second", r)
        /\ UNCHANGED <<sources, forceNext, current, producer, others, everReady>>
    BY <1>1 DEF HedgeColdStart, Goto, shared, requests
  <1>4. sup' \in SupRows /\ sup'.pc = "raceBoth" /\ sup'.active = sup.active
    BY <1>3, SupRow DEF SupRows, SupPcs
  <1>5. SameFeed
    BY <1>3, <1>4, GotoFeed DEF Live, SessionInv, ActiveOK
  <1>6. "second" \in Threads /\ thr["second"].pc = "idle"
    BY <1>3 DEF Threads, SessionInv, RaceOK
  <1>7. thr["second"].prod = NoProducer
    BY <1>6 DEF SessionInv, HandsOK, HandOK
  <1>8. SessionTypeOK' /\ HandsOK' /\ ActiveOK' /\ FeedOK' /\ Accounted'
    BY <1>2, <1>3, <1>5, <1>6, <1>7, EmptyMove
  <1>9. thr'["run"] = thr["run"]
    BY <1>2, <1>3, <1>6, ThreadMoves DEF SessionInv, Threads
  <1>10. RunOK' /\ RaceOK'
    BY <1>3, <1>4, <1>9 DEF SessionInv, RunOK, RaceOK
  <1>. QED  BY <1>8, <1>10 DEF SessionInv

LEMMA KeepsPrimaryFails ==
    ASSUME SessionInv, PrimaryFails
    PROVE  SessionInv'
  <1>1. PICK r : r = Begin(Following(sup.list, sup.next))
    OBVIOUS
  <1>2. r \in ThreadRows /\ r.pc = "begin" /\ r.prod = NoProducer
    BY <1>1, BeginRow, SupRow, FollowingIsNat
  <1>3. /\ sup.pc = "race" /\ sup' = [sup EXCEPT !.pc = "cold"] /\ thr["first"].pc = "err"
        /\ thr' = [thr EXCEPT !["first"] = Idle, !["run"] = r]
        /\ UNCHANGED <<sources, forceNext, current, producer, others, everReady>>
    BY <1>1 DEF PrimaryFails, Goto, shared, requests
  <1>4. sup' \in SupRows /\ sup'.pc = "cold" /\ sup'.active = sup.active
    BY <1>3, SupRow DEF SupRows, SupPcs
  <1>5. SameFeed
    BY <1>3, <1>4, GotoFeed DEF Live, SessionInv, ActiveOK
  <1>6. /\ thr' \in [Threads -> ThreadRows]
        /\ thr'["first"] = Idle /\ thr'["run"] = r /\ thr'["second"] = thr["second"]
    BY <1>2, <1>3, IdleRow DEF SessionInv, SessionTypeOK, Threads
  <1>7. /\ thr["first"].prod = NoProducer /\ thr["run"].prod = NoProducer
        /\ thr["second"].pc = "idle"
    BY <1>3 DEF SessionInv, HandsOK, HandOK, RunOK, RaceOK, Threads
  <1>8. SessionTypeOK' /\ HandsOK' /\ ActiveOK' /\ FeedOK' /\ Accounted'
    <2>1. \A t \in Threads :
              \/ thr'[t] = thr[t]
              \/ /\ thr[t].prod = NoProducer /\ thr'[t].prod = NoProducer
                 /\ thr'[t].pc \in {"idle", "begin", "recheck", "err", "stopped", "stuck"}
      BY <1>2, <1>6, <1>7, IdleRow DEF Threads
    <2>2. sources \in SourceLists /\ forceNext \in {"none", "next", "restart"}
          /\ producer \in [Producers -> ProducerRows]
      BY DEF SessionInv, SessionTypeOK
    <2>. QED  BY <1>3, <1>5, <1>6, <2>1, <2>2, NothingInHand
  <1>9. RunOK' /\ RaceOK'
    BY <1>3, <1>4, <1>6, <1>7, IdleRow DEF RunOK, RaceOK, Racers
  <1>. QED  BY <1>8, <1>9 DEF SessionInv

LEMMA KeepsRacerFails ==
    ASSUME SessionInv, NEW t \in Racers, RacerFails(t)
    PROVE  SessionInv'
  <1>. t \in Threads /\ t # "run"
    BY DEF Racers, Threads
  <1>1. /\ sup.pc = "raceBoth" /\ thr[t].pc = "err" /\ ThreadStep(t, Idle)
        /\ UNCHANGED <<sources, forceNext, current, producer, others, everReady>>
    BY DEF RacerFails, shared, requests
  <1>2. PICK o \in BOOLEAN : o = (sup.stuck \/ thr[t].err = "stuck")
    BY SupRow
  <1>3. sup' = [sup EXCEPT !.stuck = o]
    BY <1>2, SupRow DEF RacerFails, SupRows
  <1>4. sup' \in SupRows /\ sup'.pc = "raceBoth" /\ sup'.active = sup.active
    BY <1>1, <1>3, SupRow DEF SupRows, SupPcs
  <1>5. SameFeed
    BY <1>1, <1>4, GotoFeed DEF Live, SessionInv, ActiveOK
  <1>6. thr[t].prod = NoProducer
    BY <1>1 DEF SessionInv, HandsOK, HandOK
  <1>7. SessionTypeOK' /\ HandsOK' /\ ActiveOK' /\ FeedOK' /\ Accounted'
    BY <1>1, <1>5, <1>6, IdleRow, EmptyMove
  <1>8. thr'["run"] = thr["run"]
    BY <1>1, IdleRow, ThreadMoves DEF SessionInv, Threads
  <1>9. RunOK' /\ RaceOK'
    BY <1>1, <1>4, <1>8 DEF SessionInv, RunOK, RaceOK
  <1>. QED  BY <1>7, <1>9 DEF SessionInv

(* A cold start is begun by the supervisor or, in a race, by a goroutine. *)
LEMMA KeepsColdStart ==
    ASSUME SessionInv, ~Live, Active = NoProducer,
           thr["run"].pc = "idle", sup.pc \notin {"race", "raceBoth"},
           NEW list \in SourceLists, NEW i \in Nat, NEW attempt \in Nat,
           ColdStart(list, i, attempt),
           UNCHANGED <<sources, forceNext, current, producer, others, everReady>>
    PROVE  SessionInv'
  <1>1. PICK race \in BOOLEAN : race = (scenario.coldRace /\ ~everReady /\ Len(list) > 1)
    OBVIOUS
  <1>2. /\ ThreadStep(IF race THEN "first" ELSE "run", Begin(i))
        /\ sup' = [sup EXCEPT !.pc = IF race THEN "race" ELSE "cold", !.list = list,
                              !.next = i, !.attempt = attempt, !.target = 1,
                              !.reason = "none", !.stuck = FALSE]
    BY <1>1 DEF ColdStart
  <1>3. sup' \in SupRows /\ sup'.pc = (IF race THEN "race" ELSE "cold") /\ sup'.active = sup.active
    <2>1. PICK pc \in SupPcs : pc = IF race THEN "race" ELSE "cold"
      BY DEF SupPcs
    <2>2. PICK o \in BOOLEAN : o = FALSE
      OBVIOUS
    <2>3. sup' = [sup EXCEPT !.pc = pc, !.list = list, !.next = i, !.attempt = attempt,
                             !.target = 1, !.reason = "none", !.stuck = o]
      BY <1>2, <2>1, <2>2
    <2>. QED  BY <2>1, <2>3, SupRow DEF SupRows, Reasons
  <1>4. SameFeed
    BY <1>3, GotoFeed
  <1>5. race => ~everReady /\ \A t \in Racers : thr[t].pc = "idle"
    BY <1>1 DEF SessionInv, RaceOK
  <1>6. PICK t \in Threads : t = IF race THEN "first" ELSE "run"
    BY DEF Threads
  <1>7. thr[t].pc = "idle" /\ thr[t].prod = NoProducer
    <2>1. thr[t].pc = "idle"
      BY <1>5, <1>6 DEF Racers
    <2>. QED  BY <2>1 DEF SessionInv, HandsOK, HandOK
  <1>8. SessionTypeOK' /\ HandsOK' /\ ActiveOK' /\ FeedOK' /\ Accounted'
    BY <1>2, <1>4, <1>6, <1>7, BeginRow, EmptyMove
  <1>9. \A s \in Threads : s # t => thr'[s] = thr[s]
    BY <1>2, <1>6, BeginRow, ThreadMoves DEF SessionInv
  <1>10. RunOK'
    BY <1>3, <1>6, <1>9 DEF SessionInv, RunOK, Threads
  <1>11. RaceOK'
    BY <1>3, <1>5, <1>6, <1>9 DEF SessionInv, RaceOK, Threads, Racers
  <1>. QED  BY <1>8, <1>10, <1>11 DEF SessionInv

-----------------------------------------------------------------------------
(* The supervisor: the head of its loop and what a cold start comes to. *)

LEMMA GotoRow ==
    ASSUME SessionInv, NEW pc \in SupPcs, Goto(pc)
    PROVE  sup' \in SupRows /\ sup'.pc = pc /\ sup'.active = sup.active
  BY SupRow DEF Goto, SupRows

(* The supervisor moves to pc; its own goroutine slot is as pc wants it. *)
LEMMA KeepsSupMove ==
    ASSUME SessionInv, SameFeed, NEW pc \in SupPcs, sup'.pc = pc,
           pc \in {"top", "monitor", "decide", "retryWait", "failWait", "ending", "ended",
                   "gone", "panic"},
           sup.pc \notin {"race", "raceBoth"}, thr["run"].pc = "idle",
           UNCHANGED <<sources, current, producer, others, thr>>,
           forceNext' \in {"none", "next", "restart"}
    PROVE  SessionInv'
  <1>. sources \in SourceLists /\ producer \in [Producers -> ProducerRows]
       /\ thr \in [Threads -> ThreadRows]
    BY DEF SessionInv, SessionTypeOK
  <1>1. SessionTypeOK' /\ HandsOK' /\ ActiveOK' /\ FeedOK' /\ Accounted'
    BY NothingInHand
  <1>2. RunOK' /\ RaceOK'
    BY DEF SessionInv, RunOK, RaceOK, SameFeed
  <1>. QED  BY <1>1, <1>2 DEF SessionInv

(* The same when the supervisor's own attempt or stop is over. *)
LEMMA KeepsRunDone ==
    ASSUME SessionInv, SameFeed, NEW t \in Threads, ThreadStep(t, Idle),
           thr[t].prod = NoProducer,
           sup'.pc \in {"top", "monitor", "decide", "retryWait", "failWait", "ending", "ended",
                        "gone", "panic"},
           thr'["run"].pc = "idle",
           ~everReady => \A s \in Racers : thr'[s].pc = "idle",
           UNCHANGED <<sources, forceNext, current, producer, others>>
    PROVE  SessionInv'
  <1>1. SessionTypeOK' /\ HandsOK' /\ ActiveOK' /\ FeedOK' /\ Accounted'
    BY IdleRow, EmptyMove
  <1>2. RunOK' /\ RaceOK'
    BY DEF SessionInv, RunOK, RaceOK, SameFeed
  <1>. QED  BY <1>1, <1>2 DEF SessionInv

LEMMA KeepsLoopTop ==
    ASSUME SessionInv, LoopTop
    PROVE  SessionInv'
  <1>1. /\ sup.pc = "top" /\ thr["run"].pc = "idle"
        /\ UNCHANGED <<sources, forceNext, current, producer, others, everReady>>
    BY DEF LoopTop, shared, requests, SessionInv, RunOK
  <1>2. PICK i \in Nat : i = IF sup.next > Len(sources) THEN 1 ELSE sup.next
    BY SupRow
  <1>3. sources \in SourceLists /\ forceNext \in {"none", "next", "restart"}
    BY DEF SessionInv, SessionTypeOK
  <1>4. CASE /\ Active # NoProducer
             /\ sup' = [sup EXCEPT !.pc = "monitor", !.list = sources,
                                   !.target = 1, !.reason = "none"]
             /\ UNCHANGED thr
    <2>1. sup' \in SupRows /\ sup'.pc = "monitor" /\ sup'.active = sup.active
      BY <1>3, <1>4, SupRow DEF SupRows, SupPcs, Reasons
    <2>2. SameFeed
      BY <1>1, <1>4, <2>1, GotoFeed DEF Live
    <2>. QED  BY <1>1, <1>3, <1>4, <2>1, <2>2, KeepsSupMove DEF SupPcs
  <1>5. CASE Active = NoProducer /\ ColdStart(sources, i, sup.attempt)
    BY <1>1, <1>3, <1>5, SupRow, KeepsColdStart DEF Live
  <1>6. CASE Active = NoProducer /\ Finish("failed") /\ UNCHANGED thr
    <2>1. sup' \in SupRows /\ sup'.pc = "ending" /\ sup'.active = sup.active
      BY <1>6, GotoRow DEF Finish, SupPcs
    <2>2. SameFeed
      BY <1>1, <1>6, <2>1, GotoFeed DEF Live
    <2>. QED  BY <1>1, <1>3, <1>6, <2>1, <2>2, KeepsSupMove DEF SupPcs
  <1>7. CASE /\ Active = NoProducer
             /\ sup' = [sup EXCEPT !.pc = "retryWait", !.list = sources, !.next = i]
             /\ UNCHANGED thr
    <2>1. sup' \in SupRows /\ sup'.pc = "retryWait" /\ sup'.active = sup.active
      BY <1>3, <1>7, SupRow DEF SupRows, SupPcs
    <2>2. SameFeed
      BY <1>1, <1>7, <2>1, GotoFeed DEF Live
    <2>. QED  BY <1>1, <1>3, <1>7, <2>1, <2>2, KeepsSupMove DEF SupPcs
  <1>. QED  BY <1>2, <1>4, <1>5, <1>6, <1>7 DEF LoopTop

LEMMA KeepsBackoffEnds ==
    ASSUME SessionInv, BackoffEnds
    PROVE  SessionInv'
  <1>1. /\ sup.pc \in {"retryWait", "failWait"} /\ thr["run"].pc = "idle"
        /\ UNCHANGED <<sources, forceNext, current, producer, others, everReady>>
    BY DEF BackoffEnds, shared, requests, SessionInv, RunOK
  <1>2. ~Live /\ Active = NoProducer
    BY <1>1 DEF Live, SessionInv, ActiveOK
  <1>3. forceNext \in {"none", "next", "restart"}
    BY DEF SessionInv, SessionTypeOK
  <1>4. CASE ColdStart(sup.list, sup.next, 0)
    BY <1>1, <1>2, <1>4, SupRow, KeepsColdStart
  <1>5. ASSUME NEW pc \in {"top", "ending"}, Goto(pc), UNCHANGED thr
        PROVE  SessionInv'
    <2>1. pc \in SupPcs
      BY DEF SupPcs
    <2>2. sup' \in SupRows /\ sup'.pc = pc /\ sup'.active = sup.active
      BY <1>5, <2>1, GotoRow
    <2>3. SameFeed
      BY <1>1, <1>2, <2>2, GotoFeed
    <2>. QED  BY <1>1, <1>3, <1>5, <2>1, <2>2, <2>3, KeepsSupMove
  <1>. QED  BY <1>4, <1>5 DEF BackoffEnds, Finish

LEMMA KeepsColdFails ==
    ASSUME SessionInv, NEW t \in Threads, ColdFails(t)
    PROVE  SessionInv'
  <1>1. /\ Decides(t) /\ thr[t].pc = "err" /\ ThreadStep(t, Idle)
        /\ UNCHANGED <<sources, forceNext, current, producer, others, everReady>>
    BY DEF ColdFails, shared, requests
  <1>2. sup.pc \in {"cold", "raceBoth"}
    BY <1>1 DEF Decides
  <1>3. ~Live /\ Active = NoProducer /\ thr[t].prod = NoProducer
    BY <1>1, <1>2 DEF Live, SessionInv, ActiveOK, HandsOK, HandOK
  <1>4. /\ thr'[t] = Idle /\ \A s \in Threads : s # t => thr'[s] = thr[s]
    BY <1>1, IdleRow, ThreadMoves DEF SessionInv
  <1>5. thr'["run"].pc = "idle"
    BY <1>1, <1>2, <1>4, IdleRow DEF Decides, SessionInv, RunOK, Threads
  <1>6. ~everReady => \A s \in Racers : thr'[s].pc = "idle"
    <2>1. CASE sup.pc = "cold"
      BY <1>1, <1>4, <2>1, IdleRow DEF SessionInv, RaceOK, Racers, Threads
    <2>2. CASE sup.pc = "raceBoth"
      BY <1>1, <1>4, <2>2, IdleRow DEF Decides, Racers, Threads
    <2>. QED  BY <1>2, <2>1, <2>2
  <1>7. sup' \in SupRows /\ sup'.pc \in {"ending", "failWait", "top"} /\ sup'.active = sup.active
    <2>1. CASE Goto("ending")
      BY <2>1, GotoRow DEF SupPcs
    <2>2. CASE sup' = [sup EXCEPT !.pc = IF Following(sup.list, sup.next) = 1 THEN "failWait" ELSE "top",
                                  !.next = Following(sup.list, sup.next), !.attempt = @ + 1]
      <3>1. PICK i \in Nat : i = Following(sup.list, sup.next)
        BY SupRow, FollowingIsNat
      <3>2. PICK pc \in {"failWait", "top"} : pc = IF i = 1 THEN "failWait" ELSE "top"
        OBVIOUS
      <3>3. PICK n \in Nat : n = sup.attempt + 1
        BY SupRow
      <3>4. sup' = [sup EXCEPT !.pc = pc, !.next = i, !.attempt = n]
        BY <2>2, <3>1, <3>2, <3>3, SupRow DEF SupRows
      <3>. QED  BY <3>4, SupRow DEF SupRows, SupPcs
    <2>. QED  BY <2>1, <2>2 DEF ColdFails, Finish
  <1>8. SameFeed
    BY <1>1, <1>3, <1>7, GotoFeed
  <1>. QED  BY <1>1, <1>3, <1>5, <1>6, <1>7, <1>8, KeepsRunDone

(* The first promotion. *)
LEMMA KeepsColdSucceeds ==
    ASSUME SessionInv, NEW t \in Threads, ColdSucceeds(t)
    PROVE  SessionInv'
  <1>1. PICK p : p = thr[t].prod
    OBVIOUS
  <1>2. /\ Decides(t) /\ thr[t].pc = "ok" /\ ThreadStep(t, Idle)
        /\ producer' = [producer EXCEPT ![p].bridged = TRUE]
        /\ current' = p /\ everReady' = TRUE
        /\ UNCHANGED <<sources, forceNext, others>>
    BY <1>1 DEF ColdSucceeds, Promote, shared, requests
  <1>3. p \in Producers /\ p # NoProducer /\ producer[p].phase = "running"
    BY <1>1, <1>2, HandFull
  <1>4. sup.pc \in {"cold", "race", "raceBoth"}
    BY <1>2 DEF Decides
  <1>5. ~Live
    BY <1>4 DEF Live
  <1>6. /\ thr' \in [Threads -> ThreadRows]
        /\ thr'[t] = Idle /\ \A s \in Threads : s # t => thr'[s] = thr[s]
    BY <1>2, IdleRow, ThreadMoves DEF SessionInv
  <1>7. PICK o \in BOOLEAN : o = TRUE
    OBVIOUS
  <1>8. PICK row : row = [producer[p] EXCEPT !.bridged = o]
    OBVIOUS
  <1>9. row \in ProducerRows /\ row.phase = "running" /\ row.bridged = TRUE
    BY <1>3, <1>7, <1>8, ProducerRow DEF ProducerRows, SessionInv
  <1>10. /\ producer' \in [Producers -> ProducerRows] /\ producer'[p] = row
         /\ \A q \in Producers : q # p => producer'[q] = producer[q]
    BY <1>2, <1>3, <1>7, <1>8, <1>9 DEF SessionInv, SessionTypeOK
  <1>11. sup' \in SupRows /\ sup'.pc = "monitor" /\ sup'.active = p
    <2>1. PICK f \in BOOLEAN : f = FALSE
      OBVIOUS
    <2>2. sup' = [sup EXCEPT !.pc = "monitor", !.active = p, !.attempt = 0, !.next = 1, !.stuck = f]
      BY <1>1, <2>1 DEF ColdSucceeds
    <2>. QED  BY <1>3, <2>2, SupRow DEF SupRows, SupPcs, Somebody
  <1>12. Live' /\ Active' = p
    BY <1>11 DEF Live, Active
  <1>13. SessionTypeOK'
    BY <1>2, <1>3, <1>6, <1>10, <1>11 DEF SessionInv, SessionTypeOK, Somebody
  <1>14. \A s \in Threads : s # t => thr[s].prod # p
    BY <1>1, <1>3 DEF SessionInv, HandsOK
  <1>15. HandsOK'
    <2>1. ASSUME NEW s \in Threads PROVE HandOK(s)'
      <3>1. CASE s = t
        BY <1>6, <3>1, IdleRow DEF HandOK
      <3>2. CASE s # t
        <4>1. thr[s].prod \in Somebody /\ thr[s].prod # p
          BY <1>14, <3>2, ThreadRow DEF SessionInv
        <4>. QED  BY <1>6, <1>10, <3>2, <4>1, HandStays DEF Somebody
      <3>. QED  BY <3>1, <3>2
    <2>2. ASSUME NEW x \in Threads, NEW y \in Threads, x # y, thr'[x].prod # NoProducer
          PROVE  thr'[x].prod # thr'[y].prod
      BY <1>6, <2>2, IdleRow DEF SessionInv, HandsOK
    <2>. QED  BY <2>1, <2>2 DEF HandsOK
  <1>16. ActiveOK'
    <2>1. \A s \in Threads : thr'[s].prod # p
      BY <1>3, <1>6, <1>14, IdleRow
    <2>. QED  BY <1>2, <1>3, <1>9, <1>10, <1>11, <1>12, <2>1 DEF ActiveOK
  <1>17. FeedOK'
    BY <1>2, <1>5, <1>10, <1>12 DEF SessionInv, FeedOK
  <1>18. Accounted'
    <2> SUFFICES ASSUME NEW q \in Producers, producer'[q].phase \in {"leased", "running"}, q # p
                 PROVE  \E s \in Threads : thr'[s].prod = q
      BY <1>12 DEF Accounted
    <2>1. PICK s \in Threads : thr[s].prod = q
      BY <1>5, <1>10 DEF SessionInv, Accounted
    <2>. QED  BY <1>1, <1>6, <2>1
  <1>19. RunOK'
    BY <1>2, <1>4, <1>6, <1>11, IdleRow DEF SessionInv, RunOK, Decides, Threads
  <1>20. RaceOK'
    BY <1>2, <1>11 DEF RaceOK
  <1>. QED  BY <1>13, <1>15, <1>16, <1>17, <1>18, <1>19, <1>20 DEF SessionInv

-----------------------------------------------------------------------------
(* The supervisor: monitoring, replacement, exit. *)

(* The supervisor lets go of the active producer and waits for its cleanup. *)
LEMMA KeepsStopActive ==
    ASSUME SessionInv, Live, thr["run"].prod = NoProducer,
           producer' = Quiesce(Active), ThreadStep("run", Stopping(Active)),
           sup' \in SupRows, sup'.pc \in {"break", "exit"}, sup'.active = sup.active,
           UNCHANGED <<sources, forceNext, current, everReady, others>>
    PROVE  SessionInv'
  <1>1. PICK p : p = Active
    OBVIOUS
  <1>2. /\ p \in Producers /\ p # NoProducer /\ current = p
        /\ \A s \in Threads : thr[s].prod # p
    BY <1>1 DEF SessionInv, SessionTypeOK, SupRows, Somebody, ActiveOK, Active
  <1>3. /\ producer' \in [Producers -> ProducerRows]
        /\ producer'[p].phase = "stopping" /\ producer'[p].bridged = FALSE
        /\ \A q \in Producers : q # p => producer'[q] = producer[q]
    BY <1>1, <1>2, QuiesceMoves DEF SessionInv
  <1>4. /\ thr' \in [Threads -> ThreadRows] /\ thr'["run"] = Stopping(p)
        /\ \A s \in Threads : s # "run" => thr'[s] = thr[s]
    BY <1>1, <1>2, StoppingRow, ThreadMoves DEF SessionInv, Threads
  <1>5. ~Live' /\ Active' = p
    BY <1>1 DEF Live, Active
  <1>6. SessionTypeOK'
    BY <1>3, <1>4 DEF SessionInv, SessionTypeOK
  <1>7. HandsOK'
    <2>1. ASSUME NEW s \in Threads PROVE HandOK(s)'
      <3>1. CASE s = "run"
        BY <1>2, <1>3, <1>4, <3>1, StoppingRow DEF HandOK
      <3>2. CASE s # "run"
        <4>1. thr[s].prod \in Somebody /\ thr[s].prod # p
          BY <1>2, ThreadRow DEF SessionInv
        <4>. QED  BY <1>3, <1>4, <3>2, <4>1, HandStays DEF Somebody
      <3>. QED  BY <3>1, <3>2
    <2>2. ASSUME NEW x \in Threads, NEW y \in Threads, x # y, thr'[x].prod # NoProducer
          PROVE  thr'[x].prod # thr'[y].prod
      BY <1>2, <1>4, <2>2, StoppingRow DEF SessionInv, HandsOK
    <2>. QED  BY <2>1, <2>2 DEF HandsOK
  <1>8. ActiveOK'
    BY <1>5 DEF ActiveOK
  <1>9. FeedOK'
    BY <1>1, <1>2, <1>3 DEF SessionInv, FeedOK
  <1>10. Accounted'
    <2> SUFFICES ASSUME NEW q \in Producers, producer'[q].phase \in {"leased", "running"}
                 PROVE  \E s \in Threads : thr'[s].prod = q
      BY DEF Accounted
    <2>1. q # p
      BY <1>3
    <2>2. PICK s \in Threads : thr[s].prod = q
      BY <1>1, <1>3, <2>1 DEF SessionInv, Accounted
    <2>3. s # "run"
      BY <2>2, IdentityAssumption
    <2>. QED  BY <1>4, <2>2, <2>3
  <1>11. RunOK'
    BY <1>2, <1>4, StoppingRow DEF RunOK
  <1>12. RaceOK'
    <2>1. ~everReady => \A s \in Racers : thr[s].pc = "idle"
      BY DEF SessionInv, RaceOK, Live
    <2>. QED  BY <1>4, <2>1 DEF RaceOK, Racers, Threads
  <1>. QED  BY <1>6, <1>7, <1>8, <1>9, <1>10, <1>11, <1>12 DEF SessionInv

(* The flags of a producer. *)
LEMMA FlagMoves ==
    ASSUME SessionInv, NEW p \in Producers, NEW o \in BOOLEAN,
           \/ producer' = [producer EXCEPT ![p].failed = o]
           \/ producer' = [producer EXCEPT ![p].hedged = o]
    PROVE  /\ producer' \in [Producers -> ProducerRows]
           /\ \A q \in Producers : /\ producer'[q].phase = producer[q].phase
                                   /\ producer'[q].bridged = producer[q].bridged
  <1>1. PICK row : /\ producer' = [producer EXCEPT ![p] = row]
                   /\ \/ row = [producer[p] EXCEPT !.failed = o]
                      \/ row = [producer[p] EXCEPT !.hedged = o]
    OBVIOUS
  <1>2. /\ row \in ProducerRows /\ row.phase = producer[p].phase
        /\ row.bridged = producer[p].bridged
    BY <1>1, ProducerRow DEF ProducerRows, SessionInv
  <1>. QED  BY <1>1, <1>2 DEF SessionInv, SessionTypeOK

(* The active producer's flags change, and the supervisor moves. *)
LEMMA KeepsFlags ==
    ASSUME SessionInv, SameFeed, Live,
           \/ UNCHANGED producer
           \/ \E o \in BOOLEAN : \/ producer' = [producer EXCEPT ![Active].failed = o]
                                 \/ producer' = [producer EXCEPT ![Active].hedged = o],
           \/ UNCHANGED thr
           \/ ThreadStep("run", Idle) /\ thr["run"].prod = NoProducer,
           sup'.pc \in {"top", "monitor", "decide"}, thr'["run"].pc = "idle",
           UNCHANGED <<sources, current, others>>,
           forceNext' \in {"none", "next", "restart"}
    PROVE  SessionInv'
  <1>0. Active \in Producers
    BY DEF SessionInv, SessionTypeOK, SupRows, Somebody, ActiveOK, Active
  <1>1. /\ producer' \in [Producers -> ProducerRows]
        /\ \A q \in Producers : /\ producer'[q].phase = producer[q].phase
                                /\ producer'[q].bridged = producer[q].bridged
    BY <1>0, FlagMoves DEF SessionInv, SessionTypeOK
  <1>2. /\ thr' \in [Threads -> ThreadRows]
        /\ \A s \in Threads : s # "run" => thr'[s] = thr[s]
        /\ \/ thr'["run"] = thr["run"]
           \/ thr'["run"] = Idle /\ thr["run"].prod = NoProducer
    <2>1. CASE UNCHANGED thr
      BY <2>1 DEF SessionInv, SessionTypeOK
    <2>2. CASE ThreadStep("run", Idle) /\ thr["run"].prod = NoProducer
      <3>1. "run" \in Threads
        BY DEF Threads
      <3>. QED  BY <2>2, <3>1, IdleRow, ThreadMoves DEF SessionInv
    <2>. QED  BY <2>1, <2>2
  <1>3. \A t \in Threads :
              \/ thr'[t] = thr[t]
              \/ /\ thr[t].prod = NoProducer /\ thr'[t].prod = NoProducer
                 /\ thr'[t].pc \in {"idle", "begin", "recheck", "err", "stopped", "stuck"}
    BY <1>2, IdleRow
  <1>. sources' \in SourceLists
    BY DEF SessionInv, SessionTypeOK
  <1>4. SessionTypeOK' /\ HandsOK' /\ ActiveOK' /\ FeedOK' /\ Accounted'
    BY <1>1, <1>2, <1>3, NothingInHand
  <1>5. RunOK'
    BY DEF RunOK
  <1>6. RaceOK'
    <2>1. ~everReady => \A s \in Racers : thr[s].pc = "idle"
      BY DEF SessionInv, RaceOK, Live
    <2>. QED  BY <1>2, <2>1 DEF RaceOK, Racers, Threads, SameFeed
  <1>. QED  BY <1>4, <1>5, <1>6 DEF SessionInv

LEMMA KeepsMonitor ==
    ASSUME SessionInv, Monitor
    PROVE  SessionInv'
  <1>1. /\ sup.pc = "monitor" /\ thr["run"].pc = "idle" /\ thr["run"].prod = NoProducer /\ Live
        /\ UNCHANGED <<sources, current, others, everReady>>
    BY DEF Monitor, SessionInv, RunOK, Live, HandsOK, HandOK, Threads
  <1>2. forceNext \in {"none", "next", "restart"}
    BY DEF SessionInv, SessionTypeOK
  <1>3. ASSUME NEW reason \in Reasons, sup' = [sup EXCEPT !.pc = "decide", !.reason = reason]
        PROVE  SameFeed /\ sup'.pc = "decide"
    <2>1. sup' \in SupRows /\ sup'.pc = "decide" /\ sup'.active = sup.active
      BY <1>3, SupRow DEF SupRows, SupPcs
    <2>. QED  BY <1>1, <2>1, GotoFeed
  <1>4. CASE /\ producer' = [producer EXCEPT ![Active].failed = FALSE]
             /\ sup' = [sup EXCEPT !.pc = "decide", !.reason = "error"]
             /\ UNCHANGED <<forceNext, thr>>
    BY <1>1, <1>2, <1>3, <1>4, KeepsFlags DEF Reasons
  <1>5. CASE /\ forceNext # "none" /\ forceNext' = "none"
             /\ sup' = [sup EXCEPT !.pc = "decide", !.reason = forceNext]
             /\ UNCHANGED <<producer, thr>>
    BY <1>1, <1>2, <1>3, <1>5, KeepsFlags DEF Reasons
  <1>6. CASE /\ sup' = [sup EXCEPT !.pc = "decide", !.reason = "hedge"]
             /\ UNCHANGED <<forceNext, producer, thr>>
    BY <1>1, <1>2, <1>3, <1>6, KeepsFlags DEF Reasons
  <1>7. CASE /\ producer' = [producer EXCEPT ![Active].hedged = FALSE]
             /\ UNCHANGED <<forceNext, sup, thr>>
    <2>1. SameFeed
      BY <1>1, <1>7, SameSupervisor
    <2>. QED  BY <1>1, <1>2, <1>7, <2>1, KeepsFlags
  <1>8. CASE StopAndWait(Active, "exit") /\ UNCHANGED forceNext
    BY <1>1, <1>8, GotoRow, KeepsStopActive DEF StopAndWait, SupPcs
  <1>. QED  BY <1>4, <1>5, <1>6, <1>7, <1>8 DEF Monitor

LEMMA KeepsDecide ==
    ASSUME SessionInv, Decide
    PROVE  SessionInv'
  <1>1. /\ sup.pc = "decide" /\ thr["run"].pc = "idle" /\ thr["run"].prod = NoProducer /\ Live
        /\ "run" \in Threads
        /\ UNCHANGED <<sources, current, others, everReady, forceNext>>
    BY DEF Decide, SessionInv, RunOK, Live, HandsOK, HandOK, Threads
  <1>2. forceNext \in {"none", "next", "restart"} /\ Active \in Producers
    BY <1>1 DEF SessionInv, SessionTypeOK, SupRows, Somebody, ActiveOK, Active
  <1>3. CASE StopAndWait(Active, "exit")
    BY <1>1, <1>3, GotoRow, KeepsStopActive DEF StopAndWait, SupPcs
  <1>4. PICK target \in Nat :
          target = IF restartSource THEN producer[Active].idx ELSE Following(sup.list, producer[Active].idx)
    BY <1>2, ProducerRow, SupRow, FollowingIsNat DEF SessionInv
  <1>5. CASE /\ producer' = Quiesce(Active) /\ ThreadStep("run", Stopping(Active))
             /\ sup' = [sup EXCEPT !.pc = "break", !.target = target]
    <2>1. sup' \in SupRows /\ sup'.pc = "break" /\ sup'.active = sup.active
      BY <1>5, SupRow DEF SupRows, SupPcs
    <2>. QED  BY <1>1, <1>5, <2>1, KeepsStopActive
  <1>6. CASE /\ ThreadStep("run", Begin(target)) /\ UNCHANGED producer
             /\ sup' = [sup EXCEPT !.pc = "replace", !.target = target]
    <2>1. sup' \in SupRows /\ sup'.pc = "replace" /\ sup'.active = sup.active
      BY <1>6, SupRow DEF SupRows, SupPcs
    <2>2. SameFeed
      BY <1>1, <2>1, GotoFeed
    <2>3. SessionTypeOK' /\ HandsOK' /\ ActiveOK' /\ FeedOK' /\ Accounted'
      BY <1>1, <1>6, <2>2, BeginRow, EmptyMove
    <2>4. RunOK'
      BY <2>1 DEF RunOK
    <2>5. RaceOK'
      <3>1. \A s \in Threads : s # "run" => thr'[s] = thr[s]
        BY <1>1, <1>6, BeginRow, ThreadMoves DEF SessionInv
      <3>. QED  BY <1>1, <2>1, <3>1 DEF SessionInv, RaceOK, Racers, Threads
    <2>. QED  BY <2>3, <2>4, <2>5 DEF SessionInv
  <1>7. CASE Goto("panic") /\ UNCHANGED <<producer, thr>>
    <2>1. sup' \in SupRows /\ sup'.pc = "panic" /\ sup'.active = sup.active
      BY <1>7, GotoRow DEF SupPcs
    <2>2. SameFeed
      BY <1>1, <2>1, GotoFeed
    <2>. QED  BY <1>1, <1>2, <1>7, <2>1, <2>2, KeepsSupMove DEF SupPcs
  <1>. QED  BY <1>3, <1>4, <1>5, <1>6, <1>7 DEF Decide

LEMMA KeepsAwaitHls ==
    ASSUME SessionInv, AwaitHls
    PROVE  SessionInv'
  <1>1. /\ sup.pc = "replace" /\ thr["run"].pc = "ok" /\ Live /\ Goto("replaceHls")
        /\ UNCHANGED <<sources, current, others, everReady, forceNext, producer, thr>>
    BY DEF AwaitHls, Live, shared, requests
  <1>2. sup' \in SupRows /\ sup'.pc = "replaceHls" /\ sup'.active = sup.active
    BY <1>1, GotoRow DEF SupPcs
  <1>3. SameFeed
    BY <1>1, <1>2, GotoFeed
  <1>4. SessionTypeOK' /\ HandsOK' /\ ActiveOK' /\ FeedOK' /\ Accounted'
    BY <1>1, <1>3, StillHands
  <1>5. RunOK' /\ RaceOK'
    BY <1>1, <1>2 DEF SessionInv, RunOK, RaceOK
  <1>. QED  BY <1>4, <1>5 DEF SessionInv

(* The candidate is dropped, the active producer goes on. *)
LEMMA KeepsHlsFails ==
    ASSUME SessionInv, HlsFails
    PROVE  SessionInv'
  <1>1. /\ sup.pc = "replaceHls" /\ thr["run"].pc = "ok" /\ Live /\ Goto("drop")
        /\ "run" \in Threads
        /\ producer' = Quiesce(thr["run"].prod) /\ ThreadStep("run", Stopping(thr["run"].prod))
        /\ UNCHANGED <<sources, current, others, everReady, forceNext>>
    BY DEF HlsFails, StopAndWait, Live, shared, requests, SessionInv, RunOK, Threads
  <1>2. sup' \in SupRows /\ sup'.pc = "drop" /\ sup'.active = sup.active
    BY <1>1, GotoRow DEF SupPcs
  <1>3. SameFeed
    BY <1>1, <1>2, GotoFeed
  <1>4. thr["run"].prod \in Producers
    BY <1>1, HandFull
  <1>5. SessionTypeOK' /\ HandsOK' /\ ActiveOK' /\ FeedOK' /\ Accounted'
    BY <1>1, <1>3, <1>4, StoppingRow, QuiesceInHand
  <1>6. /\ thr'["run"] = Stopping(thr["run"].prod)
        /\ \A s \in Threads : s # "run" => thr'[s] = thr[s]
    BY <1>1, <1>4, StoppingRow, ThreadMoves DEF SessionInv
  <1>7. RunOK' /\ RaceOK'
    BY <1>1, <1>2, <1>4, <1>6, StoppingRow DEF SessionInv, RunOK, RaceOK, Racers, Threads
  <1>. QED  BY <1>5, <1>7 DEF SessionInv

(* The candidate feeds the hub from now on, the old producer is stopped. *)
LEMMA KeepsReplacementSucceeds ==
    ASSUME SessionInv, ReplacementSucceeds
    PROVE  SessionInv'
  <1>1. PICK p, new : p = Active /\ new = thr["run"].prod
    OBVIOUS
  <1>2. /\ Live /\ thr["run"].pc = "ok" /\ "run" \in Threads
        /\ producer' = [Quiesce(p) EXCEPT ![new].bridged = TRUE]
        /\ current' = new /\ everReady' = TRUE
        /\ ThreadStep("run", Stopping(p))
        /\ sup' = [sup EXCEPT !.pc = "promoted", !.active = new, !.attempt = 0]
        /\ UNCHANGED <<sources, forceNext, others>>
    BY <1>1 DEF ReplacementSucceeds, Promote, Live, shared, requests, SessionInv, RunOK, Threads
  <1>3. /\ p \in Producers /\ p # NoProducer /\ \A s \in Threads : thr[s].prod # p
    BY <1>1, <1>2 DEF SessionInv, SessionTypeOK, SupRows, Somebody, ActiveOK, Active
  <1>4. /\ new \in Producers /\ new # NoProducer /\ new # p /\ producer[new].phase = "running"
        /\ \A s \in Threads : s # "run" => thr[s].prod # new
    BY <1>1, <1>2, <1>3, HandFull DEF SessionInv, HandsOK
  <1>5. PICK o \in BOOLEAN : o = TRUE
    OBVIOUS
  <1>6. PICK row : row = [producer[new] EXCEPT !.bridged = o]
    OBVIOUS
  <1>7. row \in ProducerRows /\ row.phase = "running" /\ row.bridged = TRUE
    BY <1>4, <1>5, <1>6, ProducerRow DEF ProducerRows, SessionInv
  <1>8. PICK q0 : q0 = Quiesce(p)
    OBVIOUS
  <1>9. /\ q0 \in [Producers -> ProducerRows]
        /\ q0[p].phase = "stopping" /\ q0[p].bridged = FALSE
        /\ \A q \in Producers : q # p => q0[q] = producer[q]
    BY <1>3, <1>8, QuiesceMoves DEF SessionInv
  <1>10. producer' = [q0 EXCEPT ![new] = row]
    BY <1>2, <1>4, <1>5, <1>6, <1>8, <1>9
  <1>11. /\ producer' \in [Producers -> ProducerRows] /\ producer'[new] = row
         /\ producer'[p].phase = "stopping" /\ producer'[p].bridged = FALSE
         /\ \A q \in Producers : q # p /\ q # new => producer'[q] = producer[q]
    BY <1>3, <1>4, <1>7, <1>9, <1>10
  <1>12. /\ thr' \in [Threads -> ThreadRows] /\ thr'["run"] = Stopping(p)
         /\ \A s \in Threads : s # "run" => thr'[s] = thr[s]
    BY <1>2, <1>3, StoppingRow, ThreadMoves DEF SessionInv
  <1>13. sup' \in SupRows /\ sup'.pc = "promoted" /\ sup'.active = new
    BY <1>2, <1>4, SupRow DEF SupRows, SupPcs, Somebody
  <1>14. Live' /\ Active' = new
    BY <1>13 DEF Live, Active
  <1>15. SessionTypeOK'
    BY <1>2, <1>4, <1>11, <1>12, <1>13 DEF SessionInv, SessionTypeOK, Somebody
  <1>16. HandsOK'
    <2>1. ASSUME NEW s \in Threads PROVE HandOK(s)'
      <3>1. CASE s = "run"
        BY <1>3, <1>11, <1>12, <3>1, StoppingRow DEF HandOK
      <3>2. CASE s # "run"
        <4>1. thr[s].prod \in Somebody /\ thr[s].prod # p /\ thr[s].prod # new
          BY <1>3, <1>4, <3>2, ThreadRow DEF SessionInv
        <4>. QED  BY <1>11, <1>12, <3>2, <4>1, HandStays DEF Somebody
      <3>. QED  BY <3>1, <3>2
    <2>2. ASSUME NEW x \in Threads, NEW y \in Threads, x # y, thr'[x].prod # NoProducer
          PROVE  thr'[x].prod # thr'[y].prod
      BY <1>3, <1>12, <2>2, StoppingRow DEF SessionInv, HandsOK
    <2>. QED  BY <2>1, <2>2 DEF HandsOK
  <1>17. ActiveOK'
    <2>1. \A s \in Threads : thr'[s].prod # new
      BY <1>3, <1>4, <1>12, StoppingRow
    <2>. QED  BY <1>2, <1>4, <1>7, <1>11, <1>13, <1>14, <2>1 DEF ActiveOK
  <1>18. FeedOK'
    BY <1>1, <1>2, <1>11, <1>14 DEF SessionInv, FeedOK
  <1>19. Accounted'
    <2> SUFFICES ASSUME NEW q \in Producers, producer'[q].phase \in {"leased", "running"}, q # new
                 PROVE  \E s \in Threads : thr'[s].prod = q
      BY <1>14 DEF Accounted
    <2>1. q # p
      BY <1>11
    <2>2. PICK s \in Threads : thr[s].prod = q
      BY <1>1, <1>11, <2>1 DEF SessionInv, Accounted
    <2>3. s # "run"
      BY <1>1, <2>2
    <2>. QED  BY <1>12, <2>2, <2>3
  <1>20. RunOK'
    BY <1>3, <1>12, <1>13, StoppingRow DEF RunOK
  <1>21. RaceOK'
    BY <1>2, <1>13 DEF RaceOK
  <1>. QED  BY <1>15, <1>16, <1>17, <1>18, <1>19, <1>20, <1>21 DEF SessionInv

LEMMA KeepsReplacementFails ==
    ASSUME SessionInv, ReplacementFails
    PROVE  SessionInv'
  <1>1. /\ Live /\ thr["run"].pc \in {"err", "stopped", "stuck"} /\ "run" \in Threads
        /\ UNCHANGED <<sources, forceNext, others, everReady, current>>
    BY DEF ReplacementFails, Live, shared, requests, RunStopped, Threads
  <1>2. thr["run"].prod = NoProducer /\ forceNext \in {"none", "next", "restart"}
    BY <1>1 DEF SessionInv, SessionTypeOK, HandsOK, HandOK
  <1>3. CASE StopAndWait(Active, "break")
    BY <1>1, <1>2, <1>3, GotoRow, KeepsStopActive DEF StopAndWait, SupPcs
  <1>4. CASE /\ Goto("top") /\ ThreadStep("run", Idle)
             /\ \/ UNCHANGED producer
                \/ producer' = [producer EXCEPT ![Active].hedged = FALSE]
                \/ producer' = [producer EXCEPT ![Active].hedged = TRUE]
    <2>1. sup' \in SupRows /\ sup'.pc = "top" /\ sup'.active = sup.active
      BY <1>4, GotoRow DEF SupPcs
    <2>2. SameFeed
      BY <1>1, <2>1, GotoFeed
    <2>3. thr'["run"].pc = "idle"
      BY <1>1, <1>4, IdleRow, ThreadMoves DEF SessionInv
    <2>. QED  BY <1>1, <1>2, <1>4, <2>1, <2>2, <2>3, KeepsFlags
  <1>. QED  BY <1>3, <1>4 DEF ReplacementFails

(* The supervisor has waited for its stop. *)
LEMMA RunStoppedFacts ==
    ASSUME SessionInv, RunStopped
    PROVE  thr["run"].prod = NoProducer /\ "run" \in Threads
  BY DEF RunStopped, SessionInv, HandsOK, HandOK, Threads

LEMMA RunIdle ==
    ASSUME SessionInv, ThreadStep("run", Idle)
    PROVE  thr'["run"].pc = "idle" /\ \A s \in Racers : thr'[s] = thr[s]
  BY IdleRow, ThreadMoves DEF SessionInv, Threads, Racers

LEMMA KeepsPreviousStopped ==
    ASSUME SessionInv, PreviousStopped
    PROVE  SessionInv'
  <1>1. /\ sup.pc = "promoted" /\ RunStopped /\ Live /\ ThreadStep("run", Idle) /\ Goto("top")
        /\ UNCHANGED <<sources, forceNext, others, everReady, current, producer>>
    BY DEF PreviousStopped, Live, shared, requests
  <1>2. sup' \in SupRows /\ sup'.pc = "top" /\ sup'.active = sup.active
    BY <1>1, GotoRow DEF SupPcs
  <1>3. SameFeed
    BY <1>1, <1>2, GotoFeed
  <1>4. ~everReady => \A s \in Racers : thr[s].pc = "idle"
    BY <1>1 DEF SessionInv, RaceOK
  <1>. QED  BY <1>1, <1>2, <1>3, <1>4, RunStoppedFacts, RunIdle, KeepsRunDone

LEMMA KeepsExit ==
    ASSUME SessionInv, Exit
    PROVE  SessionInv'
  <1>1. /\ sup.pc = "exit" /\ RunStopped /\ ~Live /\ ThreadStep("run", Idle) /\ Goto("ending")
        /\ UNCHANGED <<sources, forceNext, others, everReady, current, producer>>
    BY DEF Exit, Finish, Live, shared, requests
  <1>2. sup' \in SupRows /\ sup'.pc = "ending" /\ sup'.active = sup.active
    BY <1>1, GotoRow DEF SupPcs
  <1>3. SameFeed
    BY <1>1, <1>2, GotoFeed
  <1>4. ~everReady => \A s \in Racers : thr[s].pc = "idle"
    BY <1>1 DEF SessionInv, RaceOK
  <1>. QED  BY <1>1, <1>2, <1>3, <1>4, RunStoppedFacts, RunIdle, KeepsRunDone

(* The broken producer is gone from the supervisor's locals. *)
LEMMA KeepsActiveStopped ==
    ASSUME SessionInv, ActiveStopped
    PROVE  SessionInv'
  <1>1. /\ sup.pc = "break" /\ RunStopped /\ ~Live /\ ThreadStep("run", Idle)
        /\ sup' = [sup EXCEPT !.pc = "top", !.active = NoProducer, !.next = sup.target,
                              !.attempt = @ + 1]
        /\ UNCHANGED <<sources, forceNext, others, everReady, current, producer>>
    BY DEF ActiveStopped, Live, shared, requests
  <1>2. PICK n \in Nat : n = sup.attempt + 1
    BY SupRow
  <1>3. sup' = [sup EXCEPT !.pc = "top", !.active = NoProducer, !.next = sup.target, !.attempt = n]
    BY <1>1, <1>2, SupRow DEF SupRows
  <1>4. sup' \in SupRows /\ sup'.pc = "top" /\ sup'.active = NoProducer
    BY <1>3, SupRow DEF SupRows, SupPcs, Somebody
  <1>5. ~Live'
    BY <1>4 DEF Live, Active
  <1>6. /\ thr' \in [Threads -> ThreadRows] /\ thr'["run"] = Idle
        /\ \A s \in Threads : s # "run" => thr'[s] = thr[s]
    BY <1>1, IdleRow, RunStoppedFacts, ThreadMoves DEF SessionInv
  <1>7. SessionTypeOK'
    BY <1>1, <1>4, <1>6 DEF SessionInv, SessionTypeOK
  <1>8. HandsOK'
    BY <1>1, <1>6, IdleRow DEF SessionInv, HandsOK, HandOK
  <1>9. ActiveOK'
    BY <1>4, <1>5 DEF ActiveOK
  <1>10. FeedOK'
    BY <1>1, <1>5 DEF SessionInv, FeedOK
  <1>11. Accounted'
    <2> SUFFICES ASSUME NEW q \in Producers, producer[q].phase \in {"leased", "running"}
                 PROVE  \E s \in Threads : thr'[s].prod = q
      BY <1>1 DEF Accounted
    <2>1. PICK s \in Threads : thr[s].prod = q
      BY <1>1 DEF SessionInv, Accounted
    <2>2. s # "run"
      BY <1>1, <2>1, RunStoppedFacts, IdentityAssumption
    <2>. QED  BY <1>6, <2>1, <2>2
  <1>12. RunOK'
    BY <1>4, <1>6, IdleRow DEF RunOK
  <1>13. RaceOK'
    BY <1>1, <1>4, <1>6 DEF SessionInv, RaceOK, Racers, Threads
  <1>. QED  BY <1>7, <1>8, <1>9, <1>10, <1>11, <1>12, <1>13 DEF SessionInv

LEMMA KeepsComplete ==
    ASSUME SessionInv, Complete
    PROVE  SessionInv'
  <1>1. PICK pc \in {"ended", "gone"} : Goto(pc)
    BY DEF Complete
  <1>2. /\ sup.pc \in {"ending", "ended"} /\ ~Live /\ thr["run"].pc = "idle"
        /\ UNCHANGED <<sources, forceNext, others, everReady, current, producer, thr>>
    BY DEF Complete, Live, requests, SessionInv, RunOK
  <1>3. pc \in SupPcs
    BY DEF SupPcs
  <1>4. sup' \in SupRows /\ sup'.pc = pc /\ sup'.active = sup.active
    BY <1>1, <1>3, GotoRow
  <1>5. SameFeed
    BY <1>2, <1>4, GotoFeed
  <1>6. forceNext \in {"none", "next", "restart"}
    BY DEF SessionInv, SessionTypeOK
  <1>. QED  BY <1>2, <1>3, <1>4, <1>5, <1>6, KeepsSupMove

-----------------------------------------------------------------------------
(* The theorems. *)

LEMMA KeepsNext ==
    ASSUME SessionInv, Next
    PROVE  SessionInv'
  <1>1. ASSUME Supervise PROVE SessionInv'
    BY <1>1, KeepsLoopTop, KeepsBackoffEnds, KeepsHedgeColdStart, KeepsPrimaryFails,
       KeepsRacerFails, KeepsColdFails, KeepsColdSucceeds, KeepsMonitor, KeepsDecide,
       KeepsAwaitHls, KeepsHlsFails, KeepsReplacementSucceeds, KeepsReplacementFails,
       KeepsPreviousStopped, KeepsActiveStopped, KeepsExit, KeepsComplete
       DEF Supervise
  <1>2. ASSUME NEW t \in Threads, StartStep(t) PROVE SessionInv'
    BY <1>2, KeepsSourceRejected, KeepsAcquireLease, KeepsRecheckPrewarm, KeepsRelayFails,
       KeepsLaunch, KeepsStartSucceeds, KeepsStartFails, KeepsCleanupTimesOut DEF StartStep
  <1>3. ASSUME NEW p \in Producers, ProducerStep(p) PROVE SessionInv'
    BY <1>3, KeepsProducerFails, KeepsProducerHalts, KeepsCleanupDone DEF ProducerStep
  <1>. QED  BY <1>1, <1>2, <1>3, KeepsStopLoser, KeepsRequest DEF Next

(* SessionInv holds in every state of a shared stream. *)
THEOREM SessionSafety == Spec => []SessionInv
  <1>1. SessionInv /\ [Next]_<<vars, scenario>> => SessionInv'
    <2> SUFFICES ASSUME SessionInv, [Next]_<<vars, scenario>> PROVE SessionInv'
      OBVIOUS
    <2>1. CASE Next
      BY <2>1, KeepsNext
    <2>2. CASE UNCHANGED <<vars, scenario>>
      <3>1. /\ sources' \in SourceLists /\ forceNext' \in {"none", "next", "restart"}
            /\ others' \subseteq OtherLeases
            /\ UNCHANGED <<everReady, current, producer, thr, sup>>
        BY <2>2 DEF vars, SessionInv, SessionTypeOK
      <3>. QED  BY <3>1, RequestsKeep
    <2>. QED  BY <2>1, <2>2
  <1>. QED  BY <1>1, SessionStarts, PTL DEF Spec

(* No upstream connection is forgotten: every leased or running pipeline   *)
(* is the active one or in the hands of a goroutine that will promote or   *)
(* stop it, the loser of a cold-start race included (NoForgottenProducer). *)
THEOREM NothingForgotten == Spec => []NoForgottenProducer
  <1>1. SessionInv => NoForgottenProducer
    <2> SUFFICES ASSUME SessionInv, NEW p \in Producers,
                        producer[p].phase \in {"leased", "running"}
                 PROVE  /\ Owned(p)
                        /\ sup.pc \in {"ending", "ended", "gone"} => \E t \in Racers : thr[t].prod = p
      BY DEF NoForgottenProducer
    <2>1. (Live /\ p = Active) \/ \E t \in Threads : thr[t].prod = p
      BY DEF SessionInv, Accounted
    <2>2. ASSUME sup.pc \in {"ending", "ended", "gone"} PROVE \E t \in Racers : thr[t].prod = p
      <3>1. ~Live /\ thr["run"].pc = "idle"
        BY <2>2 DEF Live, SessionInv, RunOK
      <3>2. thr["run"].prod = NoProducer
        BY <3>1 DEF SessionInv, HandsOK, HandOK, Threads
      <3>3. PICK t \in Threads : thr[t].prod = p
        BY <2>1, <3>1
      <3>. QED  BY <3>2, <3>3, IdentityAssumption DEF Threads, Racers
    <2>. QED  BY <2>1, <2>2 DEF Owned
  <1>. QED  BY <1>1, SessionSafety, PTL

(* One producer feeds the hub, the active one, whose pipeline runs; while  *)
(* it is monitored HLS requests see the same one; and current never names  *)
(* a producer whose slot has been given back (OneFeed).                    *)
THEOREM OneFeedOnly == Spec => []OneFeed
  <1>1. SessionInv => OneFeed
    <2> SUFFICES ASSUME SessionInv PROVE OneFeed
      OBVIOUS
    <2>1. \A p \in Producers : producer[p].bridged => p = Active /\ producer[p].phase = "running"
      BY DEF SessionInv, FeedOK, ActiveOK
    <2>2. sup.pc \in {"monitor", "decide", "replace", "replaceHls", "promoted"} =>
             current = Active /\ producer[Active].bridged
      BY DEF SessionInv, ActiveOK, Live
    <2>3. current # NoProducer => producer[current].phase # "free"
      BY DEF SessionInv, FeedOK, ActiveOK
    <2>. QED  BY <2>1, <2>2, <2>3 DEF OneFeed
  <1>. QED  BY <1>1, SessionSafety, PTL

(* The supervisor gives up its feed for one of three reasons only.         *)
LEMMA GivingUp ==
    ASSUME SessionInv, Next, Live, ~Live'
    PROVE  \/ sup.reason = "error" \/ Cancelled
           \/ sup.pc = "replace" /\ thr["run"].err = "limit"
  <1>1. sup' # sup
    BY DEF Live, Active
  <1>2. CASE Supervise
    <2>1. CASE LoopTop \/ BackoffEnds \/ HedgeColdStart \/ PrimaryFails
      <3>1. sup.pc = "top" /\ Active # NoProducer /\ sup' = [sup EXCEPT !.pc = "monitor", !.list = sources,
                                    !.target = 1, !.reason = "none"]
        BY <2>1 DEF LoopTop, BackoffEnds, HedgeColdStart, PrimaryFails, Live
      <3>2. sup'.pc = "monitor"
        BY <3>1, SupRow DEF SupRows
      <3>. QED  BY <3>2 DEF Live
    <2>2. CASE \E t \in Racers : RacerFails(t)
      BY <2>2 DEF RacerFails, Live
    <2>3. CASE \E t \in Threads : ColdFails(t) \/ ColdSucceeds(t)
      BY <2>3 DEF ColdFails, ColdSucceeds, Decides, Live
    <2>4. CASE Monitor
      <3>1. CASE Cancelled
        BY <3>1
      <3>2. CASE ~Cancelled
        <4>1. sup'.pc = "decide" \/ sup' = sup
          BY <2>4, <3>2, SupRow DEF Monitor, SupRows
        <4>. QED  BY <1>1, <4>1 DEF Live
      <3>. QED  BY <3>1, <3>2
    <2>5. CASE Decide
      <3>1. CASE Cancelled \/ sup.reason = "error"
        BY <3>1
      <3>2. CASE ~Cancelled /\ sup.reason # "error"
        <4>1. sup'.pc \in {"replace", "panic"}
          BY <2>5, <3>2, SupRow DEF Decide, SupRows, Goto
        <4>. QED  BY <4>1 DEF Live
      <3>. QED  BY <3>1, <3>2
    <2>6. CASE AwaitHls \/ HlsFails \/ ReplacementSucceeds
      <3>1. sup'.pc \in {"replaceHls", "drop", "promoted"}
        BY <2>6, SupRow DEF AwaitHls, HlsFails, ReplacementSucceeds, StopAndWait, Goto, SupRows
      <3>. QED  BY <3>1 DEF Live
    <2>7. CASE ReplacementFails
      <3>1. CASE Goto("top")
        <4>1. sup'.pc = "top" /\ sup'.active = sup.active
          BY <3>1, GotoRow DEF SupPcs
        <4>2. Active # NoProducer
          BY DEF SessionInv, ActiveOK
        <4>. QED  BY <4>1, <4>2 DEF Live, Active
      <3>2. CASE thr["run"].err = "limit"
        BY <2>7, <3>2 DEF ReplacementFails, SessionInv, RunOK
      <3>. QED  BY <2>7, <3>1, <3>2 DEF ReplacementFails
    <2>8. CASE PreviousStopped
      <3>1. sup'.pc = "top" /\ sup'.active = sup.active
        BY <2>8, GotoRow DEF SupPcs, PreviousStopped
      <3>2. Active # NoProducer
        BY DEF SessionInv, ActiveOK
      <3>. QED  BY <3>1, <3>2 DEF Live, Active
    <2>9. CASE ActiveStopped \/ Exit \/ Complete
      BY <2>9 DEF ActiveStopped, Exit, Complete, Live
    <2>. QED  BY <1>2, <2>1, <2>2, <2>3, <2>4, <2>5, <2>6, <2>7, <2>8, <2>9 DEF Supervise
  <1>3. CASE \E t \in Threads : StartStep(t)
    BY <1>1, <1>3 DEF StartStep, SourceRejected, AcquireLease, RecheckPrewarm, RelayFails, Launch,
                      StartSucceeds, StartFails, CleanupTimesOut
  <1>4. CASE \E t \in Racers : StopLoser(t)
    BY <1>1, <1>4 DEF StopLoser
  <1>5. CASE \E p \in Producers : ProducerStep(p)
    BY <1>1, <1>5 DEF ProducerStep, ProducerFails, ProducerHalts, CleanupDone
  <1>6. CASE Request
    BY <1>1, <1>6 DEF Request, Reuse, ForceNextSource, RestartSource, RequestStop, StopProceeds,
                      RegisterClient, CloseClient, OtherSession
  <1>. QED  BY <1>2, <1>3, <1>4, <1>5, <1>6 DEF Next

(* A requested switch of a working source is made before the break: the    *)
(* bridge is given up without a replacement only after an upstream error,  *)
(* for a session being stopped, or when the pool has no connection left    *)
(* for the replacement (MakeBeforeBreak).                                  *)
THEOREM SwitchesMakeFirst == Spec => MakeBeforeBreak
  <1>1. ASSUME SessionInv, SessionInv', [Next]_<<vars, scenario>>, NEW p \in Producers,
               producer[p].bridged, ~producer'[p].bridged
        PROVE  \/ \E q \in Producers : producer'[q].bridged
               \/ sup.reason = "error" \/ Cancelled
               \/ sup.pc = "replace" /\ thr["run"].err = "limit"
    <2>1. Live
      BY <1>1 DEF SessionInv, FeedOK
    <2>2. Next
      BY <1>1 DEF vars
    <2>3. ASSUME Live' PROVE \E q \in Producers : producer'[q].bridged
      <3>1. sup' \in SupRows
        BY <1>1 DEF SessionInv, SessionTypeOK
      <3>2. Active' \in Producers /\ producer'[Active'].bridged
        BY <1>1, <2>3, <3>1 DEF SessionInv, SupRows, Somebody, ActiveOK, Active
      <3>. QED  BY <3>2
    <2>. QED  BY <1>1, <2>1, <2>2, <2>3, GivingUp
  <1>2. SessionInv /\ SessionInv' /\ [Next]_<<vars, scenario>> =>
          [\A p \in Producers :
              (producer[p].bridged /\ ~producer'[p].bridged) =>
                  \/ \E q \in Producers : producer'[q].bridged
                  \/ sup.reason = "error"
                  \/ Cancelled
                  \/ sup.pc = "replace" /\ thr["run"].err = "limit"]_vars
    BY <1>1
  <1>. QED  BY <1>2, SessionSafety, PTL DEF Spec, MakeBeforeBreak

-----------------------------------------------------------------------------
(* What the steps do to the leases of the pool. *)

(* The pool is as full as before, and every lease on it is the same. *)
LeasesKept ==
    /\ UNCHANGED others
    /\ \A p \in Producers : /\ producer'[p].phase = "free" <=> producer[p].phase = "free"
                            /\ producer'[p].phase # "free" => producer'[p].reserve = producer[p].reserve

LEMMA RowKeepsLease ==
    ASSUME SessionInv, NEW p \in Producers, NEW row, producer' = [producer EXCEPT ![p] = row],
           row.phase # "free", producer[p].phase # "free", row.reserve = producer[p].reserve,
           UNCHANGED others
    PROVE  LeasesKept
  BY DEF SessionInv, SessionTypeOK, LeasesKept

LEMMA QuiesceKeepsLease ==
    ASSUME SessionInv, NEW p \in Producers, producer' = Quiesce(p), producer[p].phase # "free",
           UNCHANGED others
    PROVE  LeasesKept
  <1>1. PICK x : x = [producer[p] EXCEPT !.bridged = FALSE]
    OBVIOUS
  <1>2. PICK y : y = [x EXCEPT !.phase = "stopping"]
    OBVIOUS
  <1>3. x.reserve = producer[p].reserve
    BY <1>1, ProducerRow DEF ProducerRows, SessionInv
  <1>4. y.phase = "stopping" /\ y.reserve = producer[p].reserve
    <2>1. DOMAIN x = DOMAIN producer[p]
      BY <1>1
    <2>2. DOMAIN producer[p] = {"phase", "idx", "reserve", "failed", "bridged", "hedged"}
      BY ProducerRow DEF ProducerRows, SessionInv
    <2>. QED  BY <1>2, <1>3, <2>1, <2>2
  <1>5. producer' = [producer EXCEPT ![p] = y]
    BY <1>1, <1>2 DEF Quiesce, SessionInv, SessionTypeOK
  <1>. QED  BY <1>4, <1>5, RowKeepsLease

LEMMA ActiveIsOut ==
    ASSUME SessionInv, Live
    PROVE  Active \in Producers /\ producer[Active].phase = "running"
  BY DEF SessionInv, SessionTypeOK, SupRows, Somebody, ActiveOK, Active

LEMMA FlagKeepsLease ==
    ASSUME SessionInv, NEW p \in Producers, producer[p].phase # "free", NEW o \in BOOLEAN,
           \/ producer' = [producer EXCEPT ![p].failed = o]
           \/ producer' = [producer EXCEPT ![p].hedged = o]
           \/ producer' = [producer EXCEPT ![p].bridged = o],
           UNCHANGED others
    PROVE  LeasesKept
  <1>1. PICK row : /\ producer' = [producer EXCEPT ![p] = row]
                   /\ \/ row = [producer[p] EXCEPT !.failed = o]
                      \/ row = [producer[p] EXCEPT !.hedged = o]
                      \/ row = [producer[p] EXCEPT !.bridged = o]
    OBVIOUS
  <1>2. row.phase = producer[p].phase /\ row.reserve = producer[p].reserve
    BY <1>1, ProducerRow DEF ProducerRows, SessionInv
  <1>. QED  BY <1>1, <1>2, RowKeepsLease

LEMMA PhaseKeepsLease ==
    ASSUME SessionInv, NEW p \in Producers, producer[p].phase # "free",
           NEW phase \in {"running", "halted"},
           producer' = [producer EXCEPT ![p].phase = phase], UNCHANGED others
    PROVE  LeasesKept
  <1>1. PICK row : row = [producer[p] EXCEPT !.phase = phase]
    OBVIOUS
  <1>2. row.phase = phase /\ row.reserve = producer[p].reserve
    BY <1>1, ProducerRow DEF ProducerRows, SessionInv
  <1>. QED  BY <1>1, <1>2, RowKeepsLease

(* What the supervisor does to its producers leaves the pool alone. *)
LEMMA SuperviseKeepsLeases ==
    ASSUME SessionInv, Supervise
    PROVE  LeasesKept
  <1>0. UNCHANGED producer /\ UNCHANGED others => LeasesKept
    BY DEF LeasesKept
  <1>1. CASE \/ LoopTop \/ BackoffEnds \/ HedgeColdStart \/ PrimaryFails \/ AwaitHls
             \/ PreviousStopped \/ ActiveStopped \/ Exit \/ Complete
             \/ (\E t \in Racers : RacerFails(t)) \/ (\E t \in Threads : ColdFails(t))
    BY <1>0, <1>1 DEF LoopTop, BackoffEnds, HedgeColdStart, PrimaryFails, AwaitHls, PreviousStopped,
         ActiveStopped, Exit, Complete, RacerFails, ColdFails, shared
  <1>2. ASSUME NEW t \in Threads, ColdSucceeds(t) PROVE LeasesKept
    <2>1. thr[t].prod \in Producers /\ producer[thr[t].prod].phase = "running"
      BY <1>2, HandFull DEF ColdSucceeds
    <2>2. /\ producer' = [producer EXCEPT ![thr[t].prod].bridged = TRUE]
          /\ UNCHANGED others
      BY <1>2 DEF ColdSucceeds, Promote, shared
    <2>. QED  BY <2>1, <2>2, FlagKeepsLease
  <1>3. CASE Monitor
    <2>1. Live /\ UNCHANGED others
      BY <1>3 DEF Monitor, Live
    <2>2. \/ UNCHANGED producer
          \/ producer' = [producer EXCEPT ![Active].failed = FALSE]
          \/ producer' = [producer EXCEPT ![Active].hedged = FALSE]
          \/ producer' = Quiesce(Active)
      BY <1>3 DEF Monitor, StopAndWait
    <2>. QED  BY <1>0, <2>1, <2>2, ActiveIsOut, FlagKeepsLease, QuiesceKeepsLease
  <1>4. CASE Decide
    <2>1. Live /\ UNCHANGED others /\ (UNCHANGED producer \/ producer' = Quiesce(Active))
      BY <1>4 DEF Decide, Live, StopAndWait
    <2>. QED  BY <1>0, <2>1, ActiveIsOut, QuiesceKeepsLease
  <1>5. CASE HlsFails
    <2>1. thr["run"].pc = "ok" /\ "run" \in Threads
      BY <1>5 DEF HlsFails, SessionInv, RunOK, Threads
    <2>2. thr["run"].prod \in Producers /\ producer[thr["run"].prod].phase = "running"
      BY <2>1, HandFull
    <2>3. producer' = Quiesce(thr["run"].prod) /\ UNCHANGED others
      BY <1>5 DEF HlsFails, StopAndWait, shared
    <2>. QED  BY <2>2, <2>3, QuiesceKeepsLease
  <1>6. CASE ReplacementFails
    <2>1. Live /\ UNCHANGED others
      BY <1>6 DEF ReplacementFails, Live, shared
    <2>2. \/ UNCHANGED producer
          \/ producer' = [producer EXCEPT ![Active].hedged = TRUE]
          \/ producer' = [producer EXCEPT ![Active].hedged = FALSE]
          \/ producer' = Quiesce(Active)
      BY <1>6 DEF ReplacementFails, StopAndWait
    <2>. QED  BY <1>0, <2>1, <2>2, ActiveIsOut, FlagKeepsLease, QuiesceKeepsLease
  <1>7. CASE ReplacementSucceeds
    <2>1. PICK p, new : p = Active /\ new = thr["run"].prod
      OBVIOUS
    <2>2. /\ Live /\ thr["run"].pc = "ok" /\ "run" \in Threads /\ UNCHANGED others
          /\ producer' = [Quiesce(p) EXCEPT ![new].bridged = TRUE]
      BY <1>7, <2>1 DEF ReplacementSucceeds, Promote, Live, shared, SessionInv, RunOK, Threads
    <2>3. /\ p \in Producers /\ producer[p].phase = "running"
          /\ new \in Producers /\ producer[new].phase = "running" /\ new # p
      BY <2>1, <2>2, ActiveIsOut, HandFull DEF SessionInv, ActiveOK
    <2>4. PICK q0 : q0 = Quiesce(p)
      OBVIOUS
    <2>5. PICK x : x = [producer[p] EXCEPT !.bridged = FALSE, !.phase = "stopping"]
      OBVIOUS
    <2>6. x.phase = "stopping" /\ x.reserve = producer[p].reserve
      BY <2>3, <2>5, ProducerRow DEF ProducerRows, SessionInv
    <2>7. PICK y : y = [producer[new] EXCEPT !.bridged = TRUE]
      OBVIOUS
    <2>8. y.phase = "running" /\ y.reserve = producer[new].reserve
      BY <2>3, <2>7, ProducerRow DEF ProducerRows, SessionInv
    <2>9. q0 = [producer EXCEPT ![p] = x]
      BY <2>4, <2>5 DEF Quiesce, SessionInv, SessionTypeOK
    <2>10. producer' = [q0 EXCEPT ![new] = y]
      <3>1. q0[new] = producer[new] /\ DOMAIN q0 = Producers
        BY <2>3, <2>9 DEF SessionInv, SessionTypeOK
      <3>2. producer' = [q0 EXCEPT ![new].bridged = TRUE]
        BY <2>2, <2>4
      <3>. QED  BY <2>7, <3>1, <3>2
    <2>. QED  BY <2>2, <2>3, <2>6, <2>8, <2>9, <2>10 DEF LeasesKept, SessionInv, SessionTypeOK
  <1>. QED  BY <1>1, <1>2, <1>3, <1>4, <1>5, <1>6, <1>7 DEF Supervise

-----------------------------------------------------------------------------

(* A lease more, or one fewer, on this pool. *)
LeaseOut(l, reserve) ==
    /\ l \in Producers \cup OtherLeases /\ l \notin Leased /\ l \notin others
    /\ reserve \in {0, 1} /\ Used < Limit - reserve
    /\ LeaseMap' = [LeaseMap EXCEPT ![l] = [held |-> TRUE, pool |-> "pool", reserve |-> reserve]]
    /\ Used' = Used + 1

LeaseBack(l) ==
    /\ l \in Leased \cup others
    /\ LeaseMap' = [LeaseMap EXCEPT ![l] = [held |-> FALSE, pool |-> "unpooled", reserve |-> 0]]
    /\ Used' = Used - 1

LEMMA LeaseSets ==
    ASSUME SessionInv
    PROVE  /\ Leased \subseteq Producers /\ others \subseteq OtherLeases
           /\ Leased \cap others = {}
           /\ IsFiniteSet(Leased) /\ IsFiniteSet(others)
           /\ Cardinality(Leased) \in Nat /\ Cardinality(others) \in Nat /\ Used \in Nat
  <1>1. Leased \subseteq Producers /\ others \subseteq OtherLeases /\ Leased \cap others = {}
    BY IdentityAssumption DEF SessionInv, SessionTypeOK, Leased
  <1>2. IsFiniteSet(Leased) /\ IsFiniteSet(others)
    BY <1>1, IdentityAssumption, FS_Subset
  <1>. QED  BY <1>1, <1>2, FS_CardinalityType DEF Used

LEMMA KeptStutters ==
    ASSUME SessionInv, LeasesKept
    PROVE  LeaseMap' = LeaseMap /\ Used' = Used
  <1>1. Leased' = Leased /\ others' = others
    BY DEF Leased, LeasesKept
  <1>2. \A l \in Producers \cup OtherLeases : LeaseOf(l)' = LeaseOf(l)
    BY <1>1 DEF LeaseOf, LeasesKept, Leased
  <1>. QED  BY <1>1, <1>2 DEF LeaseMap, Used

(* startManagedProducer takes a lease. *)
LEMMA GrantIsLeaseOut ==
    ASSUME SessionInv, NEW t \in Threads, NEW p \in Producers, NEW reserve \in {0, 1},
           LeaseGranted(t, p, reserve), UNCHANGED others
    PROVE  LeaseOut(p, reserve)
  <1>1. PICK row : row = [Free EXCEPT !.phase = "leased", !.idx = thr[t].idx, !.reserve = reserve]
    OBVIOUS
  <1>2. row.phase = "leased" /\ row.reserve = reserve
    BY <1>1 DEF Free
  <1>3. producer' = [producer EXCEPT ![p] = row] /\ producer[p].phase = "free" /\ CanAcquire(reserve)
    BY <1>1 DEF LeaseGranted
  <1>4. /\ producer'[p] = row /\ \A q \in Producers : q # p => producer'[q] = producer[q]
    BY <1>3 DEF SessionInv, SessionTypeOK
  <1>5. p \notin Leased /\ p \notin others
    BY <1>3, LeaseSets, IdentityAssumption DEF Leased
  <1>6. Leased' = Leased \cup {p}
    BY <1>2, <1>4 DEF Leased
  <1>7. Used' = Used + 1
    <2>1. IsFiniteSet(Leased) /\ Cardinality(Leased) \in Nat /\ Cardinality(others) \in Nat
      BY LeaseSets
    <2>2. Cardinality(Leased') = Cardinality(Leased) + 1
      BY <1>5, <1>6, <2>1, FS_AddElement
    <2>3. Used = Cardinality(Leased) + Cardinality(others) /\ Used' = Cardinality(Leased') + Cardinality(others')
      BY DEF Used
    <2>. QED  BY  <2>1, <2>2, <2>3
  <1>8. ASSUME NEW l \in Producers \cup OtherLeases
        PROVE  LeaseOf(l)' = IF l = p THEN [held |-> TRUE, pool |-> "pool", reserve |-> reserve]
                                      ELSE LeaseOf(l)
    <2>1. CASE l = p
      <3>1. l \in Leased' /\ producer'[l].reserve = reserve
        BY <1>2, <1>4, <1>6, <2>1
      <3>2. LeaseOf(l)' = [held |-> TRUE, pool |-> "pool", reserve |-> producer'[l].reserve]
        BY <1>5, <2>1, <3>1 DEF LeaseOf
      <3>. QED  BY <2>1, <3>1, <3>2
    <2>2. CASE l # p /\ l \in Leased
      <3>1. l \in Producers /\ producer'[l] = producer[l] /\ l \in Leased'
        BY <1>4, <1>6, <2>2, LeaseSets
      <3>. QED  BY <2>2, <3>1 DEF LeaseOf
    <2>3. CASE l # p /\ l \notin Leased
      BY <1>6, <2>3 DEF LeaseOf
    <2>. QED  BY <2>1, <2>2, <2>3
  <1>9. LeaseMap' = [LeaseMap EXCEPT ![p] = [held |-> TRUE, pool |-> "pool", reserve |-> reserve]]
    BY <1>8 DEF LeaseMap
  <1>. QED  BY <1>3, <1>5, <1>7, <1>9 DEF LeaseOut, CanAcquire, Used

(* A failed relay or a finished cleanup gives one back. *)
LEMMA FreeIsLeaseBack ==
    ASSUME SessionInv, NEW p \in Producers, producer[p].phase # "free",
           producer' = [producer EXCEPT ![p] = Free], UNCHANGED others
    PROVE  LeaseBack(p)
  <1>1. /\ producer'[p].phase = "free" /\ \A q \in Producers : q # p => producer'[q] = producer[q]
    BY DEF SessionInv, SessionTypeOK, Free
  <1>2. p \in Leased /\ p \notin others /\ Leased' = Leased \ {p}
    BY <1>1, LeaseSets DEF Leased
  <1>3. Used' = Used - 1
    <2>1. IsFiniteSet(Leased) /\ Cardinality(Leased) \in Nat /\ Cardinality(others) \in Nat
      BY LeaseSets
    <2>2. Cardinality(Leased') = Cardinality(Leased) - 1
      BY <1>2, <2>1, FS_RemoveElement
    <2>3. Used = Cardinality(Leased) + Cardinality(others) /\ Used' = Cardinality(Leased') + Cardinality(others')
      BY DEF Used
    <2>. QED  BY  <2>1, <2>2, <2>3
  <1>4. ASSUME NEW l \in Producers \cup OtherLeases
        PROVE  LeaseOf(l)' = IF l = p THEN [held |-> FALSE, pool |-> "unpooled", reserve |-> 0]
                                      ELSE LeaseOf(l)
    <2>1. CASE l = p
      BY <1>2, <2>1 DEF LeaseOf
    <2>2. CASE l # p /\ l \in Leased
      BY <1>1, <1>2, <2>2, LeaseSets DEF LeaseOf
    <2>3. CASE l # p /\ l \notin Leased
      BY <1>2, <2>3 DEF LeaseOf
    <2>. QED  BY <2>1, <2>2, <2>3
  <1>5. LeaseMap' = [LeaseMap EXCEPT ![p] = [held |-> FALSE, pool |-> "unpooled", reserve |-> 0]]
    BY <1>4 DEF LeaseMap
  <1>. QED  BY <1>2, <1>3, <1>5 DEF LeaseBack

(* So do the other sessions of the pool. *)
LEMMA OthersLease ==
    ASSUME SessionInv, NEW l \in OtherLeases, OtherSession(l)
    PROVE  LeaseOut(l, 0) \/ LeaseBack(l)
  <1>0. UNCHANGED producer /\ Leased' = Leased /\ l \notin Leased
    BY IdentityAssumption DEF OtherSession, Leased
  <1>1. CASE l \notin others /\ CanAcquire(0) /\ others' = others \cup {l}
    <2>1. Used' = Used + 1
      <3>1. IsFiniteSet(others) /\ Cardinality(Leased) \in Nat /\ Cardinality(others) \in Nat
        BY LeaseSets
      <3>2. Cardinality(others') = Cardinality(others) + 1
        BY <1>1, <3>1, FS_AddElement
      <3>3. Used = Cardinality(Leased) + Cardinality(others) /\ Used' = Cardinality(Leased') + Cardinality(others')
        BY DEF Used
      <3>. QED  BY <1>0, <3>1, <3>2, <3>3
    <2>2. \A k \in Producers \cup OtherLeases :
             LeaseOf(k)' = IF k = l THEN [held |-> TRUE, pool |-> "pool", reserve |-> 0]
                                    ELSE LeaseOf(k)
      BY <1>0, <1>1 DEF LeaseOf
    <2>3. LeaseMap' = [LeaseMap EXCEPT ![l] = [held |-> TRUE, pool |-> "pool", reserve |-> 0]]
      BY <2>2 DEF LeaseMap
    <2>. QED  BY <1>0, <1>1, <2>1, <2>3 DEF LeaseOut, CanAcquire, Used
  <1>2. CASE l \in others /\ others' = others \ {l}
    <2>1. Used' = Used - 1
      <3>1. IsFiniteSet(others) /\ Cardinality(Leased) \in Nat /\ Cardinality(others) \in Nat
        BY LeaseSets
      <3>2. Cardinality(others') = Cardinality(others) - 1
        BY <1>2, <3>1, FS_RemoveElement
      <3>3. Used = Cardinality(Leased) + Cardinality(others) /\ Used' = Cardinality(Leased') + Cardinality(others')
        BY DEF Used
      <3>. QED  BY <1>0, <3>1, <3>2, <3>3
    <2>2. \A k \in Producers \cup OtherLeases :
             LeaseOf(k)' = IF k = l THEN [held |-> FALSE, pool |-> "unpooled", reserve |-> 0]
                                    ELSE LeaseOf(k)
      BY <1>0, <1>2 DEF LeaseOf
    <2>3. LeaseMap' = [LeaseMap EXCEPT ![l] = [held |-> FALSE, pool |-> "unpooled", reserve |-> 0]]
      BY <2>2 DEF LeaseMap
    <2>. QED  BY <1>2, <2>1, <2>3 DEF LeaseBack
  <1>. QED  BY <1>1, <1>2 DEF OtherSession

(* Every step takes one lease, gives one back, or leaves the pool alone. *)
LEMMA LeaseSteps ==
    ASSUME SessionInv, Next
    PROVE  \/ \E l \in Producers \cup OtherLeases, reserve \in {0, 1} : LeaseOut(l, reserve)
           \/ \E l \in Producers \cup OtherLeases : LeaseBack(l)
           \/ LeaseMap' = LeaseMap /\ Used' = Used
  <1>0. UNCHANGED <<producer, others>> => LeasesKept
    BY DEF LeasesKept
  <1>1. CASE Supervise
    BY <1>1, SuperviseKeepsLeases, KeptStutters
  <1>2. ASSUME NEW t \in Threads, StartStep(t)
        PROVE  \/ \E l \in Producers, reserve \in {0, 1} : LeaseOut(l, reserve)
               \/ \E l \in Producers : LeaseBack(l)
               \/ LeasesKept
    <2>1. CASE SourceRejected(t) \/ StartSucceeds(t) \/ CleanupTimesOut(t)
      BY <1>0, <2>1 DEF SourceRejected, StartSucceeds, CleanupTimesOut, shared
    <2>2. ASSUME NEW p \in Producers, NEW reserve \in {0, 1}, LeaseGranted(t, p, reserve), UNCHANGED others
          PROVE  LeaseOut(p, reserve)
      BY <2>2, GrantIsLeaseOut
    <2>3. CASE AcquireLease(t)
      <3>1. UNCHANGED others
        BY <2>3 DEF AcquireLease, shared
      <3>2. PICK reserve \in {0, 1} :
            \/ \E p \in Producers : LeaseGranted(t, p, reserve)
            \/ LeaseRefused(t, reserve, IF prewarm THEN "recheck" ELSE "err")
        BY <2>3 DEF AcquireLease
      <3>. QED  BY <1>0, <2>2, <3>1, <3>2 DEF LeaseRefused
    <2>4. CASE RecheckPrewarm(t)
      <3>1. UNCHANGED others
        BY <2>4 DEF RecheckPrewarm, shared
      <3>2. (\E p \in Producers : LeaseGranted(t, p, 0)) \/ UNCHANGED producer
        BY <2>4 DEF RecheckPrewarm, LeaseRefused
      <3>. QED  BY <1>0, <2>2, <3>1, <3>2
    <2>5. CASE RelayFails(t)
      <3>1. /\ thr[t].pc = "leased" /\ producer' = [producer EXCEPT ![thr[t].prod] = Free]
            /\ UNCHANGED others
        BY <2>5 DEF RelayFails, shared
      <3>. QED  BY <3>1, HandFull, FreeIsLeaseBack
    <2>6. CASE Launch(t)
      <3>1. /\ thr[t].pc = "leased" /\ producer' = [producer EXCEPT ![thr[t].prod].phase = "running"]
            /\ UNCHANGED others
        BY <2>6 DEF Launch, shared
      <3>. QED  BY <3>1, HandFull, PhaseKeepsLease
    <2>7. CASE StartFails(t)
      <3>1. thr[t].pc = "waiting" /\ producer' = Quiesce(thr[t].prod) /\ UNCHANGED others
        BY <2>7 DEF StartFails, shared
      <3>. QED  BY <3>1, HandFull, QuiesceKeepsLease
    <2>. QED  BY <1>2, <2>1, <2>3, <2>4, <2>5, <2>6, <2>7 DEF StartStep
  <1>3. ASSUME NEW t \in Racers, StopLoser(t) PROVE LeasesKept
    <2>1. t \in Threads /\ UNCHANGED others
      BY <1>3 DEF Racers, Threads, StopLoser, shared
    <2>2. UNCHANGED producer \/ (thr[t].pc = "ok" /\ producer' = Quiesce(thr[t].prod))
      BY <1>3 DEF StopLoser
    <2>. QED  BY <1>0, <2>1, <2>2, HandFull, QuiesceKeepsLease
  <1>4. ASSUME NEW p \in Producers, ProducerStep(p) PROVE LeasesKept \/ LeaseBack(p)
    <2>0. UNCHANGED others
      BY <1>4 DEF ProducerStep, ProducerFails, ProducerHalts, CleanupDone, shared
    <2>1. CASE ProducerFails(p)
      <3>1. producer[p].phase = "running"
        BY <2>1 DEF ProducerFails, SessionInv, FeedOK, ActiveOK
      <3>. QED  BY <2>0, <2>1, <3>1, FlagKeepsLease DEF ProducerFails
    <2>2. CASE ProducerHalts(p)
      BY <2>0, <2>2, PhaseKeepsLease DEF ProducerHalts
    <2>3. CASE CleanupDone(p)
      BY <2>0, <2>3, FreeIsLeaseBack DEF CleanupDone
    <2>. QED  BY <1>4, <2>1, <2>2, <2>3 DEF ProducerStep
  <1>5. CASE Request
    <2>1. CASE \E l \in OtherLeases : OtherSession(l)
      BY <2>1, OthersLease
    <2>2. CASE UNCHANGED <<producer, others>>
      BY <1>0, <2>2, KeptStutters
    <2>3. \/ \E l \in OtherLeases : OtherSession(l)
          \/ UNCHANGED <<producer, others>>
      BY <1>5 DEF Request, Reuse, ForceNextSource, RestartSource, RequestStop, StopProceeds,
                  RegisterClient, CloseClient
    <2>. QED  BY <2>1, <2>2, <2>3
  <1>. QED  BY <1>1, <1>2, <1>3, <1>4, <1>5, KeptStutters DEF Next

-----------------------------------------------------------------------------
(* The coordinator, as the session sees it. *)

LimiterKnown  == IF Used = 0 THEN {} ELSE {"pool"}
LimiterActive == [p \in {"pool"} |-> Used]
LimiterLimit  == [p \in {"pool"} |-> IF Used = 0 THEN 0 ELSE Limit]

LEMMA LeaseMapHeld ==
    ASSUME SessionInv, NEW l \in Producers \cup OtherLeases
    PROVE  /\ LeaseMap[l].held <=> l \in Leased \cup others
           /\ l \in Leased \cup others => LeaseMap[l].pool = "pool"
  <1>1. LeaseMap[l] = LeaseOf(l)
    BY DEF LeaseMap
  <1>. QED  BY <1>1, LeaseSets DEF LeaseOf

LEMMA OutIsGrant ==
    ASSUME SessionInv, NEW l \in Producers \cup OtherLeases, NEW reserve \in {0, 1},
           LeaseOut(l, reserve)
    PROVE  Limiter!Next
  <1>1. PICK u \in Nat : u = Used
    BY LeaseSets
  <1>2. Used' = u + 1 /\ u < Limit - reserve /\ ~LeaseMap[l].held
    BY <1>1, LeaseMapHeld DEF LeaseOut
  <1>3. Limiter!Effective(Limit) = Limit /\ Limiter!Usable(Limit, reserve) = Limit - reserve
    BY <1>1, <1>2, LimitAssumption DEF Limiter!Effective, Limiter!Usable
  <1>4. LimiterActive' = [LimiterActive EXCEPT !["pool"] = @ + 1] /\ LimiterActive["pool"] = u
    BY <1>1, <1>2 DEF LimiterActive
  <1>5. LimiterKnown' = LimiterKnown \cup {"pool"}
    BY <1>1, <1>2 DEF LimiterKnown
  <1>6. LimiterLimit' = [LimiterLimit EXCEPT !["pool"] = Limit]
    BY <1>1, <1>2 DEF LimiterLimit
  <1>7. LeaseMap' = [LeaseMap EXCEPT ![l] = Limiter!Held("pool", reserve)]
    BY DEF LeaseOut, Limiter!Held
  <1>8. Limiter!Touch("pool", Limit)
    BY <1>3, <1>5, <1>6 DEF Limiter!Touch, LimiterKnown, LimiterLimit
  <1>9. Limiter!Grant(l, "pool", Limit, reserve)
    BY <1>2, <1>3, <1>4, <1>7, <1>8 DEF Limiter!Grant, LimiterActive
  <1>10. Limit \in 0..Limit /\ reserve \in Limiter!Reserves
    BY LimitAssumption DEF Limiter!Reserves
  <1>. QED  BY <1>9, <1>10 DEF Limiter!Next

LEMMA BackIsRelease ==
    ASSUME SessionInv, NEW l \in Producers \cup OtherLeases, LeaseBack(l)
    PROVE  Limiter!Next
  <1>1. PICK u \in Nat : u = Used
    BY LeaseSets
  <1>2. Used' = u - 1 /\ LeaseMap[l].held /\ LeaseMap[l].pool = "pool"
    BY <1>1, LeaseMapHeld DEF LeaseBack
  <1>3. u # 0
    <2>1. Leased # {} \/ others # {}
      BY DEF LeaseBack
    <2>2. Cardinality(Leased) # 0 \/ Cardinality(others) # 0
      BY <2>1, LeaseSets, FS_EmptySet
    <2>. QED  BY <1>1, <2>2, LeaseSets DEF Used
  <1>4. LimiterActive' = [LimiterActive EXCEPT !["pool"] = IF @ > 0 THEN @ - 1 ELSE @]
        /\ LimiterActive["pool"] = u
    BY <1>1, <1>2, <1>3 DEF LimiterActive
  <1>5. LimiterKnown' = IF LimiterActive["pool"] = 1 THEN LimiterKnown \ {"pool"} ELSE LimiterKnown
    BY <1>1, <1>2, <1>3, <1>4 DEF LimiterKnown
  <1>6. LimiterLimit' = IF LimiterActive["pool"] = 1 THEN [LimiterLimit EXCEPT !["pool"] = 0] ELSE LimiterLimit
    BY <1>1, <1>2, <1>3, <1>4 DEF LimiterLimit
  <1>7. LeaseMap' = [LeaseMap EXCEPT ![l] = Limiter!Unused]
    BY DEF LeaseBack, Limiter!Unused
  <1>8. Limiter!GiveBack("pool")
    BY <1>4, <1>5, <1>6 DEF Limiter!GiveBack, LimiterActive, LimiterKnown, LimiterLimit
  <1>9. Limiter!Release(l)
    BY <1>2, <1>7, <1>8 DEF Limiter!Release
  <1>. QED  BY <1>9 DEF Limiter!Next

LEMMA LimiterInit ==
    ASSUME Init
    PROVE  Limiter!Init
  <1>1. Leased = {} /\ others = {}
    BY DEF Init, Leased, Free
  <1>2. Used = 0
    BY <1>1, FS_EmptySet DEF Used
  <1>3. LeaseMap = [l \in Producers \cup OtherLeases |-> Limiter!Unused]
    BY <1>1 DEF LeaseMap, LeaseOf, Limiter!Unused
  <1>. QED  BY <1>2, <1>3 DEF Limiter!Init

LEMMA LimiterStep ==
    ASSUME SessionInv, [Next]_<<vars, scenario>>
    PROVE  [Limiter!Next]_(Limiter!vars)
  <1>1. LeaseMap' = LeaseMap /\ Used' = Used => UNCHANGED Limiter!vars
    BY DEF Limiter!vars
  <1>2. CASE Next
    BY <1>1, <1>2, LeaseSteps, OutIsGrant, BackIsRelease
  <1>3. CASE UNCHANGED <<vars, scenario>>
    <2>1. LeasesKept
      BY <1>3 DEF vars, LeasesKept
    <2>. QED  BY <1>1, <2>1, KeptStutters
  <1>. QED  BY <1>2, <1>3

(* The session and its neighbours on the pool implement the connection     *)
(* coordinator: every lease startManagedProducer takes is a grant inside   *)
(* the limit, a prewarm's with its reserve, and every one given back, by a *)
(* failed relay or a finished cleanup, a release.                          *)
THEOREM SessionUsesCoordinator == Spec => Limiter!Spec
  BY LimiterInit, LimiterStep, SessionSafety, PTL DEF Spec, Limiter!Spec

(* The same as the run checks it (LimiterSpec): no change of the leases is *)
(* anything but a step of the coordinator.                                 *)
THEOREM LeasesByTheCoordinator == Spec => LimiterSpec
  <1>1. SessionInv /\ [Next]_<<vars, scenario>> =>
           [LeaseMap' # LeaseMap => Limiter!Next]_<<producer, others>>
    <2> SUFFICES ASSUME SessionInv, [Next]_<<vars, scenario>>, LeaseMap' # LeaseMap
                 PROVE  Limiter!Next
      OBVIOUS
    <2>. QED  BY LimiterStep DEF Limiter!vars
  <1>. QED  BY <1>1, LimiterInit, SessionSafety, PTL DEF Spec, LimiterSpec

(* The leases out on the pool. *)
WithinLimit == Used \in Nat /\ Used <= Limit

(* No hand-over, race, prewarm or late cleanup takes the provider's pool   *)
(* past its limit, the leases of the other sessions included.              *)
THEOREM PoolNeverOverfull == Spec => []WithinLimit
  <1>1. Init => WithinLimit
    <2> SUFFICES ASSUME Init PROVE WithinLimit
      OBVIOUS
    <2>1. Leased = {} /\ others = {}
      BY DEF Init, Leased, Free
    <2>2. Used = 0
      BY <2>1, FS_EmptySet DEF Used
    <2>. QED  BY <2>2, LimitAssumption DEF WithinLimit
  <1>2. SessionInv /\ WithinLimit /\ [Next]_<<vars, scenario>> => WithinLimit'
    <2> SUFFICES ASSUME SessionInv, WithinLimit, [Next]_<<vars, scenario>> PROVE WithinLimit'
      OBVIOUS
    <2>1. PICK u \in Nat : u = Used /\ u <= Limit
      BY DEF WithinLimit
    <2>2. ASSUME NEW l \in Producers \cup OtherLeases, NEW reserve \in {0, 1}, LeaseOut(l, reserve)
          PROVE  WithinLimit'
      <3>1. Used' = u + 1 /\ u < Limit - reserve
        BY <2>1, <2>2 DEF LeaseOut
      <3>. QED  BY <3>1, LimitAssumption DEF WithinLimit
    <2>3. ASSUME NEW l \in Producers \cup OtherLeases, LeaseBack(l) PROVE WithinLimit'
      <3>1. Used' = u - 1
        BY <2>1, <2>3 DEF LeaseBack
      <3>2. u # 0
        <4>1. Leased # {} \/ others # {}
          BY <2>3 DEF LeaseBack
        <4>2. Cardinality(Leased) # 0 \/ Cardinality(others) # 0
          BY <4>1, LeaseSets, FS_EmptySet
        <4>. QED  BY <2>1, <4>2, LeaseSets DEF Used
      <3>. QED  BY <2>1, <3>1, <3>2, LimitAssumption DEF WithinLimit
    <2>4. CASE Used' = Used
      BY <2>4 DEF WithinLimit
    <2>5. CASE UNCHANGED <<vars, scenario>>
      <3>1. LeasesKept
        BY <2>5 DEF vars, LeasesKept
      <3>. QED  BY <2>4, <3>1, KeptStutters
    <2>. QED  BY <2>2, <2>3, <2>4, <2>5, LeaseSteps
  <1>. QED  BY <1>1, <1>2, SessionSafety, PTL DEF Spec

==============================================================================
