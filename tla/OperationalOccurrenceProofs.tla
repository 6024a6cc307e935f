----------------------- MODULE OperationalOccurrenceProofs -------------------
(* Proofs about OperationalOccurrence, for every value of its constants.     *)
EXTENDS OperationalOccurrence, NaturalSets, SequenceTheorems, TLAPS

-----------------------------------------------------------------------------
(* The inductive invariant                                                   *)

\* A counter is collected in the width of its kind.
Fits(c) == c # NONE => c \in Nat /\ c <= Max64 /\ (kind = "DISCARDS" => c <= Max32)

\* What a walk found is accounted for, and only what differs is processed.
WalkOK ==
    /\ Fits(snapshot) /\ Fits(poll.got)
    /\ poll.pc = "save" => poll.true <= truth.since
    /\ poll.pc \in {"find", "apply"} => poll.delta # 0
    /\ ack.pc # "idle" => ack.id # 0

\* An episode takes its late delta when it is over, and none is in force again.
LateOK == \A i \in Ids : episodes[i].late <= 1 /\ (InForce(i) => episodes[i].late = 0)

\* A delta is for the last episode, or that one is over when its successor comes.
TargetOK ==
    /\ poll.pc = "find" => poll.atStart \/ ~LastFresh
    /\ poll.pc = "apply" =>
        /\ poll.target = Last
        /\ poll.current => episodes[Last].late = 0
        /\ poll.close => Last # 0
        /\ Last # 0 /\ ~poll.current /\ ~poll.close =>
            ~episodes[Last].open \/ ~episodes[Last].fresh

OccInv == TypeOK /\ WalkOK /\ LateOK /\ TargetOK /\ OlderOpenIsQuiet
-----------------------------------------------------------------------------

Row == [total : Nat \ {0}, open : BOOLEAN, acked : BOOLEAN, fresh : BOOLEAN, late : Nat]
Poll == [pc : PollPc, got : Nat \cup {NONE}, true : Nat, delta : Nat,
         atWalk : BOOLEAN, atStart : BOOLEAN, target : Ids \cup {0},
         current : BOOLEAN, close : BOOLEAN, rows : SUBSET Ids]
Ack == [pc : {"idle", "mark", "close"}, id : Ids \cup {0}]
Truth == [since : Nat, booked : Nat, trust : {"exact", "atMost", "none"}]
Budget == [events : 0..MaxEvents, edits : 0..MaxEdits, faults : 0..MaxFaults]

\* TypeOK but for the episodes.
Typed ==
    /\ kind \in {"CRC_FCS", "DISCARDS"} /\ counter \in Nat /\ snapshot \in Nat \cup {NONE}
    /\ poll \in Poll /\ (poll.current => poll.target # 0)
    /\ other \subseteq Ids /\ ack \in Ack /\ truth \in Truth /\ budget \in Budget

\* A row that only gets older, is acknowledged or ends.
Fades(i) ==
    /\ i \in Ids
    /\ \E r \in Row :
        /\ r.late = episodes[i].late
        /\ r.open => episodes[i].open
        /\ episodes[i].acked => r.acked
        /\ r.fresh => episodes[i].fresh
        /\ episodes' = [episodes EXCEPT ![i] = r]

\* The invariant holds at the start and over every step.
LEMMA OccurrencesHold == Spec => []OccInv
\* A delta lies between 0 and the width of the counter.
<1>DeltaIsNat. ASSUME NEW c, NEW s, Fits(c), Fits(s)
      PROVE  Delta(c, s) \in Nat
    <2> USE <1>DeltaIsNat
    <2>0. Max32 \in Nat \ {0} /\ Max64 \in Nat /\ Max32 < Max64 /\ NONE \notin Nat
        BY OccurrenceAssumption
    <2>1. CASE NONE \in {c, s}
        BY <2>1 DEF Delta
    <2>2. CASE c # NONE /\ s # NONE
        <3>1. c \in Nat /\ s \in Nat /\ c <= Max64 /\ s <= Max64
              /\ (kind = "DISCARDS" => c <= Max32 /\ s <= Max32)
            BY <2>2 DEF Fits
        <3>2. PICK m \in {Max32, Max64} : s <= m /\ Delta(c, s) = DeltaForWidth(c, s, m)
            BY <2>0, <2>2, <3>1 DEF Delta
        <3>3. DeltaForWidth(c, s, m) \in Nat
            BY <2>0, <3>1, <3>2 DEF DeltaForWidth
        <3>. QED BY <3>2, <3>3
    <2>. QED BY <2>1, <2>2
<1>0. Max32 \in Nat \ {0} /\ Max64 \in Nat /\ Max32 < Max64 /\ NONE \notin Nat
      /\ Starts \subseteq Nat /\ MaxEvents \in Nat /\ MaxEdits \in Nat /\ MaxFaults \in Nat
    BY OccurrenceAssumption
<1>1. Init => OccInv
    <2> SUFFICES ASSUME Init PROVE OccInv
        OBVIOUS
    <2>1. Ids = {} /\ Last = 0 /\ episodes \in Seq(Row)
        BY DEF Init, Ids, Last
    <2>2. TypeOK
        BY <1>0, <2>1 DEF Init, TypeOK, IdlePoll, IdleAck, PollPc, Row
    <2>3. WalkOK
        BY DEF Init, WalkOK, Fits, IdlePoll, IdleAck
    <2>4. LateOK /\ TargetOK /\ OlderOpenIsQuiet
        BY <2>1 DEF Init, LateOK, TargetOK, OlderOpenIsQuiet, IdlePoll
    <2>. QED BY <2>2, <2>3, <2>4 DEF OccInv
<1>2. ASSUME OccInv, Next PROVE OccInv'
    <2>0. TypeOK /\ WalkOK /\ LateOK /\ TargetOK /\ OlderOpenIsQuiet
        BY <1>2 DEF OccInv
    <2>t. Typed /\ episodes \in Seq(Row)
        BY <2>0 DEF TypeOK, Typed, Poll, Ack, Truth, Budget, Row
    <2>rows. /\ Len(episodes) \in Nat
             /\ Ids = 1..Len(episodes) /\ Last = Len(episodes)
             /\ \A i \in Ids : episodes[i] \in Row
        BY <2>t, LenProperties, ElementOfSeq DEF Ids, Last
    <2>b. LastFresh \in BOOLEAN
        BY <2>rows DEF LastFresh, Row
    <2>fade. ASSUME NEW i, Fades(i)
             PROVE  /\ episodes' \in Seq(Row) /\ Ids' = Ids /\ Last' = Last
                    /\ LateOK' /\ OlderOpenIsQuiet'
                    /\ \A j \in Ids : /\ episodes'[j].late = episodes[j].late
                                      /\ episodes'[j].open => episodes[j].open
                                      /\ episodes'[j].fresh => episodes[j].fresh
        <3>1. PICK r \in Row :
                /\ i \in Ids
                /\ r.late = episodes[i].late
                /\ r.open => episodes[i].open
                /\ episodes[i].acked => r.acked
                /\ r.fresh => episodes[i].fresh
                /\ episodes' = [episodes EXCEPT ![i] = r]
            BY <2>fade DEF Fades
        <3>2. /\ episodes' \in Seq(Row) /\ Len(episodes') = Len(episodes)
              /\ \A j \in Ids : episodes'[j] = IF j = i THEN r ELSE episodes[j]
            BY <2>t, <2>rows, <3>1, ExceptSeq
        <3>3. Ids' = Ids /\ Last' = Last
            BY <2>rows, <3>2, LenProperties DEF Ids, Last
        <3>4. \A j \in Ids : /\ episodes'[j].late = episodes[j].late
                             /\ episodes'[j].open => episodes[j].open
                             /\ episodes[j].acked => episodes'[j].acked
                             /\ episodes'[j].fresh => episodes[j].fresh
            BY <3>1, <3>2
        <3>. QED BY <2>0, <3>2, <3>3, <3>4 DEF LateOK, InForce, OlderOpenIsQuiet
    <2>same. ASSUME UNCHANGED episodes
             PROVE  /\ episodes' \in Seq(Row) /\ Ids' = Ids /\ Last' = Last
                    /\ LastFresh' = LastFresh /\ Poll' = Poll /\ Ack' = Ack
                    /\ LateOK' /\ OlderOpenIsQuiet'
        BY <2>0, <2>t, <2>same DEF Ids, Last, LastFresh, LateOK, InForce, OlderOpenIsQuiet, Poll, Ack
    <2>all. ASSUME episodes' \in Seq(Row), Typed', WalkOK', TargetOK', LateOK', OlderOpenIsQuiet'
            PROVE  OccInv'
        BY <2>all DEF OccInv, TypeOK, Typed, Poll, Ack, Truth, Budget, Row
    <2>1. CASE Start
        <3> USE DEF Start, At
        <3>0. UNCHANGED episodes /\ Ids' = Ids /\ Last' = Last /\ LastFresh' = LastFresh
              /\ Poll' = Poll /\ Ack' = Ack
            BY <2>1, <2>same
        <3>1. poll' \in Poll /\ (poll'.current => poll'.target # 0)
            BY <1>0, <2>t, <2>1 DEF Typed, Poll, PollPc
        <3>2. Typed'
            <4>1. UNCHANGED <<kind, counter, snapshot, other, ack, truth, budget>>
                BY <2>1
            <4>. QED BY <2>t, <4>1, <3>0, <3>1 DEF Typed
        <3>3. WalkOK'
            BY <1>0, <2>0, <2>t, <2>1 DEF WalkOK, Fits, Typed, Poll
        <3>4. TargetOK'
            BY <2>0, <2>t, <2>1, <3>0 DEF TargetOK, Typed, Poll
        <3>. QED BY <2>all, <2>same, <3>0, <3>2, <3>3, <3>4
    <2>2. CASE Walk
        <3> USE DEF Walk, At, Fault
        <3>0. UNCHANGED episodes /\ Ids' = Ids /\ Last' = Last /\ LastFresh' = LastFresh
              /\ Poll' = Poll /\ Ack' = Ack
            BY <2>2, <2>same
        <3>1. PICK w \in Walks :
                /\ poll' = [poll EXCEPT !.pc = "save", !.got = w.got, !.true = truth.since,
                                        !.atWalk = LastFresh, !.delta = Delta(w.got, snapshot)]
                /\ truth' = [truth EXCEPT !.trust = w.trust]
                /\ budget' = budget \/ (budget.faults > 0
                                        /\ budget' = [budget EXCEPT !.faults = @ - 1])
            BY <2>2
        <3>2. /\ w.got \in Nat \cup {NONE} /\ Fits(w.got)
              /\ w.trust \in {"exact", "atMost", "none"}
            <4>1. /\ counter % (Max32 + 1) \in 0..Max32
                  /\ counter % (Max64 + 1) \in 0..Max64
                BY <1>0, <2>t DEF Typed
            <4>2. truth.trust \in {"exact", "atMost", "none"}
                BY <2>t DEF Typed, Truth
            <4>. QED BY <1>0, <2>t, <4>1, <4>2 DEF Walks, Fits, Typed
        <3>3. Delta(w.got, snapshot) \in Nat
            BY <2>0, <3>2, <1>DeltaIsNat DEF WalkOK
        <3>4. poll' \in Poll /\ poll'.pc = "save" /\ poll'.current = poll.current
              /\ poll'.target = poll.target /\ poll'.got = w.got /\ poll'.true = truth.since
            BY <2>t, <2>b, <3>1, <3>2, <3>3 DEF Typed, Poll, PollPc, Truth
        <3>5. truth' \in Truth /\ truth'.since = truth.since
            BY <2>t, <3>1, <3>2 DEF Typed, Truth
        <3>6. budget' \in Budget
            BY <1>0, <2>t, <3>1 DEF Typed, Budget
        <3>7. UNCHANGED <<kind, counter, snapshot, other, ack>>
            BY <2>2
        <3>8. Typed'
            BY <2>t, <3>0, <3>4, <3>5, <3>6, <3>7 DEF Typed
        <3>9. WalkOK'
            BY <2>0, <2>t, <3>2, <3>4, <3>5, <3>7 DEF WalkOK, Fits, Typed, Truth
        <3>10. TargetOK'
            BY <3>4 DEF TargetOK
        <3>. QED BY <2>all, <2>same, <3>0, <3>8, <3>9, <3>10
    <2>3. CASE Save
        <3> USE DEF Save, At, IdlePoll
        <3>0. UNCHANGED episodes /\ Ids' = Ids /\ Last' = Last /\ LastFresh' = LastFresh
              /\ Poll' = Poll /\ Ack' = Ack
            BY <2>3, <2>same
        <3> DEFINE due == IF NONE \in {poll.got, snapshot} THEN 0 ELSE poll.true
        <3>1. /\ snapshot' = poll.got
              /\ \/ poll.delta = 0 /\ poll' = [IdlePoll EXCEPT !.pc = "quiet"]
                 \/ /\ poll.delta # 0
                    /\ poll' = [poll EXCEPT !.pc = "find", !.got = NONE, !.true = due,
                                            !.atStart = LastFresh]
              /\ \E n \in {0, due} : truth' = [truth EXCEPT !.since = @ - poll.true,
                                                           !.booked = Booked(n)]
              /\ UNCHANGED <<kind, counter, other, ack, budget>> /\ poll.pc = "save"
            BY <2>3
        <3>2. /\ poll.true \in Nat /\ due \in Nat /\ truth.booked \in Nat /\ truth.since \in Nat
              /\ poll.true <= truth.since /\ poll.got \in Nat \cup {NONE} /\ poll.delta \in Nat
            BY <2>0, <2>t, <3>1 DEF Typed, Poll, Truth, WalkOK
        <3> HIDE DEF due
        <3>3. \A n \in {0, due} : Booked(n) \in Nat
            BY <3>2 DEF Booked
        <3>4. truth' \in Truth
            <4>1. PICK n \in {0, due} : truth' = [truth EXCEPT !.since = @ - poll.true,
                                                           !.booked = Booked(n)]
                BY <3>1
            <4>2. Booked(n) \in Nat /\ truth.since - poll.true \in Nat /\ truth \in Truth
                BY <2>t, <3>2, <3>3 DEF Typed
            <4>. QED BY <4>1, <4>2 DEF Truth
        <3>5. /\ poll' \in Poll /\ poll'.got = NONE /\ poll'.pc \in {"quiet", "find"}
              /\ poll'.current => poll'.target # 0
              /\ poll'.pc = "find" => poll'.delta # 0 /\ poll'.atStart = LastFresh
            BY <2>t, <2>b, <3>1, <3>2 DEF Typed, Poll, PollPc
        <3>6. Typed'
            BY <2>t, <3>0, <3>1, <3>2, <3>4, <3>5 DEF Typed
        <3>7. WalkOK'
            BY <2>0, <2>t, <3>1, <3>2, <3>5 DEF WalkOK, Fits, Typed, Poll
        <3>8. TargetOK'
            BY <2>b, <3>0, <3>5 DEF TargetOK
        <3>. QED BY <2>all, <2>same, <3>0, <3>6, <3>7, <3>8
    <2>4. CASE Find
        <3>0. UNCHANGED episodes /\ Ids' = Ids /\ Last' = Last /\ LastFresh' = LastFresh
              /\ Poll' = Poll /\ Ack' = Ack
            BY <2>4, <2>same DEF Find
        <3>1. /\ poll.pc = "find"
              /\ poll' = [poll EXCEPT !.pc = "apply", !.target = Last, !.current = Current,
                              !.close = Supersedes, !.atWalk = FALSE, !.atStart = FALSE]
              /\ UNCHANGED <<kind, counter, snapshot, other, ack, truth, budget>>
            BY <2>4 DEF Find, At
        <3>2. /\ Current \in BOOLEAN /\ Supersedes \in BOOLEAN /\ Last \in Ids \cup {0}
              /\ Current => Last # 0 /\ InForce(Last)
              /\ Supersedes => Last # 0
              /\ Last # 0 /\ ~Current /\ ~Supersedes =>
                    ~episodes[Last].open \/ ~episodes[Last].fresh
            <4>1. Last # 0 => Last \in Ids /\ episodes[Last] \in Row
                BY <2>rows
            <4>2. poll.atStart \in BOOLEAN /\ poll.atWalk \in BOOLEAN
                BY <2>t DEF Typed, Poll
            <4>3. poll.atStart \/ ~LastFresh
                BY <2>0, <3>1 DEF TargetOK
            <4>. QED BY <4>1, <4>2, <4>3 DEF Current, Supersedes, InForce, LastFresh, Row
        <3>3. /\ poll' \in Poll /\ poll'.pc = "apply" /\ poll'.target = Last
              /\ poll'.current = Current /\ poll'.close = Supersedes
              /\ poll'.got = poll.got /\ poll'.delta = poll.delta
            BY <2>t, <3>1, <3>2 DEF Typed, Poll, PollPc
        <3>4. Typed'
            BY <2>t, <3>0, <3>1, <3>2, <3>3 DEF Typed
        <3>5. WalkOK'
            BY <2>0, <3>1, <3>3 DEF WalkOK, Fits
        <3>6. Last # 0 => Last \in Ids /\ episodes' = episodes
            BY <2>rows, <3>0
        <3>7. TargetOK'
            BY <2>0, <3>0, <3>2, <3>3, <3>6 DEF TargetOK, LateOK
        <3>. QED BY <2>all, <2>same, <3>0, <3>4, <3>5, <3>7
    <2>5. CASE Quiet \/ NotYetQuiet
        <3> USE DEF Quiet, NotYetQuiet, At, IdlePoll, Candidates
        <3>0. UNCHANGED episodes /\ Ids' = Ids /\ Last' = Last /\ LastFresh' = LastFresh
              /\ Poll' = Poll /\ Ack' = Ack
            BY <2>5, <2>same
        <3>1. /\ \/ poll' = IdlePoll
                 \/ \E rows \in SUBSET Ids : poll' = [IdlePoll EXCEPT !.pc = "close", !.rows = rows]
              /\ UNCHANGED <<kind, counter, snapshot, other, ack, truth, budget>>
            BY <2>5
        <3>2. /\ poll' \in Poll /\ poll'.pc \in {"idle", "close"} /\ poll'.got = NONE
              /\ ~poll'.current
            <4>1. CASE poll' = IdlePoll
                BY <4>1 DEF Poll, PollPc
            <4>2. ASSUME NEW rows \in SUBSET Ids, poll' = [IdlePoll EXCEPT !.pc = "close", !.rows = rows]
                  PROVE  /\ poll' \in Poll /\ poll'.pc = "close" /\ poll'.got = NONE
                         /\ ~poll'.current
                BY <4>2 DEF Poll, PollPc
            <4>. QED BY <3>1, <4>1, <4>2
        <3>3. Typed'
            BY <2>t, <3>0, <3>1, <3>2 DEF Typed
        <3>4. WalkOK'
            BY <2>0, <3>1, <3>2 DEF WalkOK, Fits
        <3>5. TargetOK'
            BY <3>2 DEF TargetOK
        <3>. QED BY <2>all, <2>same, <3>0, <3>3, <3>4, <3>5
    <2>6. CASE PollFails
        <3> USE DEF PollFails, At, Fault, IdlePoll
        <3>0. UNCHANGED episodes /\ Ids' = Ids /\ Last' = Last /\ LastFresh' = LastFresh
              /\ Poll' = Poll /\ Ack' = Ack
            BY <2>6, <2>same
        <3>1. poll' \in Poll /\ (poll'.current => poll'.target # 0)
            BY <1>0, <2>t, <2>6 DEF Typed, Poll, PollPc
        <3>2. budget' \in Budget
            BY <1>0, <2>t, <2>6 DEF Typed, Budget
        <3>3. Typed'
            <4>1. UNCHANGED <<kind, counter, snapshot, other, ack, truth>>
                BY <2>6
            <4>. QED BY <2>t, <4>1, <3>0, <3>1, <3>2 DEF Typed
        <3>4. WalkOK'
            BY <1>0, <2>0, <2>t, <2>6 DEF WalkOK, Fits, Typed, Poll
        <3>5. TargetOK'
            BY <2>0, <2>t, <2>6, <3>0 DEF TargetOK, Typed, Poll
        <3>. QED BY <2>all, <2>same, <3>0, <3>3, <3>4, <3>5
    <2>7. CASE OtherQuiet
        <3> USE DEF OtherQuiet, Candidates
        <3>0. UNCHANGED episodes /\ Ids' = Ids /\ Last' = Last /\ LastFresh' = LastFresh
              /\ Poll' = Poll /\ Ack' = Ack
            BY <2>7, <2>same
        <3>1. other' \subseteq Ids
            BY <1>0, <2>t, <2>7 DEF Typed
        <3>2. Typed'
            <4>1. UNCHANGED <<kind, counter, snapshot, poll, ack, truth, budget>>
                BY <2>7
            <4>. QED BY <2>t, <4>1, <3>0, <3>1 DEF Typed
        <3>3. WalkOK'
            BY <1>0, <2>0, <2>t, <2>7 DEF WalkOK, Fits, Typed, Poll
        <3>4. TargetOK'
            BY <2>0, <2>t, <2>7, <3>0 DEF TargetOK, Typed, Poll
        <3>. QED BY <2>all, <2>same, <3>0, <3>2, <3>3, <3>4
    <2>8. CASE AckFind
        <3> USE DEF AckFind, Edit
        <3>0. UNCHANGED episodes /\ Ids' = Ids /\ Last' = Last /\ LastFresh' = LastFresh
              /\ Poll' = Poll /\ Ack' = Ack
            BY <2>8, <2>same
        <3>1. ack' \in Ack
            BY <1>0, <2>t, <2>8 DEF Typed, Ack
        <3>2. budget' \in Budget
            BY <1>0, <2>t, <2>8 DEF Typed, Budget
        <3>3. Typed'
            <4>1. UNCHANGED <<kind, counter, snapshot, poll, other, truth>>
                BY <2>8
            <4>. QED BY <2>t, <4>1, <3>0, <3>1, <3>2 DEF Typed
        <3>4. WalkOK'
            <4>1. ack'.id # 0 /\ UNCHANGED <<kind, snapshot, poll, truth>>
                BY <2>8, <2>rows
            <4>. QED BY <2>0, <4>1 DEF WalkOK, Fits
        <3>5. TargetOK'
            BY <2>0, <2>t, <2>8, <3>0 DEF TargetOK, Typed, Poll
        <3>. QED BY <2>all, <2>same, <3>0, <3>3, <3>4, <3>5
    <2>9. CASE Happens
        <3> USE DEF Happens
        <3>0. UNCHANGED episodes /\ Ids' = Ids /\ Last' = Last /\ LastFresh' = LastFresh
              /\ Poll' = Poll /\ Ack' = Ack
            BY <2>9, <2>same
        <3>1. counter' \in Nat
            BY <1>0, <2>t, <2>9 DEF Typed
        <3>2. truth' \in Truth
            BY <1>0, <2>t, <2>9 DEF Typed, Truth
        <3>3. budget' \in Budget
            BY <1>0, <2>t, <2>9 DEF Typed, Budget
        <3>4. Typed'
            <4>1. UNCHANGED <<kind, snapshot, poll, other, ack>>
                BY <2>9
            <4>. QED BY <2>t, <4>1, <3>0, <3>1, <3>2, <3>3 DEF Typed
        <3>5. WalkOK'
            <4>1. truth'.since = truth.since + 1 /\ truth.since \in Nat /\ poll.true \in Nat
                  /\ UNCHANGED <<kind, snapshot, poll, ack>>
                BY <2>t, <2>9 DEF Typed, Truth, Poll
            <4>. QED BY <2>0, <4>1 DEF WalkOK, Fits
        <3>6. TargetOK'
            BY <2>0, <2>t, <2>9, <3>0 DEF TargetOK, Typed, Poll
        <3>. QED BY <2>all, <2>same, <3>0, <3>4, <3>5, <3>6
    <2>10. CASE Reboot
        <3> USE DEF Reboot, Edit, At
        <3>0. UNCHANGED episodes /\ Ids' = Ids /\ Last' = Last /\ LastFresh' = LastFresh
              /\ Poll' = Poll /\ Ack' = Ack
            BY <2>10, <2>same
        <3>1. counter' \in Nat
            BY <1>0, <2>t, <2>10 DEF Typed
        <3>2. truth' \in Truth
            <4>1. poll.true \in Nat /\ truth.trust \in {"exact", "atMost", "none"}
                BY <2>t DEF Typed, Truth, Poll
            <4>2. \E n \in {0, poll.true}, t \in {"none", "atMost"} :
                    truth' = [truth EXCEPT !.since = n, !.trust = t]
                BY <2>10
            <4>3. PICK n \in {0, poll.true}, t \in {"none", "atMost"} :
                    truth' = [truth EXCEPT !.since = n, !.trust = t]
                BY <4>2
            <4>4. n \in Nat /\ truth \in Truth
                BY <2>t, <4>1 DEF Typed
            <4>. QED BY <4>3, <4>4 DEF Truth
        <3>3. budget' \in Budget
            BY <1>0, <2>t, <2>10 DEF Typed, Budget
        <3>4. Typed'
            <4>1. UNCHANGED <<kind, snapshot, poll, other, ack>>
                BY <2>10
            <4>. QED BY <2>t, <4>1, <3>0, <3>1, <3>2, <3>3 DEF Typed
        <3>5. WalkOK'
            BY <1>0, <2>0, <2>t, <2>10 DEF WalkOK, Fits, Typed, Poll, Truth
        <3>6. TargetOK'
            BY <2>0, <2>t, <2>10, <3>0 DEF TargetOK, Typed, Poll
        <3>. QED BY <2>all, <2>same, <3>0, <3>4, <3>5, <3>6
    <2>11. CASE Restart
        <3> USE DEF Restart, Edit, IdlePoll, IdleAck
        <3>0. UNCHANGED episodes /\ Ids' = Ids /\ Last' = Last /\ LastFresh' = LastFresh
              /\ Poll' = Poll /\ Ack' = Ack
            BY <2>11, <2>same
        <3>1. poll' \in Poll /\ (poll'.current => poll'.target # 0)
            BY <1>0, <2>t, <2>11 DEF Typed, Poll, PollPc
        <3>2. other' \subseteq Ids
            BY <1>0, <2>t, <2>11 DEF Typed
        <3>3. ack' \in Ack
            BY <1>0, <2>t, <2>11 DEF Typed, Ack
        <3>4. budget' \in Budget
            BY <1>0, <2>t, <2>11 DEF Typed, Budget
        <3>5. Typed'
            <4>1. UNCHANGED <<kind, counter, snapshot, truth>>
                BY <2>11
            <4>. QED BY <2>t, <4>1, <3>0, <3>1, <3>2, <3>3, <3>4 DEF Typed
        <3>6. WalkOK'
            BY <1>0, <2>0, <2>t, <2>11 DEF WalkOK, Fits, Typed, Poll, Ack
        <3>7. TargetOK'
            BY <2>0, <2>t, <2>11, <3>0 DEF TargetOK, Typed, Poll
        <3>. QED BY <2>all, <2>same, <3>0, <3>5, <3>6, <3>7
    <2>12. ASSUME NEW i, Fades(i), UNCHANGED <<kind, counter, snapshot, truth>>,
                  poll' = poll \/ (poll' \in Poll /\ poll'.pc \in {"idle", "close"}
                                    /\ (poll'.current => poll'.target # 0)
                                    /\ Fits(poll'.got)),
                  other' \subseteq other,
                  ack' \in Ack, ack'.pc # "idle" => ack'.id # 0, budget' \in Budget
           PROVE  OccInv'
        <3>0. /\ episodes' \in Seq(Row) /\ Ids' = Ids /\ Last' = Last
              /\ LateOK' /\ OlderOpenIsQuiet'
              /\ \A j \in Ids : /\ episodes'[j].late = episodes[j].late
                                /\ episodes'[j].open => episodes[j].open
                                /\ episodes'[j].fresh => episodes[j].fresh
            BY <2>12, <2>fade
        <3>1. Poll' = Poll /\ Ack' = Ack /\ Last \in Ids \cup {0}
            BY <2>rows, <3>0 DEF Poll, Ack
        <3>2. Typed'
            BY <2>t, <2>12, <3>0, <3>1 DEF Typed
        <3>3. WalkOK'
            BY <2>0, <2>12 DEF WalkOK, Fits
        <3>4. TargetOK'
            <4>1. CASE poll' = poll
                <5>1. LastFresh' => LastFresh
                    BY <3>0, <3>1 DEF LastFresh
                <5>2. poll.pc = "apply" /\ poll.current => Last # 0
                    BY <2>0, <2>t DEF Typed, TargetOK
                <5>. QED BY <2>0, <3>0, <3>1, <4>1, <5>1, <5>2 DEF TargetOK
            <4>2. CASE poll'.pc \in {"idle", "close"}
                BY <4>2 DEF TargetOK
            <4>. QED BY <2>12, <4>1, <4>2
        <3>. QED BY <2>all, <3>0, <3>2, <3>3, <3>4
    <2>13. ASSUME NEW i \in Ids, CloseRow(i) PROVE Fades(i)
        <3>1. [episodes[i] EXCEPT !.open = FALSE, !.fresh = FALSE] \in Row
            BY <2>rows DEF Row
        <3>2. episodes' = [episodes EXCEPT ![i] = [episodes[i] EXCEPT !.open = FALSE, !.fresh = FALSE]]
            BY <2>13, <2>t, <2>rows DEF CloseRow, Closed
        <3>. QED BY <2>rows, <3>1, <3>2 DEF Fades, Row
    <2>14. CASE CloseQuiet
        <3>1. PICK i \in poll.rows :
                /\ CloseRow(i)
                /\ poll' = IF poll.rows = {i} THEN IdlePoll ELSE [poll EXCEPT !.rows = @ \ {i}]
            BY <2>14 DEF CloseQuiet
        <3>2. poll.pc = "close" /\ UNCHANGED <<kind, counter, snapshot, other, ack, truth, budget>>
            BY <2>14 DEF CloseQuiet, At
        <3>3. i \in Ids /\ Fades(i)
            BY <2>t, <2>13, <3>1 DEF Typed, Poll
        <3>4. /\ poll' \in Poll /\ poll'.pc \in {"idle", "close"}
              /\ poll'.current => poll'.target # 0
              /\ Fits(poll'.got)
            <4>1. CASE poll' = IdlePoll
                BY <4>1 DEF Poll, PollPc, IdlePoll, Fits
            <4>2. CASE poll' = [poll EXCEPT !.rows = @ \ {i}]
                <5>1. /\ poll' \in Poll /\ poll'.pc = poll.pc /\ poll'.current = poll.current
                      /\ poll'.target = poll.target /\ poll'.got = poll.got
                    BY <2>t, <4>2 DEF Typed, Poll
                <5>. QED BY <2>0, <2>t, <3>2, <5>1 DEF Typed, WalkOK, Fits
            <4>. QED BY <3>1, <4>1, <4>2
        <3>. QED BY <2>0, <2>12, <2>t, <3>2, <3>3, <3>4 DEF Typed, WalkOK
    <2>15. CASE OtherClose
        <3>1. PICK i \in other : CloseRow(i) /\ other' = other \ {i}
            BY <2>15 DEF OtherClose
        <3>2. Fades(i)
            BY <2>t, <2>13, <3>1 DEF Typed
        <3>. QED BY <2>12, <2>0, <2>t, <2>15, <3>1, <3>2 DEF OtherClose, Typed, WalkOK
    <2>16. CASE AckMark
        <3>0. ack.pc = "mark" /\ ack.id \in Ids
            BY <2>0, <2>t, <2>16 DEF AckMark, Typed, Ack, WalkOK
        <3>1. [episodes[ack.id] EXCEPT !.acked = TRUE] \in Row
            BY <2>rows, <3>0 DEF Row
        <3>2. episodes' = [episodes EXCEPT ![ack.id] = [episodes[ack.id] EXCEPT !.acked = TRUE]]
            BY <2>16, <2>rows, <3>0 DEF AckMark
        <3>3. Fades(ack.id)
            BY <2>rows, <3>0, <3>1, <3>2 DEF Fades, Row
        <3>4. ack' \in Ack /\ ack'.id # 0
            BY <2>t, <2>rows, <2>16, <3>0 DEF AckMark, Typed, Ack
        <3>. QED BY <2>12, <2>t, <2>16, <3>3, <3>4 DEF AckMark, Typed
    <2>17. CASE AckClose
        <3>0. ack.pc = "close" /\ ack.id \in Ids
            BY <2>0, <2>t, <2>17 DEF AckClose, Typed, Ack, WalkOK
        <3>1. ack' \in Ack /\ ack'.pc = "idle" /\ budget' \in Budget
            BY <1>0, <2>t, <2>17 DEF AckClose, Typed, Ack, IdleAck, Fault, Budget
        <3>2. CASE CloseRow(ack.id)
            <4>1. Fades(ack.id)
                BY <2>13, <3>0, <3>2
            <4>. QED BY <2>12, <2>t, <2>17, <3>1, <4>1 DEF AckClose, Typed
        <3>3. CASE UNCHANGED episodes
            <4>1. UNCHANGED <<kind, counter, snapshot, poll, other, truth>>
                BY <2>17 DEF AckClose
            <4>2. Typed' /\ WalkOK' /\ TargetOK'
                BY <2>0, <2>t, <2>same, <3>1, <3>3, <4>1 DEF Typed, WalkOK, Fits, TargetOK
            <4>. QED BY <2>all, <2>same, <3>3, <4>2
        <3>. QED BY <2>17, <3>2, <3>3 DEF AckClose
    <2>18. ASSUME NEW i \in Ids, Age(i) PROVE OccInv'
        <3>1. [episodes[i] EXCEPT !.fresh = FALSE] \in Row
            BY <2>rows DEF Row
        <3>2. episodes' = [episodes EXCEPT ![i] = [episodes[i] EXCEPT !.fresh = FALSE]]
            BY <2>18, <2>rows DEF Age
        <3>3. Fades(i)
            BY <2>rows, <3>1, <3>2 DEF Fades, Row
        <3>. QED BY <2>0, <2>12, <2>t, <2>18, <3>3 DEF Age, Typed, WalkOK
    <2>19. CASE Apply
        <3>1. /\ poll.pc = "apply" /\ poll' = [IdlePoll EXCEPT !.pc = "quiet"]
              /\ truth' = [truth EXCEPT !.booked = Booked(poll.true)]
              /\ UNCHANGED <<kind, counter, snapshot, other, ack, budget>>
            BY <2>19 DEF Apply, At
        <3>2. /\ poll.delta \in Nat \ {0} /\ poll.true \in Nat /\ truth.booked \in Nat
              /\ poll.target = Last /\ poll.current \in BOOLEAN /\ poll.close \in BOOLEAN
              /\ poll.current => Last # 0 /\ episodes[Last].late = 0
              /\ poll.close => Last # 0
              /\ Last # 0 /\ ~poll.current /\ ~poll.close =>
                    ~episodes[Last].open \/ ~episodes[Last].fresh
            BY <2>0, <2>t, <3>1 DEF Typed, Poll, Truth, WalkOK, TargetOK
        <3>3. truth' \in Truth /\ truth'.since = truth.since
            <4>1. Booked(poll.true) \in Nat
                BY <3>2 DEF Booked
            <4>. QED BY <2>t, <3>1, <4>1 DEF Typed, Truth
        <3>4. /\ poll'.pc = "quiet" /\ poll'.got = NONE /\ ~poll'.current
            BY <3>1 DEF IdlePoll
        <3>5. /\ episodes' \in Seq(Row) /\ Ids \subseteq Ids' /\ LateOK' /\ OlderOpenIsQuiet'
            <4>1. CASE poll.current
                <5> DEFINE r == [episodes[Last] EXCEPT !.total = @ + poll.delta,
                                    !.fresh = episodes[Last].open,
                                    !.late = IF InForce(Last) THEN @ ELSE @ + 1]
                <5>1. Last \in Ids /\ episodes[Last] \in Row
                    BY <2>rows, <3>2, <4>1
                <5>2. r \in Row /\ r.open = episodes[Last].open /\ r.acked = episodes[Last].acked
                      /\ r.late = IF InForce(Last) THEN 0 ELSE 1
                    <6>1. /\ episodes[Last].total + poll.delta \in Nat \ {0}
                          /\ episodes[Last].open \in BOOLEAN /\ episodes[Last].late = 0
                        BY <3>2, <4>1, <5>1 DEF Row
                    <6>2. (IF InForce(Last) THEN episodes[Last].late ELSE episodes[Last].late + 1)
                          = IF InForce(Last) THEN 0 ELSE 1
                        BY <6>1
                    <6>3. PICK late \in {0, 1} :
                            /\ late = IF InForce(Last) THEN 0 ELSE 1
                            /\ r = [episodes[Last] EXCEPT !.total = episodes[Last].total + poll.delta,
                                        !.fresh = episodes[Last].open, !.late = late]
                        BY <6>2, Zenon
                    <6> HIDE DEF r
                    <6>. QED BY <5>1, <6>1, <6>3 DEF Row
                <5>3. episodes' = [episodes EXCEPT ![Last] = r]
                    BY <2>19, <2>rows, <3>2, <4>1, <5>1 DEF Apply
                <5> HIDE DEF r
                <5>4. /\ episodes' \in Seq(Row) /\ Len(episodes') = Len(episodes)
                      /\ \A j \in Ids : episodes'[j] = IF j = Last THEN r ELSE episodes[j]
                    BY <2>t, <2>rows, <5>1, <5>2, <5>3, ExceptSeq
                <5>5. Ids' = Ids
                    BY <2>rows, <5>4, LenProperties DEF Ids
                <5>6. LateOK'
                    BY <2>0, <5>2, <5>4, <5>5 DEF LateOK, InForce
                <5>7. OlderOpenIsQuiet'
                    BY <2>0, <2>rows, <5>4, <5>5 DEF OlderOpenIsQuiet
                <5>. QED BY <5>4, <5>5, <5>6, <5>7
            <4>2. CASE ~poll.current
                <5> DEFINE new == [total |-> poll.delta, open |-> TRUE, acked |-> FALSE,
                                   fresh |-> TRUE, late |-> 0]
                           s == IF poll.close THEN Closed(Last) ELSE episodes
                <5>1. new \in Row /\ new.late = 0
                    BY <3>2 DEF Row
                <5>2. episodes' = Append(s, new)
                    BY <2>19, <3>2, <4>2 DEF Apply
                <5>3. /\ s \in Seq(Row) /\ Len(s) = Last
                      /\ \A i \in Ids : /\ s[i].late = episodes[i].late
                                        /\ s[i].open => episodes[i].open
                                        /\ s[i].acked = episodes[i].acked
                                        /\ s[i].fresh => episodes[i].fresh
                      /\ Last # 0 => ~s[Last].open \/ ~s[Last].fresh
                    <6>1. CASE ~poll.close
                        BY <2>t, <2>rows, <3>2, <4>2, <6>1
                    <6>2. CASE poll.close
                        <7> DEFINE r == [episodes[Last] EXCEPT !.open = FALSE, !.fresh = FALSE]
                        <7>1. Last \in Ids /\ r \in Row /\ ~r.open /\ ~r.fresh
                              /\ r.late = episodes[Last].late /\ r.acked = episodes[Last].acked
                            <8>1. Last \in Ids /\ episodes[Last] \in Row
                                BY <2>rows, <3>2, <6>2
                            <8>. QED BY <8>1 DEF Row
                        <7>2. s = [episodes EXCEPT ![Last] = r]
                            BY <2>rows, <6>2, <7>1 DEF Closed
                        <7> HIDE DEF r, s
                        <7>3. /\ s \in Seq(Row) /\ Len(s) = Len(episodes)
                              /\ \A j \in Ids : s[j] = IF j = Last THEN r ELSE episodes[j]
                            BY <2>t, <2>rows, <7>1, <7>2, ExceptSeq
                        <7>. QED BY <2>rows, <7>1, <7>3
                    <6>. QED BY <6>1, <6>2
                <5> HIDE DEF new, s
                <5>4. /\ episodes' \in Seq(Row) /\ Len(episodes') = Last + 1
                      /\ \A i \in Ids : episodes'[i] = s[i]
                      /\ episodes'[Last + 1] = new
                    BY <2>rows, <5>1, <5>2, <5>3, AppendProperties
                <5>5. Ids' = 1..(Last + 1) /\ Last \in Nat
                    BY <2>rows, <5>4, LenProperties DEF Ids
                <5>6. LateOK'
                    BY <2>0, <2>rows, <5>1, <5>3, <5>4, <5>5 DEF LateOK, InForce
                <5>7. OlderOpenIsQuiet'
                    <6>1. ASSUME NEW i \in 1..(Last + 1), NEW j \in 1..(Last + 1), i < j,
                                 episodes'[i].open, episodes'[i].fresh
                          PROVE  FALSE
                        <7>1. i \in Ids /\ s[i].open /\ s[i].fresh
                            BY <2>rows, <5>4, <5>5, <6>1
                        <7>2. CASE i = Last
                            BY <2>rows, <5>3, <7>1, <7>2
                        <7>3. CASE i < Last
                            BY <2>0, <2>rows, <5>3, <7>1, <7>3 DEF OlderOpenIsQuiet
                        <7>. QED BY <2>rows, <7>1, <7>2, <7>3
                    <6>. QED BY <5>5, <6>1 DEF OlderOpenIsQuiet
                <5>8. Ids \subseteq Ids'
                    BY <2>rows, <5>5
                <5>. QED BY <5>4, <5>6, <5>7, <5>8
            <4>. QED BY <3>2, <4>1, <4>2
        <3>6. Typed'
            <4>1. poll' \in Poll'
                BY <3>1 DEF Poll, PollPc, IdlePoll
            <4>2. ack' \in Ack' /\ other' \subseteq Ids'
                BY <2>t, <3>1, <3>5 DEF Typed, Ack
            <4>. QED BY <2>t, <3>1, <3>3, <3>4, <4>1, <4>2 DEF Typed
        <3>7. WalkOK'
            BY <2>0, <3>1, <3>3, <3>4 DEF WalkOK, Fits
        <3>8. TargetOK'
            BY <3>4 DEF TargetOK
        <3>. QED BY <2>all, <3>5, <3>6, <3>7, <3>8
    <2>. QED BY <1>2, <2>1, <2>2, <2>3, <2>4, <2>5, <2>6, <2>7, <2>8, <2>9, <2>10, <2>11,
                <2>14, <2>15, <2>16, <2>17, <2>18, <2>19 DEF Next, PollStep
<1>3. OccInv /\ UNCHANGED vars => OccInv'
    <2>1. TypeOK /\ UNCHANGED vars => TypeOK'
        BY DEF TypeOK, vars, Ids
    <2>2. WalkOK /\ LateOK /\ TargetOK /\ OlderOpenIsQuiet /\ UNCHANGED vars
            => WalkOK' /\ LateOK' /\ TargetOK' /\ OlderOpenIsQuiet'
        BY DEF WalkOK, LateOK, TargetOK, OlderOpenIsQuiet, InForce, vars, Ids, Fits, LastFresh, Last
    <2>. QED BY <2>1, <2>2 DEF OccInv
<1>. QED BY <1>1, <1>2, <1>3, PTL DEF Spec

-----------------------------------------------------------------------------
(* Theorems                                                                  *)

\* Counters, deltas and rows keep their types: no delta is negative and no total
\* zero, and what is in progress names rows that exist.
THEOREM OccurrenceTypesHold == Spec => []TypeOK
BY OccurrencesHold, PTL DEF OccInv

\* An episode acknowledged or closed takes at most one delta more.
THEOREM LateDeltaIsOne == Spec => []AtMostOneLateDelta
<1>1. OccInv => AtMostOneLateDelta
    BY DEF OccInv, LateOK, AtMostOneLateDelta
<1>. QED BY <1>1, OccurrencesHold, PTL

\* An episode left open beside a newer one has not been seen for 24 hours.
THEOREM OlderIsQuiet == Spec => []OlderOpenIsQuiet
BY OccurrencesHold, PTL DEF OccInv

-----------------------------------------------------------------------------
(* The totals                                                                *)

Width == IF kind = "CRC_FCS" THEN Max64 + 1 ELSE Max32 + 1

\* A sample a reset counter may take for its predecessor without a wrap.
Risky(x) == x # NONE /\ (x \in High(Max32)..Max32 \/ x >= High(Max64))

\* The sample is what the counter showed n events ago, or the counter has been
\* reset since and can be told from one that wrapped.
Tracks(s, n) ==
    s # NONE =>
        \/ n <= counter /\ s = (counter - n) % Width
        \/ truth.trust = "atMost" /\ counter <= n /\ ~Risky(s)

Due == IF NONE \in {poll.got, snapshot} THEN 0 ELSE poll.true
Matches(sum, n) == sum <= n /\ (truth.trust = "exact" => sum = n)

\* u are the sums of the totals of e up to each of its rows.
SumsOf(e, u) ==
    /\ u \in [0..Len(e) -> Nat] /\ u[0] = 0
    /\ \A i \in 1..Len(e) : u[i] = u[i - 1] + e[i].total

TotalMatches == \E u : SumsOf(episodes, u) /\ Matches(u[Len(episodes)], truth.booked)

\* While there is a way to tell, what is stored, collected, found and booked
\* agrees with what has happened.
CountInv ==
    truth.trust # "none" =>
        /\ truth.since <= Low(Max32) + 1
        /\ Tracks(snapshot, truth.since)
        /\ poll.pc = "save" =>
            Tracks(poll.got, truth.since - poll.true) /\ Matches(poll.delta, Due)
        /\ poll.pc \in {"find", "apply"} => Matches(poll.delta, poll.true)
        /\ TotalMatches

\* The totals are what happened between the samples they were made of, however
\* wide the counters are: through wraps, acknowledgements and restarts, and at most
\* that after a reboot; until a walk stores a value that is not the counter's, or
\* a reset passes for a wrap (see TotalsAreEvents).
THEOREM TotalsCount == Spec => []TotalsAreEvents
<1>0. /\ Max32 \in Nat \ {0} /\ Max64 \in Nat /\ 2 * Max32 < Max64 /\ NONE \notin Nat
      /\ Starts \subseteq Nat
    BY OccurrenceAssumption
<1>low. \A m \in Nat : Low(m) \in Nat /\ High(m) \in Nat /\ Low(m) + High(m) <= m
                       /\ High(m) <= m /\ m <= 4 * Low(m) + 3 /\ 4 * Low(m) <= m
                       /\ m - Low(m) >= High(m)
    BY DEF Low, High
<1>max. Low(Max32) \in Nat /\ Low(Max32) + 1 <= Max32 /\ Max32 < Max64
    <2>1. Max32 \in Nat /\ Max32 >= 1 /\ Max64 \in Nat /\ 2 * Max32 < Max64
        BY <1>0
    <2>2. Low(Max32) \in Nat /\ 4 * Low(Max32) <= Max32
        BY <1>low, <2>1
    <2>3. Low(Max32) + 1 <= Max32
        BY <2>1, <2>2
    <2>4. Max32 < Max64
        BY <2>1
    <2>. QED BY <2>2, <2>3, <2>4
\* A counter that moves on by less than its width wraps once at most.
<1>Wraps. ASSUME NEW M \in Nat \ {0}, NEW a \in Nat, NEW n \in Nat, n < M
          PROVE  (a + n) % M \in {(a % M) + n, (a % M) + n - M} /\ (a + n) % M \in 0 .. M - 1
                 /\ a % M \in 0 .. M - 1
    <2>1. PICK q \in Nat, r \in 0 .. M - 1 : a = M * q + r /\ r = a % M
        <3>1. a % M \in 0 .. M - 1
            OBVIOUS
        <3>2. a \div M \in Nat
            OBVIOUS
        <3>3. a % M = a - M * (a \div M)
            OBVIOUS
        <3>4. \A q \in Nat, r \in 0 .. M - 1 : r = a - M * q => a = M * q + r
            OBVIOUS
        <3>. QED BY <3>1, <3>2, <3>3, <3>4
    <2>2. \A k \in Nat, s \in 0 .. M - 1 : (M * k + s) % M = s
        OBVIOUS
    <2>3. CASE r + n < M
        <3>1. a + n = M * q + (r + n) /\ r + n \in 0 .. M - 1
            BY <2>1, <2>3
        <3>. QED BY <2>1, <2>2, <3>1
    <2>4. CASE r + n >= M
        <3>1. /\ a + n = M * (q + 1) + (r + n - M)
              /\ r + n - M \in 0 .. M - 1 /\ q + 1 \in Nat
            BY <1>Wraps, <2>1, <2>4
        <3>. QED BY <2>1, <2>2, <3>1
    <2>. QED BY <2>3, <2>4
\* The delta of two samples with n events between them is n.
<1>Exact. ASSUME Typed, NEW n \in Nat, n <= counter, n <= Low(Max32) + 1
          PROVE  Delta(counter % Width, (counter - n) % Width) = n
    <2> DEFINE s == (counter - n) % Width
               c == counter % Width
    <2>0. counter \in Nat /\ counter - n \in Nat /\ counter = (counter - n) + n
          /\ kind \in {"CRC_FCS", "DISCARDS"}
        BY <1>Exact DEF Typed
    <2>1. Width \in Nat \ {0} /\ n < Width
        BY <1>0, <1>max, <1>Exact DEF Width
    <2>2. c \in {s + n, s + n - Width} /\ c \in 0 .. Width - 1 /\ s \in 0 .. Width - 1
        BY <1>Wraps, <2>0, <2>1
    <2> HIDE DEF c, s
    <2>3. NONE \notin {c, s}
        BY <1>0, <2>2
    <2>4. ASSUME NEW max \in Nat, s <= max, Width = max + 1, n <= Low(max) + 1
          PROVE  DeltaForWidth(c, s, max) = n
        <3>1. CASE c = s + n
            BY <2>2, <3>1 DEF DeltaForWidth
        <3>2. CASE c = s + n - Width /\ c # s + n
            <4>0. /\ c = s + n - (max + 1) /\ c \in Nat /\ s \in Nat /\ n <= Low(max) + 1
                  /\ Low(max) \in Nat /\ High(max) \in Nat
                BY <1>low, <2>1, <2>2, <2>4, <3>2
            <4>m. /\ max - Low(max) >= High(max) /\ Low(max) <= max
                BY <1>low, <2>4
            <4>s. max \in Nat /\ n \in Nat /\ s <= max /\ n <= max
                BY <1>Exact, <2>1, <2>4
            <4>1. c < s /\ s >= High(max) /\ c <= Low(max) /\ (max - s) + 1 + c = n
                BY <4>0, <4>m, <4>s
            <4>. QED BY <2>2, <4>1 DEF DeltaForWidth
        <3>. QED BY <2>2, <3>1, <3>2
    <2>5. CASE kind = "DISCARDS"
        <3>1. Delta(c, s) = DeltaForWidth(c, s, Max32)
            BY <2>3, <2>5 DEF Delta
        <3>2. Width = Max32 + 1 /\ s <= Max32
            BY <1>0, <2>2, <2>5 DEF Width
        <3>. QED BY <1>0, <1>Exact, <2>4, <3>1, <3>2 DEF c, s
    <2>6. CASE kind = "CRC_FCS"
        <3>1. Width = Max64 + 1 /\ s <= Max64 /\ n <= Low(Max64) + 1
            <4>1. Low(Max32) <= Low(Max64)
                BY <1>0, <1>low
            <4>. QED BY <1>0, <1>low, <1>Exact, <2>2, <2>6, <4>1 DEF Width
        <3>2. DeltaForWidth(c, s, Max64) = n
            BY <1>0, <2>4, <3>1
        <3>3. CASE c <= Max32 /\ s <= Max32
            \* Too far apart for a wrap of the wider counter.
            <4>1. c = s + n
                BY <1>0, <1>low, <1>Exact, <2>2, <3>1, <3>3
            <4>2. Delta(c, s) = DeltaForWidth(c, s, Max32)
                BY <2>3, <3>3 DEF Delta
            <4>. QED BY <2>2, <4>1, <4>2 DEF DeltaForWidth, c, s
        <3>4. CASE ~(c <= Max32 /\ s <= Max32)
            <4>1. Delta(c, s) = DeltaForWidth(c, s, Max64)
                BY <2>3, <2>6, <3>4 DEF Delta
            <4>. QED BY <3>2, <4>1 DEF c, s
        <3>. QED BY <3>3, <3>4
    <2>. QED BY <2>0, <2>5, <2>6
\* After a reset it is at most what the counter shows.
<1>Reset. ASSUME NEW c \in Nat, NEW s \in Nat, Fits(s), Fits(c), ~Risky(s),
                 kind \in {"CRC_FCS", "DISCARDS"}
          PROVE  Delta(c, s) <= c
    <2>1. NONE \notin {c, s}
        BY <1>0
    <2>2. ~(s >= High(Max32) /\ s <= Max32) /\ ~(s >= High(Max64))
        BY <1>0, <1>low, <1>Reset, <2>1 DEF Risky
    <2>3. \E max \in {Max32, Max64} : /\ Delta(c, s) = DeltaForWidth(c, s, max)
                                      /\ max = Max32 => s <= Max32
        BY <1>0, <1>Reset, <2>1 DEF Delta, Fits
    <2>4. ASSUME NEW max \in Nat, ~(s >= High(max))
          PROVE  DeltaForWidth(c, s, max) <= c
        BY <2>4 DEF DeltaForWidth
    <2>. QED BY <1>0, <2>2, <2>3, <2>4
<1>1. Init => CountInv
    <2> SUFFICES ASSUME Init PROVE CountInv
        OBVIOUS
    <2> DEFINE u == [i \in 0..0 |-> 0]
    <2>1. Len(episodes) = 0 /\ episodes = <<>>
        BY DEF Init
    <2>2. SumsOf(episodes, u) /\ u[Len(episodes)] = 0
        BY <2>1 DEF SumsOf
    <2> HIDE DEF u
    <2>3. 0 <= Low(Max32) + 1
        BY <1>0, <1>low
    <2>4. truth.since = 0 /\ truth.booked = 0 /\ snapshot = NONE /\ poll.pc = "idle"
        BY DEF Init, IdlePoll
    <2>5. TotalMatches
        BY <2>2, <2>4 DEF TotalMatches, Matches
    <2>6. Tracks(snapshot, truth.since)
        BY <2>4 DEF Tracks
    <2>. QED BY <2>3, <2>4, <2>5, <2>6 DEF CountInv

<1>2. ASSUME OccInv, CountInv, Next PROVE CountInv'
    <2> SUFFICES ASSUME truth'.trust # "none" PROVE CountInv'
        BY DEF CountInv
    <2>t. Typed /\ WalkOK /\ episodes \in Seq(Row)
        BY <1>2 DEF OccInv, TypeOK, Typed, Poll, Ack, Truth, Budget, Row
    <2>f. /\ counter \in Nat /\ snapshot \in Nat \cup {NONE} /\ kind \in {"CRC_FCS", "DISCARDS"}
          /\ poll.got \in Nat \cup {NONE} /\ poll.true \in Nat /\ poll.delta \in Nat
          /\ truth.since \in Nat /\ truth.booked \in Nat
          /\ truth.trust \in {"exact", "atMost", "none"} /\ poll.pc \in PollPc
          /\ Low(Max32) \in Nat /\ Low(Max32) + 1 <= Max32 /\ Width \in Nat
        <3>2. Width \in Nat
            BY <1>0 DEF Width
        <3>. QED BY <1>max, <2>t, <3>2 DEF Typed, Poll, Truth
    <2>rows. /\ Len(episodes) \in Nat /\ Last = Len(episodes) /\ Ids = 1..Len(episodes)
             /\ \A i \in 1..Len(episodes) : episodes[i] \in Row
        BY <2>t, LenProperties, ElementOfSeq DEF Ids, Last
    \* A step that changes no total.
    <2>sums. ASSUME Len(episodes') = Len(episodes),
                    \A i \in 1..Len(episodes) : episodes'[i].total = episodes[i].total
             PROVE  \A u : SumsOf(episodes, u) => SumsOf(episodes', u)
        BY <2>sums DEF SumsOf
    \* A step of the poll that neither samples nor books, and of everybody else.
    <2>calm. ASSUME UNCHANGED <<kind, counter, snapshot, truth>>,
                    Len(episodes') = Len(episodes),
                    \A i \in 1..Len(episodes) : episodes'[i].total = episodes[i].total,
                    poll'.pc = "save" => poll' = poll,
                    poll'.pc \in {"find", "apply"} =>
                        /\ poll.pc \in {"find", "apply"}
                        /\ poll'.delta = poll.delta /\ poll'.true = poll.true
             PROVE  CountInv'
        <3>1. TotalMatches'
            BY <1>2, <2>sums, <2>calm DEF CountInv, TotalMatches, Matches
        <3>2. Tracks(snapshot, truth.since)' /\ truth'.since <= Low(Max32) + 1
            BY <1>2, <2>calm DEF CountInv, Tracks, Width
        <3>3. ASSUME poll'.pc = "save"
              PROVE  (Tracks(poll.got, truth.since - poll.true) /\ Matches(poll.delta, Due))'
            BY <1>2, <2>calm, <3>3 DEF CountInv, Tracks, Width, Matches, Due
        <3>4. ASSUME poll'.pc \in {"find", "apply"}
              PROVE  Matches(poll.delta, poll.true)'
            BY <1>2, <2>calm, <3>4 DEF CountInv, Matches
        <3>. QED BY <3>1, <3>2, <3>3, <3>4 DEF CountInv
    <2>1. CASE Start \/ Find \/ Quiet \/ NotYetQuiet \/ PollFails \/ OtherQuiet \/ AckFind \/ Restart
        <3>1. UNCHANGED <<kind, counter, snapshot, truth, episodes>>
            BY <2>1 DEF Start, Find, Quiet, NotYetQuiet, PollFails, OtherQuiet, AckFind, Restart
        <3>2. /\ poll'.pc = "save" => poll' = poll
              /\ poll'.pc \in {"find", "apply"} =>
                    /\ poll.pc \in {"find", "apply"}
                    /\ poll'.delta = poll.delta /\ poll'.true = poll.true
            <4>1. poll \in Poll
                BY <2>t DEF Typed
            <4>2. CASE Start
                BY <4>1, <4>2 DEF Start, Poll
            <4>3. CASE Find
                <5>1. /\ poll.pc = "find" /\ \E atWalk, atStart, target, current, close :
                            poll' = [poll EXCEPT !.pc = "apply", !.target = target,
                                        !.current = current, !.close = close,
                                        !.atWalk = atWalk, !.atStart = atStart]
                    BY <4>3 DEF Find, At
                <5>. QED BY <4>1, <5>1 DEF Poll
            <4>4. CASE Quiet \/ NotYetQuiet \/ PollFails \/ Restart
                <5>1. /\ IdlePoll.pc = "idle"
                      /\ \A rows : [IdlePoll EXCEPT !.pc = "close", !.rows = rows].pc = "close"
                    BY DEF IdlePoll
                <5>2. \/ poll' = IdlePoll
                      \/ \E rows : poll' = [IdlePoll EXCEPT !.pc = "close", !.rows = rows]
                    BY <4>4 DEF Quiet, NotYetQuiet, PollFails, Restart
                <5>3. poll'.pc \in {"idle", "close"}
                    BY <5>1, <5>2
                <5>. QED BY <5>3
            <4>5. CASE OtherQuiet \/ AckFind
                BY <4>5 DEF OtherQuiet, AckFind
            <4>. QED BY <2>1, <4>2, <4>3, <4>4, <4>5
        <3>. QED BY <2>calm, <3>1, <3>2
    \* The steps that touch a row leave its total.
    <2>row. ASSUME NEW i \in Ids, NEW r, r.total = episodes[i].total,
                   episodes' = [episodes EXCEPT ![i] = r]
            PROVE  /\ Len(episodes') = Len(episodes)
                   /\ \A j \in 1..Len(episodes) : episodes'[j].total = episodes[j].total
        BY <2>t, <2>rows, <2>row, LenProperties
    <2>close. ASSUME NEW i \in Ids, CloseRow(i)
              PROVE  /\ Len(episodes') = Len(episodes)
                     /\ \A j \in 1..Len(episodes) : episodes'[j].total = episodes[j].total
        <3>1. /\ episodes' = [episodes EXCEPT ![i] =
                                [episodes[i] EXCEPT !.open = FALSE, !.fresh = FALSE]]
              /\ [episodes[i] EXCEPT !.open = FALSE, !.fresh = FALSE].total = episodes[i].total
            BY <2>t, <2>rows, <2>close DEF CloseRow, Closed, Row
        <3>. QED BY <2>row, <3>1
    <2>2. CASE CloseQuiet
        <3>1. PICK i \in poll.rows :
                /\ CloseRow(i)
                /\ poll' = IF poll.rows = {i} THEN IdlePoll ELSE [poll EXCEPT !.rows = @ \ {i}]
            BY <2>2 DEF CloseQuiet
        <3>2. i \in Ids /\ UNCHANGED <<kind, counter, snapshot, truth>> /\ poll.pc = "close"
            BY <2>2, <2>t DEF CloseQuiet, Typed, Poll, At
        <3>3. poll'.pc \in {"idle", "close"}
            BY <2>t, <3>1, <3>2 DEF Typed, Poll, IdlePoll
        <3>. QED BY <2>calm, <2>close, <3>1, <3>2, <3>3
    <2>3. CASE OtherClose
        <3>1. PICK i \in other : CloseRow(i)
            BY <2>3 DEF OtherClose
        <3>2. i \in Ids /\ UNCHANGED <<kind, counter, snapshot, truth, poll>>
            BY <2>3, <2>t DEF OtherClose, Typed
        <3>. QED BY <2>calm, <2>close, <3>1, <3>2
    <2>4. CASE AckMark
        <3>1. ack.id \in Ids /\ UNCHANGED <<kind, counter, snapshot, truth, poll>>
            BY <2>4, <2>t DEF AckMark, Typed, Ack, WalkOK
        <3>2. /\ episodes' = [episodes EXCEPT ![ack.id] = [episodes[ack.id] EXCEPT !.acked = TRUE]]
              /\ [episodes[ack.id] EXCEPT !.acked = TRUE].total = episodes[ack.id].total
            BY <2>4, <2>t, <2>rows, <3>1 DEF AckMark, Row
        <3>. QED BY <2>calm, <2>row, <3>1, <3>2
    <2>5. CASE AckClose
        <3>1. ack.id \in Ids /\ UNCHANGED <<kind, counter, snapshot, truth, poll>>
            BY <2>5, <2>t DEF AckClose, Typed, Ack, WalkOK
        <3>2. CloseRow(ack.id) \/ UNCHANGED episodes
            BY <2>5 DEF AckClose
        <3>. QED BY <2>calm, <2>close, <3>1, <3>2
    <2>6. ASSUME NEW i \in Ids, Age(i) PROVE CountInv'
        <3>1. UNCHANGED <<kind, counter, snapshot, truth, poll>>
            BY <2>6 DEF Age
        <3>2. /\ episodes' = [episodes EXCEPT ![i] = [episodes[i] EXCEPT !.fresh = FALSE]]
              /\ [episodes[i] EXCEPT !.fresh = FALSE].total = episodes[i].total
            BY <2>6, <2>t, <2>rows DEF Age, Row
        <3>. QED BY <2>calm, <2>row, <3>1, <3>2
    <2>7. CASE Walk
        <3>1. PICK w \in Walks :
                /\ poll' = [poll EXCEPT !.pc = "save", !.got = w.got, !.true = truth.since,
                                        !.atWalk = LastFresh, !.delta = Delta(w.got, snapshot)]
                /\ truth' = [truth EXCEPT !.trust = w.trust]
            BY <2>7 DEF Walk
        <3>2. UNCHANGED <<kind, counter, snapshot, episodes>>
            BY <2>7 DEF Walk
        <3>3. /\ poll'.pc = "save" /\ poll'.got = w.got /\ poll'.true = truth.since
              /\ poll'.delta = Delta(w.got, snapshot)
            BY <2>t, <3>1 DEF Typed, Poll
        <3>4. truth' = truth /\ w.got \in {counter % Width, NONE} /\ truth.trust # "none"
            <4>1. truth'.trust = w.trust
                BY <2>t, <3>1 DEF Typed, Truth
            <4>2. w.trust = truth.trust /\ w.got \in {counter % Width, NONE}
                BY <4>1 DEF Walks, Width
            <4>. QED BY <2>t, <3>1, <4>1, <4>2 DEF Typed, Truth
        <3>5. Tracks(snapshot, truth.since)' /\ truth'.since <= Low(Max32) + 1
            BY <1>2, <3>2, <3>4 DEF CountInv, Tracks, Width
        <3>6. Tracks(poll.got, truth.since - poll.true)'
            <4>1. poll'.got # NONE =>
                    poll'.got = (counter' - (truth'.since - poll'.true)) % Width'
                <5>1. counter' - (truth'.since - poll'.true) = counter /\ Width' = Width
                    BY <2>f, <3>2, <3>3, <3>4 DEF Width
                <5>. QED BY <3>3, <3>4, <5>1
            <4>2. truth'.since - poll'.true <= counter'
                BY <2>f, <3>2, <3>3, <3>4
            <4>. QED BY <4>1, <4>2 DEF Tracks
        <3>7. Matches(poll.delta, Due)'
            <4>1. CASE NONE \in {w.got, snapshot}
                <5>1. poll'.delta = 0 /\ Due' = 0
                    BY <3>2, <3>3, <4>1 DEF Delta, Due
                <5>. QED BY <5>1 DEF Matches
            <4>2. CASE NONE \notin {w.got, snapshot}
                <5>1. Due' = truth.since /\ w.got = counter % Width
                    BY <3>2, <3>3, <3>4, <4>2 DEF Due
                <5>2. CASE truth.since <= counter /\ snapshot = (counter - truth.since) % Width
                    <6>1. Delta(w.got, snapshot) = truth.since
                        BY <1>2, <1>Exact, <2>f, <2>t, <3>4, <5>1, <5>2 DEF CountInv
                    <6>. QED BY <2>f, <3>3, <5>1, <6>1 DEF Matches
                <5>3. CASE truth.trust = "atMost" /\ counter <= truth.since /\ ~Risky(snapshot)
                    <6>1. /\ counter % Width <= counter /\ counter % Width \in Nat /\ Fits(w.got)
                        <7>1. /\ counter < Max32 + 1 /\ counter < Width
                            BY <1>0, <1>2, <2>f, <3>4, <5>3 DEF CountInv, Width
                        <7>2. counter % Width = counter
                            BY <2>f, <7>1
                        <7>. QED BY <1>0, <2>f, <5>1, <7>1, <7>2 DEF Fits, Width
                    <6>2. Fits(snapshot) /\ snapshot \in Nat
                        BY <2>t, <2>f, <4>2 DEF WalkOK
                    <6>3. Delta(w.got, snapshot) <= w.got
                        BY <1>Reset, <2>f, <5>1, <5>3, <6>1, <6>2
                    <6>4. Delta(w.got, snapshot) \in Int
                        BY <1>0, <2>f, <5>1, <6>1, <6>2 DEF Delta, DeltaForWidth
                    <6>. QED BY <2>f, <3>3, <3>4, <5>1, <5>3, <6>1, <6>3, <6>4 DEF Matches
                <5>. QED BY <1>2, <3>4, <4>2, <5>2, <5>3 DEF CountInv, Tracks
            <4>. QED BY <4>1, <4>2
        <3>8. TotalMatches'
            BY <1>2, <3>2, <3>4 DEF CountInv, TotalMatches, Matches
        <3>. QED BY <3>3, <3>5, <3>6, <3>7, <3>8 DEF CountInv
    <2>8. CASE Save
        <3> DEFINE due == IF NONE \in {poll.got, snapshot} THEN 0 ELSE poll.true
        <3>0. /\ poll.pc = "save" /\ snapshot' = poll.got
              /\ poll' = IF poll.delta = 0 THEN [IdlePoll EXCEPT !.pc = "quiet"]
                         ELSE [poll EXCEPT !.pc = "find", !.got = NONE, !.true = due,
                                           !.atStart = LastFresh]
              /\ truth' = [truth EXCEPT !.since = @ - poll.true,
                                        !.booked = Booked(IF poll.delta = 0 THEN due ELSE 0)]
              /\ UNCHANGED <<kind, counter, episodes>>
            BY <2>8 DEF Save, At
        <3>1. due = Due /\ due \in Nat
            BY <2>f DEF Due
        <3> HIDE DEF due
        <3>2. /\ truth'.trust = truth.trust /\ truth'.since = truth.since - poll.true
              /\ truth.trust # "none"
              /\ truth'.booked = truth.booked + (IF poll.delta = 0 THEN due ELSE 0)
            BY <2>t, <3>0 DEF Typed, Truth, Booked
        <3>3. poll.true <= truth.since /\ truth.since <= Low(Max32) + 1
              /\ Tracks(poll.got, truth.since - poll.true) /\ Matches(poll.delta, due)
            BY <1>2, <2>t, <3>0, <3>1, <3>2 DEF CountInv, WalkOK
        <3>4. Tracks(snapshot, truth.since)'
            BY <3>0, <3>2, <3>3 DEF Tracks, Width
        <3>5. truth'.since <= Low(Max32) + 1
            BY <2>f, <3>2, <3>3
        <3>6. CASE poll.delta = 0
            <4>1. poll'.pc = "quiet"
                BY <3>0, <3>6 DEF IdlePoll
            <4>2. PICK u : SumsOf(episodes, u) /\ Matches(u[Len(episodes)], truth.booked)
                BY <1>2, <3>2 DEF CountInv, TotalMatches
            <4>3. u[Len(episodes)] \in Nat
                BY <2>rows, <4>2 DEF SumsOf
            <4>4. Matches(u[Len(episodes)], truth.booked)'
                <5>1. truth'.booked = truth.booked + due /\ (truth.trust = "exact" => due = 0)
                    BY <3>2, <3>3, <3>6 DEF Matches
                <5>. QED BY <2>f, <3>0, <3>1, <3>2, <4>2, <4>3, <5>1 DEF Matches
            <4>5. TotalMatches'
                BY <3>0, <4>2, <4>4 DEF TotalMatches
            <4>. QED BY <3>4, <3>5, <4>1, <4>5 DEF CountInv
        <3>7. CASE poll.delta # 0
            <4>1. poll'.pc = "find" /\ poll'.delta = poll.delta /\ poll'.true = due
                BY <2>t, <3>0, <3>7 DEF Typed, Poll
            <4>2. truth'.booked = truth.booked
                BY <2>f, <3>2, <3>7
            <4>3. Matches(poll.delta, poll.true)'
                BY <3>2, <3>3, <4>1 DEF Matches
            <4>4. TotalMatches'
                BY <1>2, <3>0, <3>2, <4>2 DEF CountInv, TotalMatches, Matches
            <4>. QED BY <3>4, <3>5, <4>1, <4>3, <4>4 DEF CountInv
        <3>. QED BY <3>6, <3>7
    <2>9. CASE Apply
        <3>0. /\ poll.pc = "apply" /\ poll' = [IdlePoll EXCEPT !.pc = "quiet"]
              /\ truth' = [truth EXCEPT !.booked = Booked(poll.true)]
              /\ UNCHANGED <<kind, counter, snapshot>>
            BY <2>9 DEF Apply, At
        <3>1. /\ truth'.trust = truth.trust /\ truth'.since = truth.since
              /\ truth.trust # "none" /\ truth'.booked = truth.booked + poll.true
              /\ poll'.pc = "quiet"
            BY <2>t, <3>0 DEF Typed, Truth, Booked, IdlePoll
        <3>2. Matches(poll.delta, poll.true)
            BY <1>2, <3>0, <3>1 DEF CountInv
        <3>3. PICK u : SumsOf(episodes, u) /\ Matches(u[Last], truth.booked)
            BY <1>2, <2>rows, <3>1 DEF CountInv, TotalMatches
        <3>4. Last \in Nat /\ u \in [0..Last -> Nat] /\ u[Last] \in Nat
            BY <2>rows, <3>3 DEF SumsOf
        <3>5. \E w : SumsOf(episodes', w) /\ w[Len(episodes')] = u[Last] + poll.delta
            <4>0. /\ poll.target = Last /\ poll.current \in BOOLEAN
                  /\ poll.current \/ poll.close => Last # 0
                BY <1>2, <2>t, <3>0 DEF OccInv, TargetOK, Typed, Poll
            <4>1. CASE poll.current
                <5> DEFINE w == [i \in 0..Last |-> IF i = Last THEN u[Last] + poll.delta ELSE u[i]]
                <5>1. Last \in 1..Len(episodes) /\ Last \in Ids
                    BY <2>rows, <3>4, <4>0, <4>1
                <5>2. /\ Len(episodes') = Len(episodes)
                      /\ \A i \in 1..Len(episodes) : episodes'[i].total =
                            IF i = Last THEN episodes[i].total + poll.delta ELSE episodes[i].total
                    <6>1. PICK r : /\ episodes' = [episodes EXCEPT ![Last] = r]
                                   /\ r.total = episodes[Last].total + poll.delta
                        <7> DEFINE r == [episodes[Last] EXCEPT !.total = @ + poll.delta,
                                    !.fresh = episodes[Last].open,
                                    !.late = IF InForce(Last) THEN @ ELSE @ + 1]
                        <7>1. episodes' = [episodes EXCEPT ![Last] = r]
                            BY <2>9, <2>t, <2>rows, <4>0, <4>1, <5>1 DEF Apply
                        <7>2. r.total = episodes[Last].total + poll.delta
                            BY <2>rows, <5>1 DEF Row
                        <7>. QED BY <7>1, <7>2
                    <6>. QED BY <2>t, <2>rows, <5>1, <6>1, LenProperties
                <5>3. w \in [0..Last -> Nat] /\ w[0] = 0 /\ w[Last] = u[Last] + poll.delta
                    BY <2>f, <2>rows, <3>3, <3>4, <5>1 DEF SumsOf
                <5>4. ASSUME NEW i \in 1..Last PROVE w[i] = w[i - 1] + episodes'[i].total
                    <6>1. u[i] = u[i - 1] + episodes[i].total /\ w[i - 1] = u[i - 1]
                        BY <2>rows, <3>3, <3>4 DEF SumsOf
                    <6>2. episodes[i].total \in Nat
                        BY <2>rows DEF Row
                    <6>3. u[i - 1] \in Nat
                        BY <3>4
                    <6>4. w[i] = IF i = Last THEN u[Last] + poll.delta ELSE u[i]
                        BY <3>4
                    <6>5. episodes'[i].total =
                            IF i = Last THEN episodes[i].total + poll.delta ELSE episodes[i].total
                        BY <2>rows, <5>2
                    <6> HIDE DEF w
                    <6>. QED BY <2>f, <6>1, <6>2, <6>3, <6>4, <6>5
                <5> HIDE DEF w
                <5>. QED BY <2>rows, <5>2, <5>3, <5>4 DEF SumsOf
            <4>2. CASE ~poll.current
                <5> DEFINE new == [total |-> poll.delta, open |-> TRUE, acked |-> FALSE,
                                   fresh |-> TRUE, late |-> 0]
                           s == IF poll.close THEN Closed(Last) ELSE episodes
                           w == [i \in 0..Last + 1 |-> IF i = Last + 1 THEN u[Last] + poll.delta
                                                       ELSE u[i]]
                <5>1. episodes' = Append(s, new)
                    BY <2>9, <4>0, <4>2 DEF Apply
                <5>2. new \in Row /\ new.total = poll.delta
                    BY <2>t, <3>0 DEF Row, WalkOK, Typed, Poll
                <5>3. /\ s \in Seq(Row) /\ Len(s) = Last
                      /\ \A i \in 1..Last : s[i].total = episodes[i].total
                    <6>1. CASE ~poll.close
                        BY <2>t, <2>rows, <6>1
                    <6>2. CASE poll.close
                        <7> DEFINE r == [episodes[Last] EXCEPT !.open = FALSE, !.fresh = FALSE]
                        <7>1. Last \in Ids /\ r \in Row /\ r.total = episodes[Last].total
                            <8>1. Last \in Ids /\ episodes[Last] \in Row
                                BY <2>rows, <3>4, <4>0, <6>2
                            <8>. QED BY <8>1 DEF Row
                        <7>2. s = [episodes EXCEPT ![Last] = r]
                            BY <2>rows, <6>2, <7>1 DEF Closed
                        <7> HIDE DEF r, s
                        <7>3. /\ s \in Seq(Row) /\ Len(s) = Len(episodes)
                              /\ \A j \in Ids : s[j] = IF j = Last THEN r ELSE episodes[j]
                            BY <2>t, <2>rows, <7>1, <7>2, ExceptSeq
                        <7>. QED BY <2>rows, <7>1, <7>3
                    <6>. QED BY <6>1, <6>2
                <5> HIDE DEF new, s
                <5>4. /\ Len(episodes') = Last + 1 /\ episodes'[Last + 1] = new
                      /\ \A i \in 1..Last : episodes'[i] = s[i]
                    BY <5>1, <5>2, <5>3, AppendProperties
                <5>5. w \in [0..Last + 1 -> Nat] /\ w[0] = 0 /\ w[Last + 1] = u[Last] + poll.delta
                    BY <2>f, <2>rows, <3>3, <3>4 DEF SumsOf
                <5>6. ASSUME NEW i \in 1..Last + 1 PROVE w[i] = w[i - 1] + episodes'[i].total
                    <6>1. CASE i = Last + 1
                        BY <3>4, <5>2, <5>4, <6>1
                    <6>2. CASE i \in 1..Last
                        <7>1. u[i] = u[i - 1] + episodes[i].total
                            BY <2>rows, <3>3, <6>2 DEF SumsOf
                        <7>. QED BY <3>4, <5>3, <5>4, <6>2, <7>1
                    <6>. QED BY <3>4, <6>1, <6>2
                <5> HIDE DEF w
                <5>. QED BY <5>4, <5>5, <5>6 DEF SumsOf
            <4>. QED BY <4>0, <4>1, <4>2
        <3>6. PICK w : SumsOf(episodes', w) /\ w[Len(episodes')] = u[Last] + poll.delta
            BY <3>5
        <3>7. Matches(w[Len(episodes)], truth.booked)'
            BY <2>f, <3>1, <3>2, <3>3, <3>4, <3>6 DEF Matches
        <3>8. Tracks(snapshot, truth.since)' /\ truth'.since <= Low(Max32) + 1
            BY <1>2, <3>0, <3>1 DEF CountInv, Tracks, Width
        <3>9. TotalMatches'
            BY <3>6, <3>7 DEF TotalMatches
        <3>. QED BY <3>1, <3>8, <3>9 DEF CountInv
    <2>10. CASE Happens
        <3>0. /\ truth.since <= Low(Max32) /\ counter' = counter + 1
              /\ truth' = [truth EXCEPT !.since = @ + 1]
              /\ UNCHANGED <<kind, snapshot, episodes, poll>>
            BY <2>10 DEF Happens
        <3>1. /\ truth'.since = truth.since + 1 /\ truth'.trust = truth.trust
              /\ truth'.booked = truth.booked
            BY <2>t, <3>0 DEF Typed, Truth
        <3>2. ASSUME NEW s, NEW n \in Int, Tracks(s, n)
              PROVE  s # NONE =>
                        \/ n + 1 <= counter' /\ s = (counter' - (n + 1)) % Width'
                        \/ truth'.trust = "atMost" /\ counter' <= n + 1 /\ ~Risky(s)
            <4>1. Width' = Width /\ counter' - (n + 1) = counter - n
                BY <2>f, <3>0 DEF Width
            <4>. QED BY <2>f, <3>0, <3>1, <3>2, <4>1 DEF Tracks
        <3>3. Tracks(snapshot, truth.since)'
            <4>1. Tracks(snapshot, truth.since) \/ truth'.trust = "none"
                BY <1>2, <3>1 DEF CountInv
            <4>2. truth.since \in Int
                BY <2>f
            <4>3. CASE Tracks(snapshot, truth.since)
                BY <3>0, <3>1, <3>2, <4>2, <4>3 DEF Tracks
            <4>. QED BY <4>1, <4>3
        <3>4. poll.pc = "save" => Tracks(poll.got, truth.since - poll.true)'
            <4>1. truth'.since - poll'.true = (truth.since - poll.true) + 1
                BY <2>f, <3>0, <3>1
            <4>2. truth.since - poll.true \in Int
                BY <2>f
            <4>. QED BY <1>2, <3>0, <3>1, <3>2, <4>1, <4>2 DEF CountInv, Tracks
        <3>5. truth'.since <= Low(Max32) + 1
            BY <2>f, <3>0, <3>1
        <3>6. CountInv /\ truth.trust # "none" => TotalMatches'
            BY <3>0, <3>1 DEF CountInv, TotalMatches, Matches
        <3>. QED BY <1>2, <3>0, <3>1, <3>3, <3>4, <3>5, <3>6 DEF CountInv, Matches, Due
    <2>11. CASE Reboot
        <3>0. /\ counter' = 0 /\ UNCHANGED <<kind, snapshot, episodes, poll>>
              /\ truth' = [truth EXCEPT
                    !.since = IF poll.pc = "save" THEN poll.true ELSE 0,
                    !.trust = IF @ = "none" \/ Risky(snapshot) \/ Risky(poll.got) THEN "none"
                              ELSE "atMost"]
            BY <2>11 DEF Reboot, Risky, At
        <3>1. /\ truth'.since = (IF poll.pc = "save" THEN poll.true ELSE 0)
              /\ truth'.trust = "atMost" /\ truth'.booked = truth.booked
              /\ truth.trust # "none" /\ ~Risky(snapshot) /\ ~Risky(poll.got)
            BY <2>t, <3>0 DEF Typed, Truth
        <3>2. truth'.since \in Nat /\ truth'.since <= Low(Max32) + 1
            BY <1>2, <2>f, <2>t, <3>1 DEF CountInv, WalkOK
        <3>3. Tracks(snapshot, truth.since)'
            BY <3>0, <3>1, <3>2 DEF Tracks
        <3>4. poll.pc = "save" => Tracks(poll.got, truth.since - poll.true)'
            BY <2>f, <3>0, <3>1 DEF Tracks
        <3>5. TotalMatches'
            BY <1>2, <3>0, <3>1 DEF CountInv, TotalMatches, Matches
        <3>. QED BY <1>2, <3>0, <3>1, <3>2, <3>3, <3>4, <3>5 DEF CountInv, Matches, Due
    <2>. QED BY <1>2, <2>1, <2>2, <2>3, <2>4, <2>5, <2>6, <2>7, <2>8, <2>9, <2>10, <2>11
             DEF Next, PollStep
<1>3. OccInv /\ CountInv /\ UNCHANGED vars => CountInv'
    BY DEF CountInv, vars, Tracks, TotalMatches, Matches, Due, Width
\* The sum is the only one there is.
<1>4. OccInv /\ CountInv => TotalsAreEvents
    <2> SUFFICES ASSUME OccInv, CountInv, truth.trust # "none"
                 PROVE  Matches(Total, truth.booked)
        BY DEF TotalsAreEvents, Matches
    <2>1. PICK u : SumsOf(episodes, u) /\ Matches(u[Len(episodes)], truth.booked)
        BY DEF CountInv, TotalMatches
    <2>2. Len(episodes) \in Nat /\ Last = Len(episodes)
        BY LenProperties DEF OccInv, TypeOK, Last
    <2> DEFINE Is(v) == v = [i \in 0..Last |-> IF i = 0 THEN 0 ELSE v[i - 1] + episodes[i].total]
               upTo == CHOOSE v : Is(v)
    <2>3. Is(u)
        BY <2>1, <2>2 DEF SumsOf
    <2>4. Is(upTo)
        <3> HIDE DEF Is
        <3>. QED BY <2>3
    <2>5. Total = upTo[Last]
        BY DEF Total
    <2> HIDE DEF upTo
    <2>6. upTo[Last] = u[Last]
        <3> DEFINE differ == {i \in 0..Last : upTo[i] # u[i]}
        <3> SUFFICES ASSUME differ # {} PROVE FALSE
            BY <2>2
        <3>1. PICK i \in differ : \A j \in differ : i <= j
            <4>1. differ \in SUBSET Nat
                BY <2>2
            <4> HIDE DEF differ
            <4>. QED BY <4>1, LeastNatural
        <3>2. CASE i = 0
            BY <2>2, <2>3, <2>4, <3>1, <3>2
        <3>3. CASE i # 0
            <4>1. i - 1 \in 0..Last /\ upTo[i - 1] = u[i - 1]
                BY <2>2, <3>1, <3>3
            <4>2. upTo[i] = upTo[i - 1] + episodes[i].total /\ u[i] = u[i - 1] + episodes[i].total
                BY <2>2, <2>3, <2>4, <3>1, <3>3
            <4>. QED BY <3>1, <4>1, <4>2
        <3>. QED BY <3>2, <3>3
    <2>. QED BY <2>1, <2>2, <2>5, <2>6
<1>. QED BY <1>1, <1>2, <1>3, <1>4, OccurrencesHold, PTL DEF Spec
=============================================================================
