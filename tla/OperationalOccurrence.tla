------------------------ MODULE OperationalOccurrence ------------------------
(***************************************************************************)
(* From the error counters of an interface to its operational occurrences: *)
(* SnmpService.pollHost, counter-delta.ts and OperationalOccurrenceService *)
(* over its Prisma repository (apps/api/src/infrastructure/snmp,           *)
(* application, infrastructure/alarms).                                    *)
(*                                                                         *)
(* A poll walks the counters of a device, stores them with the deltas to   *)
(* the sample before, then adds each delta to the episode of the last 24   *)
(* hours or to a new one. Polls of a device are one at a time and their    *)
(* clock moves on, so no sample comes twice or late; what interleaves are  *)
(* acknowledgements, housekeeping started by the poll of another device,   *)
(* failures and restarts. An action runs from one await to the next. Of    *)
(* the 24 hours an episode knows whether they are over.                    *)
(*                                                                         *)
(* The kinds of errors have episodes of their own and meet only in that    *)
(* processing one fails before the other's turn; the model follows one     *)
(* kind, either, and its processing may fail at any await.                 *)
(***************************************************************************)
EXTENDS Integers, Sequences, FiniteSets

CONSTANTS
    Max32, Max64,   \* COUNTER_32_MAX and COUNTER_64_MAX
    Starts,         \* what the counters of the device may start from
    NONE,           \* no value collected
    MaxEvents,      \* bound: errors and discards that happen
    MaxEdits,       \* bound: acknowledgements, restarts, reboots of the device
    MaxFaults       \* bound: walks and database calls that fail

\* 2^32 - 1 and 2^64 - 1: the wider counter is at least twice the other.
ASSUME OccurrenceAssumption ==
    /\ Max32 \in Nat \ {0} /\ Max64 \in Nat /\ 2 * Max32 < Max64
    /\ Starts \subseteq Nat /\ NONE \notin Nat
    /\ {MaxEvents, MaxEdits, MaxFaults} \subseteq Nat

VARIABLES
    kind,           \* the kind of error the model follows; it never changes
    counter,        \* the device: what has happened since its start
    snapshot,       \* table InterfaceMetricSample: the latest counter stored
    episodes,       \* table OperationalOccurrence; a row's id is its place
    poll,           \* the poll of the device
    other,          \* the rows another poll's housekeeping is to close
    ack,            \* an acknowledgement in progress
    truth,          \* history: what a total should be made of
    budget

vars == <<kind, counter, snapshot, episodes, poll, other, ack, truth, budget>>

PollPc == {"idle", "walk", "save", "find", "apply", "quiet", "close"}
Ids == DOMAIN episodes

\* findLatestByFingerprint: the last row there is.
Last == Len(episodes)
LastFresh == Last # 0 /\ episodes[Last].fresh

\* An episode that still takes deltas, but for its 24 hours.
InForce(i) == episodes[i].open /\ ~episodes[i].acked

Closed(i) == [episodes EXCEPT ![i].open = FALSE, ![i].fresh = FALSE]
CloseRow(i) == episodes' = Closed(i)

\* What the episodes amount to.
Total ==
    LET upTo[i \in 0..Last] == IF i = 0 THEN 0 ELSE upTo[i - 1] + episodes[i].total IN
    upTo[Last]

\* got, true: what the walk found and what happened since the walk before.
\* atWalk, atStart: whether the last episode was fresh at the sample's timestamp
\* and when its processing began.
IdlePoll ==
    [pc |-> "idle", got |-> NONE, true |-> 0, delta |-> 0, atWalk |-> FALSE, atStart |-> FALSE,
     target |-> 0, current |-> FALSE, close |-> FALSE, rows |-> {}]

IdleAck == [pc |-> "idle", id |-> 0]

\* fresh: of an open episode, whether it was seen in the last 24 hours. late:
\* history, the deltas an episode got acknowledged or closed.
TypeOK ==
    /\ kind \in {"CRC_FCS", "DISCARDS"}
    /\ counter \in Nat
    /\ snapshot \in Nat \cup {NONE}
    /\ episodes \in Seq([total : Nat \ {0}, open : BOOLEAN, acked : BOOLEAN,
                         fresh : BOOLEAN, late : Nat])
    /\ poll \in [pc : PollPc, got : Nat \cup {NONE}, true : Nat, delta : Nat,
                 atWalk : BOOLEAN, atStart : BOOLEAN, target : Ids \cup {0},
                 current : BOOLEAN, close : BOOLEAN, rows : SUBSET Ids]
    /\ poll.current => poll.target # 0
    /\ other \subseteq Ids
    /\ ack \in [pc : {"idle", "mark", "close"}, id : Ids \cup {0}]
    /\ truth \in [since : Nat, booked : Nat, trust : {"exact", "atMost", "none"}]
    /\ budget \in [events : 0..MaxEvents, edits : 0..MaxEdits, faults : 0..MaxFaults]

Init ==
    /\ kind \in {"CRC_FCS", "DISCARDS"}
    /\ counter \in Starts
    /\ snapshot = NONE
    /\ episodes = <<>>
    /\ poll = IdlePoll
    /\ other = {}
    /\ ack = IdleAck
    /\ truth = [since |-> 0, booked |-> 0, trust |-> "exact"]
    /\ budget = [events |-> MaxEvents, edits |-> MaxEdits, faults |-> MaxFaults]

Fault == budget.faults > 0 /\ budget' = [budget EXCEPT !.faults = @ - 1]
Edit == budget.edits > 0 /\ budget' = [budget EXCEPT !.edits = @ - 1]
At(pc) == poll.pc = pc

-----------------------------------------------------------------------------
(* Deltas                                                                   *)

High(max) == (max * 3) \div 4
Low(max) == max \div 4

\* Mutant: a counter that went back is no case of its own.
DeltaForWidthPlain(current, previous, max) == current - previous

\* calculateDeltaForWidth.
DeltaForWidth(current, previous, max) ==
    IF current >= previous THEN current - previous
    ELSE IF previous >= High(max) /\ current <= Low(max) THEN (max - previous) + 1 + current
    ELSE current

\* Mutant: what was not collected before counts as 0.
DeltaNoBaseline(current, previous) ==
    IF current = NONE THEN 0
    ELSE IF previous = NONE THEN current
    ELSE DeltaForWidth(current, previous, Max32)

\* calculateCounterDelta of the discards, calculateFcsErrorsDelta of the FCS
\* errors, whose width is guessed; nothing collected is nothing to add.
Delta(current, previous) ==
    IF NONE \in {current, previous} THEN 0
    ELSE DeltaForWidth(current, previous,
            IF kind = "DISCARDS" \/ (current <= Max32 /\ previous <= Max32) THEN Max32
            ELSE Max64)

-----------------------------------------------------------------------------
(* The poll: counters to deltas                                             *)

\* pollHost: the snapshot it compares with is that of the last poll.
Start ==
    /\ At("idle")
    /\ poll' = [poll EXCEPT !.pc = "walk"]
    /\ UNCHANGED <<kind, counter, snapshot, episodes, other, ack, truth, budget>>

\* What collectCounters finds, with the trust it deserves: FCS errors from the HC
\* counter, else from the other, else none; discards from a Counter32, else 0.
Walks ==
    IF kind = "CRC_FCS"
    THEN {[got |-> counter % (Max64 + 1), fails |-> FALSE, trust |-> truth.trust],
          [got |-> counter % (Max32 + 1), fails |-> TRUE, trust |-> "none"],
          [got |-> NONE, fails |-> TRUE, trust |-> truth.trust]}
    ELSE {[got |-> counter % (Max32 + 1), fails |-> FALSE, trust |-> truth.trust],
          [got |-> 0, fails |-> TRUE, trust |-> "none"]}

Walk ==
    /\ At("walk")
    /\ \E w \in Walks :
        /\ poll' = [poll EXCEPT !.pc = "save", !.got = w.got, !.true = truth.since,
                                !.atWalk = LastFresh, !.delta = Delta(w.got, snapshot)]
        /\ truth' = [truth EXCEPT !.trust = w.trust]
        /\ IF w.fails THEN Fault ELSE UNCHANGED budget
    /\ UNCHANGED <<kind, counter, snapshot, episodes, other, ack>>

\* History: what is due is booked while there is a way to tell.
Booked(due) == IF truth.trust = "none" THEN 0 ELSE truth.booked + due

\* saveSnmpPoll, after which processSamples begins and drops a delta of 0. What
\* is due is what happened between two samples that both have a value.
Save ==
    /\ At("save")
    /\ LET due == IF NONE \in {poll.got, snapshot} THEN 0 ELSE poll.true IN
       /\ snapshot' = poll.got
       /\ poll' = IF poll.delta = 0
                  THEN [IdlePoll EXCEPT !.pc = "quiet"]
                  ELSE [poll EXCEPT !.pc = "find", !.got = NONE, !.true = due,
                                    !.atStart = LastFresh]
       /\ truth' = [truth EXCEPT !.since = @ - poll.true,
                                 !.booked = Booked(IF poll.delta = 0 THEN due ELSE 0)]
    /\ UNCHANGED <<kind, counter, episodes, other, ack, budget>>

-----------------------------------------------------------------------------
(* The poll: deltas to episodes                                             *)

\* Mutant: the last episode is the current one, ended or not.
CurrentAny == Last # 0

\* The episode in force: open, not acknowledged, of the last 24 hours.
Current ==
    /\ Last # 0
    /\ InForce(Last)
    /\ poll.atStart

\* Mutant: only time ends an episode.
SupersedesQuiet == Last # 0 /\ episodes[Last].open /\ ~Current /\ ~poll.atWalk

\* supersedeFor: an episode that is acknowledged, or was over at the timestamp.
Supersedes ==
    /\ Last # 0
    /\ episodes[Last].open /\ ~Current
    /\ episodes[Last].acked \/ ~poll.atWalk

Find ==
    /\ At("find")
    /\ poll' = [poll EXCEPT !.pc = "apply", !.target = Last, !.current = Current,
                            !.close = Supersedes, !.atWalk = FALSE, !.atStart = FALSE]
    /\ UNCHANGED <<kind, counter, snapshot, episodes, other, ack, truth, budget>>

\* apply: one transaction, for what was read before it.
Apply ==
    /\ At("apply")
    /\ LET i == poll.target IN
       episodes' =
        IF poll.current
        THEN [episodes EXCEPT ![i].total = @ + poll.delta, ![i].fresh = episodes[i].open,
                              ![i].late = IF InForce(i) THEN @ ELSE @ + 1]
        ELSE Append(IF poll.close THEN Closed(i) ELSE episodes,
                    [total |-> poll.delta, open |-> TRUE, acked |-> FALSE,
                     fresh |-> TRUE, late |-> 0])
    /\ truth' = [truth EXCEPT !.booked = Booked(poll.true)]
    /\ poll' = [IdlePoll EXCEPT !.pc = "quiet"]
    /\ UNCHANGED <<kind, counter, snapshot, other, ack, budget>>

\* Mutants: acknowledged episodes are left alone; so are those before the last.
CandidatesUnacked == {i \in Ids : episodes[i].open /\ ~episodes[i].fresh /\ ~episodes[i].acked}
CandidatesLatest == {i \in Ids : episodes[i].open /\ ~episodes[i].fresh /\ i = Last}

\* The rows closeQuiet finds.
Candidates == {i \in Ids : episodes[i].open /\ ~episodes[i].fresh}

\* runHousekeeping, at most once in five minutes whatever device is polled.
Quiet ==
    /\ At("quiet")
    /\ poll' = IF Candidates = {} THEN IdlePoll
               ELSE [IdlePoll EXCEPT !.pc = "close", !.rows = Candidates]
    /\ UNCHANGED <<kind, counter, snapshot, episodes, other, ack, truth, budget>>

NotYetQuiet ==
    /\ At("quiet")
    /\ poll' = IdlePoll
    /\ UNCHANGED <<kind, counter, snapshot, episodes, other, ack, truth, budget>>

CloseQuiet ==
    /\ At("close")
    /\ \E i \in poll.rows :
        /\ CloseRow(i)
        /\ poll' = IF poll.rows = {i} THEN IdlePoll ELSE [poll EXCEPT !.rows = @ \ {i}]
    /\ UNCHANGED <<kind, counter, snapshot, other, ack, truth, budget>>

\* Any call of the poll may fail. Before the sample is stored nothing is lost;
\* after, the rest of what it would have added is.
PollFails ==
    /\ ~At("idle")
    /\ Fault
    /\ poll' = IdlePoll
    /\ UNCHANGED <<kind, counter, snapshot, episodes, other, ack, truth>>

\* The housekeeping of a poll of another device.
OtherQuiet ==
    /\ other = {} /\ Candidates # {}
    /\ other' = Candidates
    /\ UNCHANGED <<kind, counter, snapshot, episodes, poll, ack, truth, budget>>

OtherClose ==
    /\ \E i \in other : CloseRow(i) /\ other' = other \ {i}
    /\ UNCHANGED <<kind, counter, snapshot, poll, ack, truth, budget>>

-----------------------------------------------------------------------------
(* Acknowledgements                                                         *)

AckFind ==
    /\ ack.pc = "idle"
    /\ Edit
    /\ \E i \in Ids : ~episodes[i].acked /\ ack' = [pc |-> "mark", id |-> i]
    /\ UNCHANGED <<kind, counter, snapshot, episodes, poll, other, truth>>

\* acknowledge: two updates, no transaction.
AckMark ==
    /\ ack.pc = "mark"
    /\ episodes' = [episodes EXCEPT ![ack.id].acked = TRUE]
    /\ ack' = [ack EXCEPT !.pc = "close"]
    /\ UNCHANGED <<kind, counter, snapshot, poll, other, truth, budget>>

AckClose ==
    /\ ack.pc = "close"
    /\ \/ CloseRow(ack.id) /\ UNCHANGED budget
       \/ Fault /\ UNCHANGED episodes
    /\ ack' = IdleAck
    /\ UNCHANGED <<kind, counter, snapshot, poll, other, truth>>

-----------------------------------------------------------------------------
(* The rest of the world                                                    *)

\* Bound: between two samples, fewer events than a quarter of the counter.
Happens ==
    /\ budget.events > 0
    /\ truth.since <= Low(Max32)
    /\ counter' = counter + 1
    /\ truth' = [truth EXCEPT !.since = @ + 1]
    /\ budget' = [budget EXCEPT !.events = @ - 1]
    /\ UNCHANGED <<kind, snapshot, episodes, poll, other, ack>>

\* A reset cannot be told from a wrap when the counter stood in its last quarter,
\* and what came before it is lost when it had caught up with the last sample.
Reboot ==
    /\ Edit
    /\ counter' = 0
    /\ LET Risky(x) == x # NONE /\ (x \in High(Max32)..Max32 \/ x >= High(Max64)) IN
       truth' = [truth EXCEPT
        !.since = IF At("save") THEN poll.true ELSE 0,
        !.trust = IF @ = "none" \/ Risky(snapshot) \/ Risky(poll.got) THEN "none"
                  ELSE "atMost"]
    /\ UNCHANGED <<kind, snapshot, episodes, poll, other, ack>>

Age(i) ==
    /\ episodes[i].fresh
    /\ episodes' = [episodes EXCEPT ![i].fresh = FALSE]
    /\ UNCHANGED <<kind, counter, snapshot, poll, other, ack, truth, budget>>

\* Also what a failing read of the snapshot comes to while the counters are
\* walked: its promise is awaited only after the walks.
Restart ==
    /\ Edit
    /\ poll' = IdlePoll
    /\ other' = {}
    /\ ack' = IdleAck
    /\ UNCHANGED <<kind, counter, snapshot, episodes, truth>>

PollStep == Walk \/ Save \/ Find \/ Apply \/ Quiet \/ NotYetQuiet \/ CloseQuiet

Next ==
    \/ Start \/ PollStep \/ PollFails
    \/ OtherQuiet \/ OtherClose
    \/ AckFind \/ AckMark \/ AckClose
    \/ \E i \in Ids : Age(i)
    \/ Happens \/ Reboot \/ Restart

\* The poller's timer fires, an await ends, time passes; of polls that keep coming
\* one comes five minutes after the last housekeeping. Nothing is owed by users,
\* nor by other devices.
Spec ==
    /\ Init /\ [][Next]_vars
    /\ WF_vars(Start \/ PollStep) /\ SF_vars(Quiet)
    /\ WF_vars(\E i \in Ids : Age(i))

-----------------------------------------------------------------------------
(* Properties                                                               *)

\* The totals of the episodes are what happened between the samples they
\* were made of, through wraps, samples without a value, acknowledgements and
\* restarts; after a reboot of the device they are at most that. Nothing is said
\* from where the code goes wrong by what it stores: a walk of the discards that
\* failed and is stored as 0, FCS errors of the narrower counter in place of the
\* wider, a reset from the last quarter of the counter, which passes for a wrap.
TotalsAreEvents ==
    /\ truth.trust = "exact" => Total = truth.booked
    /\ truth.trust = "atMost" => Total <= truth.booked

\* An episode acknowledged, closed or not, or closed takes at most one delta
\* more, for which it was read before; from then on events go to a new one.
AtMostOneLateDelta == \A i \in Ids : episodes[i].late <= 1

\* What the code says of an episode acknowledged or closed: it never takes a
\* delta. It does, when it was read before and ended before the transaction.
EndedTakesNoDelta == \A i \in Ids : episodes[i].late = 0

\* Of two open episodes, the older is past its 24 hours.
OlderOpenIsQuiet == \A i, j \in Ids : (i < j /\ episodes[i].open) => ~episodes[i].fresh

\* Every episode that was acknowledged, or whose 24 hours are over, is closed in
\* the end: also when the acknowledgement failed between its two updates, and when
\* it was left open beside a newer one.
OverIsClosed ==
    <>[](\A i \in Ids : episodes[i].open => episodes[i].fresh /\ ~episodes[i].acked)
=============================================================================
