---------------------------- MODULE MitigationAuto ----------------------------
(***************************************************************************)
(* The AUTO engine: MitigationAutoEngine, MitigationAutoRuntime and        *)
(* InterfaceTrafficSource (apps/api/src/worker/mitigation).                *)
(*                                                                         *)
(* A tick lists the targets once and evaluates them one after another; an  *)
(* evaluation awaits the exclusions, two reads of the latest sample, the   *)
(* counters' row and the command. Between two awaits the poller stores     *)
(* samples, operators run commands and edit targets, and the process may   *)
(* die. One action runs from one await to the next.                        *)
(*                                                                         *)
(* A sample is its identity (the rank of its timestamp) and where it lies  *)
(* between the two thresholds. The recovery counter is left out: what it   *)
(* decides is only reported, since the engine never removes. So are the    *)
(* decisions kept for the UI. MitigationCommandService is its outcomes;    *)
(* MitigationCommand models it.                                            *)
(***************************************************************************)
EXTENDS Naturals, FiniteSets

CONSTANTS
    Profiles,
    Trigger,        \* triggerSamples
    MaxSamples,     \* bound: samples stored per profile
    MaxEdits,       \* bound: edits and commands of operators
    MaxFaults,      \* bound: failing database calls
    MaxRestarts,    \* bound: restarts of the process
    NULL

ASSUME AutoAssumption ==
    /\ {Trigger, MaxSamples} \subseteq Nat \ {0}
    /\ {MaxEdits, MaxFaults, MaxRestarts} \subseteq Nat
    /\ NULL \notin Profiles \cup Nat

VARIABLES
    sample,     \* the latest InterfaceMetricSample of each target
    mode,       \* what the eligibility gates and the mode of each target say
    marked,     \* a peer of the target is excluded
    row,        \* the runtime row
    device,     \* the pair of the target is on the router
    counters,   \* this.counters
    inFlight,   \* this.inFlight
    processed,  \* request ids the command service answers from memory
    listed,     \* the targets as the tick read them
    tick,       \* where the tick waits, and the locals of the evaluation
    adopted,    \* history: the trigger was counted in part by an earlier process
    spent,      \* history: an ACTIVATE was verified for it, see Answer
    budget      \* what is left of the bounds

history == <<adopted, spent>>
engine == <<counters, inFlight, processed, listed, tick, history>>
vars == <<sample, mode, marked, row, device, engine, budget>>

Level == {"over", "between", "below"}

\* CLOSED: mode DISABLED or any gate of the listing (snapshot, readiness,
\* prefixes, block, exclusion, nodes, bandwidth) is shut.
Mode == {"AUTO", "ALERT_ONLY", "CLOSED"}

\* The states a discovery gives count as NORMAL: the engine tells only the
\* mitigated ones apart.
State == {"NORMAL", "TRIGGER_PENDING", "MITIGATED"}

TickPc == {"idle", "next", "peers", "value", "stamp", "count", "save", "write", "answer"}

SampleId == 0..MaxSamples

\* fed: history, the samples whose values were counted.
Row == [state : State, over : Nat, last : SampleId, fed : SUBSET SampleId]

Counters == [over : Nat, last : SampleId, start : SampleId \cup {NULL},
             fed : SUBSET SampleId]

\* Whether an ACTIVATE was verified since the traffic was last between the
\* thresholds: not, only while nobody knew when an adopted trigger began, or else.
Served == {"no", "unknown", "known"}

ASSUME CountersAssumption == NULL \notin Counters

Idle == [pc |-> "idle", todo |-> {}, at |-> NULL, value |-> 0, level |-> "between",
         stamp |-> 0, verified |-> FALSE]

Unlisted == [p \in Profiles |-> [mode |-> "CLOSED", state |-> "NORMAL"]]

TypeOK ==
    /\ sample \in [Profiles -> [id : SampleId, level : Level, old : BOOLEAN]]
    /\ mode \in [Profiles -> Mode]
    /\ marked \in [Profiles -> BOOLEAN]
    /\ row \in [Profiles -> Row]
    /\ device \in [Profiles -> BOOLEAN]
    /\ counters \in [Profiles -> Counters \cup {NULL}]
    /\ inFlight \subseteq Profiles
    /\ processed \subseteq Profiles \X SampleId
    /\ listed \in [Profiles -> [mode : Mode, state : State]]
    /\ tick \in [pc : TickPc, todo : SUBSET Profiles, at : Profiles \cup {NULL},
                 value : SampleId, level : Level, stamp : SampleId, verified : BOOLEAN]
    /\ tick.at = NULL <=> tick.pc \in {"idle", "next"}
    /\ tick.pc \in {"save", "write", "answer"} => counters[tick.at] # NULL
    /\ adopted \in [Profiles -> BOOLEAN]
    /\ spent \in [Profiles -> Served]
    /\ budget \in [edits : 0..MaxEdits, faults : 0..MaxFaults, restarts : 0..MaxRestarts]

Init ==
    /\ sample = [p \in Profiles |-> [id |-> 0, level |-> "between", old |-> TRUE]]
    /\ mode = [p \in Profiles |-> "AUTO"]
    /\ marked = [p \in Profiles |-> FALSE]
    /\ row = [p \in Profiles |-> [state |-> "NORMAL", over |-> 0, last |-> 0, fed |-> {}]]
    /\ device = [p \in Profiles |-> FALSE]
    /\ counters = [p \in Profiles |-> NULL]
    /\ inFlight = {}
    /\ processed = {}
    /\ listed = Unlisted
    /\ tick = Idle
    /\ adopted = [p \in Profiles |-> FALSE]
    /\ spent = [p \in Profiles |-> "no"]
    /\ budget = [edits |-> MaxEdits, faults |-> MaxFaults, restarts |-> MaxRestarts]

-----------------------------------------------------------------------------
(* The tick                                                                 *)

At(pc) == tick.pc = pc

Goto(pc) == tick' = [tick EXCEPT !.pc = pc]

\* Mutant: an evaluation that returns leaves its target behind.
DoneKeepsTarget == tick' = [tick EXCEPT !.pc = "next"]

\* The evaluation returns; the next target follows.
Done == tick' = [Idle EXCEPT !.pc = "next", !.todo = tick.todo]

NoFault == UNCHANGED budget

\* A database call fails.
Fault ==
    /\ budget.faults > 0
    /\ budget' = [budget EXCEPT !.faults = @ - 1]

\* tickOnce by its timer, and targets.list; a failing list ends the tick.
List ==
    /\ At("idle")
    /\ listed' = [p \in Profiles |-> [mode |-> mode[p], state |-> row[p].state]]
    /\ tick' = [Idle EXCEPT !.pc = "next", !.todo = Profiles]
    /\ UNCHANGED <<sample, mode, marked, row, device, counters, inFlight, processed,
                   history, budget>>

\* The loop of tick and the gates of evaluateOnce up to the first await.
NextTarget ==
    /\ At("next")
    /\ IF tick.todo = {} THEN tick' = Idle /\ listed' = Unlisted
       ELSE /\ \E p \in tick.todo :
                LET rest == [tick EXCEPT !.todo = @ \ {p}] IN
                tick' = IF listed[p].mode = "CLOSED" \/ p \in inFlight THEN rest
                        ELSE [rest EXCEPT !.pc = "peers", !.at = p]
            /\ UNCHANGED listed
    /\ UNCHANGED <<sample, mode, marked, row, device, counters, inFlight, processed,
                   history, budget>>

\* listPeerExclusions; an error fails this evaluation only.
ReadPeers ==
    /\ At("peers")
    /\ \/ (IF marked[tick.at] THEN Done ELSE Goto("value")) /\ NoFault
       \/ Done /\ Fault
    /\ UNCHANGED <<sample, mode, marked, row, device, counters, inFlight, processed,
                   listed, history>>

\* sample(): the value, unless there is none or it is too old.
ReadValue ==
    /\ At("value")
    /\ LET s == sample[tick.at] IN
       IF s.old THEN Done
       ELSE tick' = [tick EXCEPT !.pc = "stamp", !.value = s.id, !.level = s.level]
    /\ UNCHANGED <<sample, mode, marked, row, device, counters, inFlight, processed,
                   listed, history, budget>>

\* sampleWithId reads the row once more for its timestamp.
ReadStamp ==
    /\ At("stamp")
    /\ tick' = [tick EXCEPT !.pc = "count", !.stamp = sample[tick.at].id]
    /\ UNCHANGED <<sample, mode, marked, row, device, counters, inFlight, processed,
                   listed, history, budget>>

\* loadCounters: from memory, else from the row, which has no start.
Loaded(p) ==
    IF counters[p] # NULL THEN counters[p]
    ELSE [over |-> row[p].over, last |-> row[p].last, start |-> NULL, fed |-> row[p].fed]

\* Mutant: the same sample counts on every tick.
CountedEachTick(c, p) ==
    IF tick.level = "over"
    THEN [over |-> c.over + 1, last |-> tick.stamp,
          start |-> IF c.start = NULL THEN tick.stamp ELSE c.start,
          fed |-> c.fed \cup {tick.value}]
    ELSE [c EXCEPT !.over = 0, !.fed = {}, !.last = tick.stamp]

\* A sample counts if its timestamp is newer than the last one counted. Below the
\* recovery threshold the start of the trigger stays. (The start is a time; here
\* it is the sample that set it, which is as unique.)
Counted(c, p) ==
    IF tick.stamp <= c.last THEN c
    ELSE CASE tick.level = "over" ->
                [over |-> c.over + 1, last |-> tick.stamp,
                 start |-> IF c.start = NULL THEN tick.stamp ELSE c.start,
                 fed |-> c.fed \cup {tick.value}]
           [] tick.level = "below" ->
                [c EXCEPT !.over = 0, !.fed = {}, !.last = tick.stamp]
           [] tick.level = "between" ->
                [over |-> 0, last |-> tick.stamp, start |-> NULL, fed |-> {}]

Count ==
    /\ At("count")
    /\ \/ LET p == tick.at
              c == Counted(Loaded(p), p)
              between == tick.level = "between" /\ tick.stamp > Loaded(p).last IN
          /\ counters' = [counters EXCEPT ![p] = c]
          /\ adopted' = [adopted EXCEPT ![p] =
                    ~between /\ IF counters[p] = NULL THEN row[p].over > 0 ELSE @]
          /\ spent' = IF between THEN [spent EXCEPT ![p] = "no"] ELSE spent
          /\ tick' = [tick EXCEPT !.pc = "save", !.value = 0]
          /\ NoFault
       \/ /\ counters[tick.at] = NULL
          /\ Done /\ Fault
          /\ UNCHANGED <<counters, history>>
    /\ UNCHANGED <<sample, mode, marked, row, device, inFlight, processed, listed>>

\* Mutant: the id is the time of the evaluation.
StartNow(p) == NULL

\* What makes the request id of a trigger; without a start it is the time of the
\* evaluation, an id of its own.
StartOf(p) == counters[p].start

\* The decisions that end an evaluation before the command.
Acts(p) ==
    /\ listed[p].state # "MITIGATED"
    /\ tick.level = "over"
    /\ counters[p].over >= Trigger
    /\ listed[p].mode = "AUTO"

\* persistCounters, the decision, and execute up to its look into processed.
Save ==
    /\ At("save")
    /\ LET p == tick.at
           c == counters[p]
           state == IF listed[p].state = "MITIGATED" THEN row[p].state
                    ELSE IF c.over >= Trigger THEN "TRIGGER_PENDING" ELSE "NORMAL" IN
       \/ /\ row' = [row EXCEPT ![p] = [state |-> state, over |-> c.over,
                                        last |-> tick.stamp, fed |-> c.fed]]
          /\ IF Acts(p) /\ <<p, StartOf(p)>> \notin processed
             THEN /\ tick' = [tick EXCEPT !.pc = "write", !.level = "between", !.stamp = 0]
                  /\ inFlight' = inFlight \cup {p}
             ELSE Done /\ UNCHANGED inFlight
          /\ NoFault
       \/ Done /\ Fault /\ UNCHANGED <<row, inFlight>>
    /\ UNCHANGED <<sample, mode, marked, device, counters, processed, listed, history>>

\* Mutant: a refused command leaves its target in flight.
WriteRefusedKept ==
    /\ At("write")
    /\ LET p == tick.at IN
       \/ Done /\ UNCHANGED <<device, inFlight>>
       \/ Goto("answer") /\ UNCHANGED <<device, inFlight>>
       \/ \E v \in BOOLEAN :
            /\ device' = [device EXCEPT ![p] = TRUE]
            /\ tick' = [tick EXCEPT !.pc = "answer", !.verified = v]
            /\ UNCHANGED inFlight
    /\ UNCHANGED <<sample, mode, marked, row, counters, processed, listed, history, budget>>

\* The command on its way: refused by one of its gates, lost, or on the device.
Write ==
    /\ At("write")
    /\ LET p == tick.at IN
       \/ Done /\ inFlight' = inFlight \ {p} /\ UNCHANGED device
       \/ Goto("answer") /\ UNCHANGED <<device, inFlight>>
       \/ \E v \in BOOLEAN :
            /\ device' = [device EXCEPT ![p] = TRUE]
            /\ tick' = [tick EXCEPT !.pc = "answer", !.verified = v]
            /\ UNCHANGED inFlight
    /\ UNCHANGED <<sample, mode, marked, row, counters, processed, listed, history, budget>>

\* record, whose failure is swallowed, and the answer.
Answer ==
    /\ At("answer")
    /\ LET p == tick.at
           known == tick.verified /\ StartOf(p) # NULL
           served == IF adopted[p] /\ counters[p].start = NULL /\ spent[p] # "known"
                     THEN "unknown" ELSE "known" IN
       /\ \/ row' = [row EXCEPT ![p].state = "MITIGATED"] /\ NoFault
          \/ Fault /\ UNCHANGED row
       /\ processed' = IF known THEN processed \cup {<<p, StartOf(p)>>} ELSE processed
       /\ spent' = IF tick.verified THEN [spent EXCEPT ![p] = served] ELSE spent
       /\ inFlight' = inFlight \ {p}
    /\ Done
    /\ UNCHANGED <<sample, mode, marked, device, counters, listed, adopted>>

-----------------------------------------------------------------------------
(* The others                                                               *)

\* The SNMP poller stores a sample.
Poll(p) ==
    /\ sample[p].id < MaxSamples
    /\ \E l \in Level :
        sample' = [sample EXCEPT ![p] = [id |-> @.id + 1, level |-> l, old |-> FALSE]]
    /\ UNCHANGED <<mode, marked, row, device, engine, budget>>

\* The latest sample gets older than maxAgeMs.
Age(p) ==
    /\ ~sample[p].old
    /\ sample' = [sample EXCEPT ![p].old = TRUE]
    /\ UNCHANGED <<mode, marked, row, device, engine, budget>>

Edit ==
    /\ budget.edits > 0
    /\ budget' = [budget EXCEPT !.edits = @ - 1]
    /\ UNCHANGED <<sample, engine>>

\* An operator or a discovery changes what the listing says.
SetMode(p) ==
    /\ Edit
    /\ \E m \in Mode \ {mode[p]} : mode' = [mode EXCEPT ![p] = m]
    /\ UNCHANGED <<marked, row, device>>

MarkPeer(p) ==
    /\ Edit
    /\ marked' = [marked EXCEPT ![p] = ~@]
    /\ UNCHANGED <<mode, row, device>>

\* A command of an operator, from its commit to its record.
OperatorCommand(p) ==
    /\ Edit
    /\ \E up \in BOOLEAN :
        /\ device' = [device EXCEPT ![p] = up]
        /\ row' = [row EXCEPT ![p].state = IF up THEN "MITIGATED" ELSE "NORMAL"]
    /\ UNCHANGED <<mode, marked>>

Restart ==
    /\ budget.restarts > 0
    /\ budget' = [budget EXCEPT !.restarts = @ - 1]
    /\ counters' = [p \in Profiles |-> NULL]
    /\ inFlight' = {}
    /\ processed' = {}
    /\ tick' = Idle
    /\ listed' = Unlisted
    /\ adopted' = [p \in Profiles |-> FALSE]
    /\ spent' = [p \in Profiles |-> "no"]
    /\ UNCHANGED <<sample, mode, marked, row, device>>

TickStep ==
    \/ List \/ NextTarget \/ ReadPeers \/ ReadValue \/ ReadStamp
    \/ Count \/ Save \/ Write \/ Answer

Next ==
    \/ TickStep
    \/ Restart
    \/ \E p \in Profiles :
        Poll(p) \/ Age(p) \/ SetMode(p) \/ MarkPeer(p) \/ OperatorCommand(p)

\* The interval timer ticks and every await of a tick ends; nobody else is fair.
Spec == Init /\ [][Next]_vars /\ WF_vars(TickStep)

-----------------------------------------------------------------------------
(* Properties                                                               *)

\* The counter that triggers is earned: no sample's value is counted more than
\* twice, over ticks that see the same sample, restarts and failing saves. (Twice:
\* the value of one sample may be read with the timestamp of the next.)
EarnedTrigger ==
    \A p \in Profiles :
        /\ row[p].over <= 2 * Cardinality(row[p].fed)
        /\ counters[p] # NULL => counters[p].over <= 2 * Cardinality(counters[p].fed)

\* One trigger writes to the router once: after a verified ACTIVATE nothing more
\* is written for the target until its traffic was between the two thresholds,
\* even if the runtime row never said MITIGATED. That is of one life of the
\* process, and not of a trigger it adopted from the row of an earlier one: that has
\* no start, each tick makes its own id for it and may write again, until a newer
\* sample gives it a start; a write verified from then on is the last.
OneWritePerTrigger == At("write") => spent[tick.at] # "known"

Ripe(p) ==
    /\ sample[p].level = "over" /\ ~sample[p].old
    /\ mode[p] = "AUTO" /\ ~marked[p]
    /\ row[p].state # "MITIGATED"
    /\ counters[p] # NULL
    /\ counters[p].over >= Trigger
    /\ spent[p] # "known"

\* A target whose trigger is complete and whose gates are open is acted upon, or
\* stops being so: no failure of an earlier command or read leaves it behind. A
\* trigger that was served is answered from memory and not said to act, also for a
\* second attack whose traffic was never between the thresholds.
TriggerActs ==
    \A p \in Profiles : Ripe(p) ~> (At("write") /\ tick.at = p) \/ ~Ripe(p)

\* Claimed of persistCounters: a target that is mitigated is not set back by AUTO.
MitigatedNotDowngraded ==
    [][Save => \A p \in Profiles :
        row[p].state = "MITIGATED" => row'[p].state = "MITIGATED"]_vars
=============================================================================
