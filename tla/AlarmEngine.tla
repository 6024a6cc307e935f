----------------------------- MODULE AlarmEngine -----------------------------
(***************************************************************************)
(* The alarms of the metrics: AlarmEngine, AlarmNotificationService and    *)
(* AlarmSuppressionService over their Prisma repositories                  *)
(* (apps/api/src/application, infrastructure/alarms), and the routes that  *)
(* disable a rule.                                                         *)
(*                                                                         *)
(* Every poll of a device ends in an evaluation, and the polls of a device *)
(* are one at a time (pollHost joins the one that runs). The engine keeps  *)
(* no state: an evaluation reads rules, samples, open alarms and           *)
(* suppressions, one after the other, and works on what it read while      *)
(* users suppress alarms and disable rules. One action runs from one await *)
(* to the next.                                                            *)
(*                                                                         *)
(* The rules of the model watch one metric of one interface. What the      *)
(* window of samples says of a rule is its reading: sustained recovery, a  *)
(* sustained severity, or neither. A metric rule has one severity, an      *)
(* optical rule a ladder; for the rest processDeviceMetrics and            *)
(* processOpticalReadings take the same decisions.                         *)
(***************************************************************************)
EXTENDS Naturals, Sequences, FiniteSets

CONSTANTS
    Rules,
    Severities,     \* how many there are; a rank, and 0 for none
    CLEAR,          \* the reading of a sustained recovery
    Operators,      \* requests of users in progress
    MaxEdits,       \* bound: readings that change, other requests, restarts
    MaxFaults       \* bound: failing deliveries and database calls

ASSUME AlarmAssumption ==
    /\ Severities \in Nat \ {0} /\ CLEAR \notin Nat
    /\ {MaxEdits, MaxFaults} \subseteq Nat

VARIABLES
    alarms,         \* table Alarm; a row's id is its place
    suppressions,   \* table AlarmSuppression
    reading,        \* what the stored samples say of each rule
    enabled,        \* AlarmRule.enabled
    eval,           \* the evaluation
    requests,       \* the requests of users
    cooling,        \* nextAttemptAt: deliveries not to be tried again yet
    budget

vars == <<alarms, suppressions, reading, enabled, eval, requests, cooling, budget>>

Rank == 0..Severities
Event == {"OPENED", "ESCALATED", "RESOLVED"}
EvalPc == {"idle", "samples", "alarms", "suppressions", "loop", "resolve", "clear",
           "find", "create", "check", "escalate", "publish", "mark"}
Mode == {"UNTIL_CLEAR", "UNTIL_TIME"}
RequestPc == {"idle", "conflict", "create", "find", "close", "off"}

AlarmIds == DOMAIN alarms
OpenOf(r) == {a \in AlarmIds : alarms[a].rule = r /\ alarms[a].open}
ActiveOf(r) ==
    {s \in DOMAIN suppressions : suppressions[s].rule = r /\ suppressions[s].active}

\* The row a Map built from rows in descending order of time ends up with.
Oldest(S) == IF S = {} THEN 0 ELSE CHOOSE i \in S : \A j \in S : i <= j

Unread == [read |-> CLEAR, open |-> 0, rank |-> 0, supp |-> 0, mode |-> "UNTIL_CLEAR"]

IdleEval ==
    [pc |-> "idle", rules |-> {}, known |-> [r \in Rules |-> Unread], at |-> {},
     event |-> "OPENED", alarm |-> 0, level |-> 0, supp |-> 0]

IdleRequest == [pc |-> "idle", rule |-> {}, mode |-> "UNTIL_CLEAR", supp |-> 0, rows |-> {}]

Reading == {CLEAR} \cup Rank

\* closed: history, the alarms a suppression has closed.
TypeOK ==
    /\ alarms \in Seq([rule : Rules, rank : Rank \ {0}, open : BOOLEAN, notified : Rank])
    /\ suppressions \in Seq([rule : Rules, mode : Mode,
                             active : BOOLEAN, closed : SUBSET AlarmIds])
    /\ reading \in [Rules -> Reading]
    /\ enabled \in [Rules -> BOOLEAN]
    /\ eval \in [pc : EvalPc, rules : SUBSET Rules,
                 known : [Rules -> [read : Reading, open : AlarmIds \cup {0},
                                    rank : Rank, mode : Mode,
                                    supp : DOMAIN suppressions \cup {0}]],
                 at : SUBSET Rules, event : Event, alarm : AlarmIds \cup {0},
                 level : Rank, supp : DOMAIN suppressions \cup {0}]
    /\ eval.pc \in {"publish", "mark", "check", "escalate"} => eval.alarm # 0
    /\ eval.pc \in {"create", "escalate"} => eval.level # 0
    /\ \A o \in Operators :
        requests[o] \in [pc : RequestPc, rule : SUBSET Rules,
                         mode : Mode,
                         supp : DOMAIN suppressions \cup {0}, rows : SUBSET AlarmIds]
    /\ cooling \subseteq AlarmIds \X Event \X Rank
    /\ budget \in [edits : 0..MaxEdits, faults : 0..MaxFaults]

Init ==
    /\ alarms = <<>>
    /\ suppressions = <<>>
    /\ reading \in [Rules -> Reading]
    /\ enabled = [r \in Rules |-> TRUE]
    /\ eval = IdleEval
    /\ requests = [o \in Operators |-> IdleRequest]
    /\ cooling = {}
    /\ budget = [edits |-> MaxEdits, faults |-> MaxFaults]

Fault == budget.faults > 0 /\ budget' = [budget EXCEPT !.faults = @ - 1]
Edit == budget.edits > 0 /\ budget' = [budget EXCEPT !.edits = @ - 1]

-----------------------------------------------------------------------------
(* An evaluation: what it reads                                             *)

At(pc) == eval.pc = pc
Goto(pc) == eval' = [eval EXCEPT !.pc = pc]

\* To the next rule, or the end; what concerned the last one is forgotten.
Resume ==
    eval' = IF eval.rules = {} THEN IdleEval
            ELSE [eval EXCEPT !.pc = "loop", !.at = {}, !.event = "OPENED",
                              !.alarm = 0, !.level = 0, !.supp = 0]

\* Mutant: the suppressions are read before the open alarms.
SwappedReads == [samples |-> "suppressions", suppressions |-> "alarms", alarms |-> "loop"]

\* The order of the reads.
Reads == [samples |-> "alarms", alarms |-> "suppressions", suppressions |-> "loop"]

\* listEnabled; without a rule there is nothing to do.
Start ==
    /\ At("idle")
    /\ LET on == {r \in Rules : enabled[r]} IN
       eval' = IF on = {} THEN IdleEval ELSE [IdleEval EXCEPT !.pc = "samples", !.rules = on]
    /\ UNCHANGED <<alarms, suppressions, reading, enabled, requests, cooling, budget>>

\* The window of samples, listOpenMetricAlarms, listActive.
Read ==
    LET v == eval
        on(r) == ActiveOf(r) # {}
        up(r) == OpenOf(r) # {}
        Know(new(_)) == [v EXCEPT !.pc = Reads[v.pc],
                                  !.known = [r \in Rules |->
                                      IF r \in v.rules THEN new(r) ELSE Unread]] IN
    /\ \/ /\ At("samples")
          /\ eval' = Know(LAMBDA r : [v.known[r] EXCEPT !.read = reading[r]])
       \/ /\ At("alarms")
          /\ eval' = Know(LAMBDA r : [v.known[r] EXCEPT
                        !.open = Oldest(OpenOf(r)),
                        !.rank = IF up(r) THEN alarms[Oldest(OpenOf(r))].rank ELSE 0])
       \/ /\ At("suppressions")
          /\ eval' = Know(LAMBDA r : [v.known[r] EXCEPT
                        !.supp = Oldest(ActiveOf(r)),
                        !.mode = IF on(r) THEN suppressions[Oldest(ActiveOf(r))].mode
                                 ELSE "UNTIL_CLEAR"])
    /\ UNCHANGED <<alarms, suppressions, reading, enabled, requests, cooling, budget>>

-----------------------------------------------------------------------------
(* An evaluation: what it does                                              *)

\* Mutants: a suppressed alarm that is still open is left alone; a suppression
\* is not asked whether the condition is over; an alarm needs no breach.
DecisionSuppressedFirst(k) ==
    CASE k.supp # 0 ->
            IF k.open = 0 /\ k.mode = "UNTIL_CLEAR" /\ k.read = CLEAR THEN "clear" ELSE "loop"
      [] k.supp = 0 /\ k.open # 0 /\ k.read = CLEAR -> "resolve"
      [] k.supp = 0 /\ k.open = 0 /\ k.read \notin {CLEAR, 0} -> "find"
      [] k.supp = 0 /\ k.open # 0 /\ k.read \notin {CLEAR, 0} /\ k.read > k.rank -> "check"
      [] OTHER -> "loop"

DecisionNeverClears(k) ==
    CASE k.open # 0 /\ k.read = CLEAR -> "resolve"
      [] k.open = 0 /\ k.supp # 0 -> "loop"
      [] k.open = 0 /\ k.supp = 0 /\ k.read \notin {CLEAR, 0} -> "find"
      [] k.open # 0 /\ k.read \notin {CLEAR, 0} /\ k.read > k.rank -> "check"
      [] OTHER -> "loop"

DecisionOpensAlways(k) ==
    CASE k.open # 0 /\ k.read = CLEAR -> "resolve"
      [] k.open = 0 /\ k.supp # 0 ->
            IF k.mode = "UNTIL_CLEAR" /\ k.read = CLEAR THEN "clear" ELSE "loop"
      [] k.open = 0 /\ k.supp = 0 -> "find"
      [] k.open # 0 /\ k.read \notin {CLEAR, 0} /\ k.read > k.rank -> "check"
      [] OTHER -> "loop"

\* The body of the loops up to the first await, of what is known of a rule.
Decision(k) ==
    CASE k.open # 0 /\ k.read = CLEAR -> "resolve"
      [] k.open = 0 /\ k.supp # 0 ->
            IF k.mode = "UNTIL_CLEAR" /\ k.read = CLEAR THEN "clear" ELSE "loop"
      [] k.open = 0 /\ k.supp = 0 /\ k.read \notin {CLEAR, 0} -> "find"
      [] k.open # 0 /\ k.read \notin {CLEAR, 0} /\ k.read > k.rank -> "check"
      [] OTHER -> "loop"

\* What is known of a rule is forgotten once its turn is there.
Decide ==
    /\ At("loop")
    /\ \E r \in eval.rules :
        LET k == eval.known[r]
            v == [eval EXCEPT !.rules = @ \ {r}, !.known[r] = Unread] IN
        eval' =
            IF Decision(k) # "loop"
            THEN [v EXCEPT !.pc = Decision(k), !.at = {r}, !.alarm = k.open,
                           !.level = IF k.read = CLEAR THEN k.rank ELSE k.read,
                           !.supp = k.supp]
            ELSE IF v.rules = {} THEN IdleEval ELSE v
    /\ UNCHANGED <<alarms, suppressions, reading, enabled, requests, cooling, budget>>

Rule == CHOOSE r \in eval.at : TRUE

\* To notify of an event; v is the evaluation, rank the severity it reports.
Notify(event, a, rank) ==
    eval' = [eval EXCEPT !.pc = "publish", !.event = event, !.alarm = a,
                            !.level = rank, !.at = {}]

\* resolveMetricAlarm, which closes by interface, type and metric: whichever
\* rule's alarm it is.
Resolve ==
    /\ At("resolve")
    /\ LET open == {a \in AlarmIds : alarms[a].open} IN
       /\ alarms' = [a \in AlarmIds |-> [alarms[a] EXCEPT !.open = FALSE]]
       /\ IF open = {} THEN Resume
          ELSE Notify("RESOLVED", eval.alarm, eval.level)
    /\ UNCHANGED <<suppressions, reading, enabled, requests, cooling, budget>>

\* clear of the suppression, as RECOVERED.
Clear ==
    /\ At("clear")
    /\ suppressions' = [suppressions EXCEPT ![eval.supp].active = FALSE]
    /\ Resume
    /\ UNCHANGED <<alarms, reading, enabled, requests, cooling, budget>>

\* openMetricAlarm: a look for an open alarm, then the row. No index is unique.
Find ==
    /\ At("find")
    /\ IF OpenOf(Rule) = {} THEN Goto("create") ELSE Resume
    /\ UNCHANGED <<alarms, suppressions, reading, enabled, requests, cooling, budget>>

Create ==
    /\ At("create")
    /\ alarms' = Append(alarms, [rule |-> Rule, rank |-> eval.level, open |-> TRUE,
                                 notified |-> 0])
    /\ Notify("OPENED", Len(alarms) + 1, eval.level)
    /\ UNCHANGED <<suppressions, reading, enabled, requests, cooling, budget>>

\* escalateMetricAlarm: a look whether the alarm is open, then the update.
Check ==
    /\ At("check")
    /\ IF alarms[eval.alarm].open THEN Goto("escalate") ELSE Resume
    /\ UNCHANGED <<alarms, suppressions, reading, enabled, requests, cooling, budget>>

\* The row it returns goes to notifyEscalated; never notified counts as opened.
Escalate ==
    /\ At("escalate")
    /\ LET a == eval.alarm
           rank == eval.level IN
       /\ alarms' = [alarms EXCEPT ![a].rank = rank]
       /\ IF alarms[a].open /\ rank > alarms[a].notified
          THEN Notify(IF alarms[a].notified = 0 THEN "OPENED" ELSE "ESCALATED", a, rank)
          ELSE Resume
    /\ UNCHANGED <<suppressions, reading, enabled, requests, cooling, budget>>

Key == <<eval.alarm, eval.event, eval.level>>

\* dispatch up to the answer of the transport.
Publish ==
    /\ At("publish")
    /\ \/ /\ Key \in cooling
          /\ Resume
          /\ UNCHANGED <<cooling, budget>>
       \/ /\ Key \notin cooling
          /\ Goto("mark")
          /\ UNCHANGED <<cooling, budget>>
       \/ /\ Key \notin cooling
          /\ cooling' = cooling \cup {Key}
          /\ Resume
          /\ Fault
    /\ UNCHANGED <<alarms, suppressions, reading, enabled, requests>>

\* markHandled, for an event that was delivered or skipped; its error is swallowed.
\* (What it marks of a RESOLVED is only read of alarms that are open.)
Mark ==
    /\ At("mark")
    /\ \/ /\ alarms' = IF eval.event = "RESOLVED" THEN alarms
                       ELSE [alarms EXCEPT ![eval.alarm].notified = eval.level]
          /\ cooling' = cooling \ {Key}
          /\ UNCHANGED budget
       \/ Fault /\ UNCHANGED <<alarms, cooling>>
    /\ Resume
    /\ UNCHANGED <<suppressions, reading, enabled, requests>>

Work ==
    \/ Read \/ Decide \/ Resolve \/ Clear \/ Find \/ Create
    \/ Check \/ Escalate \/ Publish \/ Mark

-----------------------------------------------------------------------------
(* The requests of users                                                    *)

Ask(o, v) == requests' = [requests EXCEPT ![o] = v]
InRequest(o, pc) == requests[o].pc = pc

\* suppress of any alarm there is, open or not.
Suppress(o) ==
    /\ InRequest(o, "idle")
    /\ Edit
    /\ \E a \in AlarmIds, m \in Mode :
        Ask(o, [IdleRequest EXCEPT !.pc = "conflict", !.rule = {alarms[a].rule}, !.mode = m])
    /\ UNCHANGED <<alarms, suppressions, reading, enabled, eval, cooling>>

Asked(o) == CHOOSE r \in requests[o].rule : TRUE

\* create of the suppressions: a look for an active one, then the row.
SuppressConflict(o) ==
    /\ InRequest(o, "conflict")
    /\ Ask(o, IF ActiveOf(Asked(o)) # {} THEN IdleRequest
              ELSE [requests[o] EXCEPT !.pc = "create"])
    /\ UNCHANGED <<alarms, suppressions, reading, enabled, eval, cooling, budget>>

SuppressCreate(o) ==
    /\ InRequest(o, "create")
    /\ suppressions' = Append(suppressions, [rule |-> Asked(o), mode |-> requests[o].mode,
                                             active |-> TRUE, closed |-> {}])
    /\ Ask(o, [requests[o] EXCEPT !.pc = "find", !.supp = Len(suppressions) + 1])
    /\ UNCHANGED <<alarms, reading, enabled, eval, cooling, budget>>

\* closeOpenAlarmsForFingerprint and resolveOpenMetricAlarmsForRule: the open
\* rows, then one transaction that ends them.
CloseFind(o) ==
    /\ InRequest(o, "find")
    /\ Ask(o, IF OpenOf(Asked(o)) = {} THEN IdleRequest
              ELSE [requests[o] EXCEPT !.pc = "close", !.rows = OpenOf(Asked(o))])
    /\ UNCHANGED <<alarms, suppressions, reading, enabled, eval, cooling, budget>>

Close(o) ==
    /\ InRequest(o, "close")
    /\ LET v == requests[o] IN
       \/ /\ alarms' = [a \in AlarmIds |-> [alarms[a] EXCEPT !.open = @ /\ a \notin v.rows]]
          /\ suppressions' =
                [s \in DOMAIN suppressions |->
                    IF s # v.supp THEN suppressions[s]
                    ELSE [suppressions[s] EXCEPT !.closed =
                            @ \cup {a \in v.rows : alarms[a].open}]]
          /\ UNCHANGED budget
       \/ Fault /\ UNCHANGED <<alarms, suppressions>>
    /\ Ask(o, IdleRequest)
    /\ UNCHANGED <<reading, enabled, eval, cooling>>

\* PATCH of a rule, which is disabled before its alarms are closed.
Disable(o) ==
    /\ InRequest(o, "idle")
    /\ Edit
    /\ \E r \in Rules :
        /\ enabled[r]
        /\ enabled' = [enabled EXCEPT ![r] = FALSE]
        /\ Ask(o, [IdleRequest EXCEPT !.pc = "find", !.rule = {r}])
    /\ UNCHANGED <<alarms, suppressions, reading, eval, cooling>>

Enable(r) ==
    /\ ~enabled[r]
    /\ Edit
    /\ enabled' = [enabled EXCEPT ![r] = TRUE]
    /\ UNCHANGED <<alarms, suppressions, reading, eval, requests, cooling>>

\* release, and the end of an UNTIL_TIME window.
Release(s) ==
    /\ suppressions[s].active
    /\ Edit
    /\ suppressions' = [suppressions EXCEPT ![s].active = FALSE]
    /\ UNCHANGED <<alarms, reading, enabled, eval, requests, cooling>>

Expire(s) ==
    /\ suppressions[s].active
    /\ suppressions[s].mode = "UNTIL_TIME"
    /\ suppressions' = [suppressions EXCEPT ![s].active = FALSE]
    /\ UNCHANGED <<alarms, reading, enabled, eval, requests, cooling, budget>>

Request(o) == SuppressConflict(o) \/ SuppressCreate(o) \/ CloseFind(o) \/ Close(o)

-----------------------------------------------------------------------------
(* The rest of the world                                                    *)

\* The samples of a poll, stored before it evaluates.
NewReading(r) ==
    /\ Edit
    /\ \E x \in Reading \ {reading[r]} : reading' = [reading EXCEPT ![r] = x]
    /\ UNCHANGED <<alarms, suppressions, enabled, eval, requests, cooling>>

CooldownEnds ==
    /\ cooling # {}
    /\ cooling' = {}
    /\ UNCHANGED <<alarms, suppressions, reading, enabled, eval, requests, budget>>

Restart ==
    /\ Edit
    /\ eval' = IdleEval
    /\ requests' = [o \in Operators |-> IdleRequest]
    /\ cooling' = {}
    /\ UNCHANGED <<alarms, suppressions, reading, enabled>>

Next ==
    \/ Start
    \/ Work
    \/ \E o \in Operators : Suppress(o) \/ Disable(o) \/ Request(o)
    \/ \E r \in Rules : Enable(r) \/ NewReading(r)
    \/ \E s \in DOMAIN suppressions : Release(s) \/ Expire(s)
    \/ CooldownEnds
    \/ Restart

\* The poller's timer fires, an await ends, time passes. Users owe nothing.
Spec ==
    /\ Init /\ [][Next]_vars
    /\ WF_vars(Start) /\ WF_vars(Work)
    /\ \A o \in Operators : WF_vars(Request(o))
    /\ WF_vars(\E s \in DOMAIN suppressions : Expire(s))
    /\ WF_vars(CooldownEnds)

-----------------------------------------------------------------------------
(* Properties                                                               *)

\* No evaluation opens again what a suppression in force has closed, although
\* the suppression may be created, close the alarm, or both between two reads.
ClosedStaysClosed ==
    eval.pc \in {"find", "create"} =>
        \A s \in ActiveOf(Rule) : suppressions[s].closed = {}

Settled(r) == reading[r] = CLEAR /\ enabled[r]

\* A recovery that lasts closes every alarm of the rule, a row whose suppression
\* failed to close it included.
RecoveryCloses ==
    \A r \in Rules : <>[]Settled(r) => <>[](OpenOf(r) = {})

\* A recovery that lasts lifts every UNTIL_CLEAR suppression of the rule, two
\* created at once included.
RecoveryLifts ==
    \A r \in Rules : <>[]Settled(r) =>
        <>[](\A s \in ActiveOf(r) : suppressions[s].mode # "UNTIL_CLEAR")
=============================================================================
