-------------------------- MODULE AlarmEngineProofs --------------------------
(* Proofs about AlarmEngine, for every value of its constants.               *)
EXTENDS AlarmEngine, SequenceTheorems, FiniteSetTheorems, TLAPS

-----------------------------------------------------------------------------
(* The inductive invariant                                                   *)

Row == [rule : Rules, rank : Rank \ {0}, open : BOOLEAN, notified : Rank]
Suppression == [rule : Rules, mode : Mode, active : BOOLEAN, closed : SUBSET AlarmIds]
Known == [read : Reading, open : AlarmIds \cup {0}, rank : Rank, mode : Mode,
          supp : DOMAIN suppressions \cup {0}]
Eval == [pc : EvalPc, rules : SUBSET Rules, known : [Rules -> Known], at : SUBSET Rules,
         event : Event, alarm : AlarmIds \cup {0}, level : Rank,
         supp : DOMAIN suppressions \cup {0}]
Requested == [pc : RequestPc, rule : SUBSET Rules, mode : Mode,
              supp : DOMAIN suppressions \cup {0}, rows : SUBSET AlarmIds]

\* A step concerns one rule, whose turn is over, and an alarm and a level it needs.
TurnOK ==
    /\ eval.pc \in {"find", "create"} => \E r \in Rules : eval.at = {r} /\ r \notin eval.rules
    /\ eval.pc \in {"resolve", "check", "escalate", "publish", "mark"} => eval.alarm # 0
    /\ eval.pc \in {"find", "create", "check", "escalate"} => eval.level # 0
    /\ eval.pc = "clear" => eval.supp # 0

\* A request closes alarms of the rule of its suppression.
RequestOK(v) ==
    v.pc \in {"conflict", "create", "find", "close"} =>
        \E r \in Rules :
            /\ v.rule = {r}
            /\ v.supp # 0 => suppressions[v.supp].rule = r
            /\ \A a \in v.rows : alarms[a].rule = r

RequestsOK == DOMAIN requests = Operators /\ \A o \in Operators : RequestOK(requests[o])

\* No suppression in force has closed an alarm of the rule.
Spared(r) == \A s \in ActiveOf(r) : suppressions[s].closed = {}

\* A rule of which no open alarm was read has none until its turn; when no
\* suppression was read either, those in force since found nothing to close.
ReadsOK ==
    /\ eval.pc \notin {"idle", "samples", "alarms"} =>
        \A r \in eval.rules : eval.known[r].open = 0 => OpenOf(r) = {}
    /\ eval.pc \notin {"idle", "samples", "alarms", "suppressions"} =>
        \A r \in eval.rules : eval.known[r].open = 0 /\ eval.known[r].supp = 0 => Spared(r)
    /\ eval.pc \in {"find", "create"} =>
        \A r \in eval.at : OpenOf(r) = {} /\ Spared(r)

AlarmInv == TypeOK /\ TurnOK /\ RequestsOK /\ ReadsOK

-----------------------------------------------------------------------------
\* The points after the reads.
Working ==
    {"loop", "resolve", "clear", "find", "create", "check", "escalate", "publish", "mark"}

Budget == [edits : 0..MaxEdits, faults : 0..MaxFaults]

\* Rows are only added, and stay of their rule.
Rows ==
    /\ alarms' \in Seq(Row) /\ suppressions' \in Seq(Suppression)'
    /\ AlarmIds \subseteq AlarmIds' /\ DOMAIN suppressions \subseteq (DOMAIN suppressions)'
    /\ \A a \in AlarmIds : alarms'[a].rule = alarms[a].rule
    /\ \A s \in DOMAIN suppressions : suppressions'[s].rule = suppressions[s].rule

\* A request that a step leaves behind closes alarms of its rule.
RequestIsOK(v) ==
    v.pc \in {"conflict", "create", "find", "close"} =>
        \E r \in Rules :
            /\ v.rule = {r}
            /\ v.supp # 0 => suppressions'[v.supp].rule = r
            /\ \A a \in v.rows : alarms'[a].rule = r

\* A rule without an open alarm gets none, and its suppressions close nothing.
StaysQuiet(r) ==
    OpenOf(r) = {} => OpenOf(r)' = {} /\ (Spared(r) => Spared(r)')

\* The invariant holds at the start and over every step.
LEMMA AlarmsHold == Spec => []AlarmInv
<1>0. Severities \in Nat \ {0} /\ CLEAR \notin Nat /\ MaxEdits \in Nat /\ MaxFaults \in Nat
    BY AlarmAssumption
\* The smallest of a set of places is one of them.
<1>oldest. ASSUME NEW n \in Nat, NEW S \in SUBSET (1..n), S # {}
           PROVE  Oldest(S) \in S
    <2> USE <1>oldest
    <2> DEFINE upTo == {1..i : i \in S}
    <2>1. upTo # {} /\ upTo \subseteq FiniteSubsetsOf(1..n)
        <3>1. IsFiniteSet(1..n) /\ upTo \subseteq SUBSET (1..n)
            BY FS_Interval
        <3>2. \A T \in SUBSET (1..n) : IsFiniteSet(T)
            BY <3>1, FS_Subset
        <3>3. upTo # {}
            OBVIOUS
        <3> HIDE DEF upTo
        <3>. QED BY <3>1, <3>2, <3>3 DEF FiniteSubsetsOf
    <2>2. PICK m \in S : \A k \in S : <<1..k, 1..m>> \notin StrictSubsetOrdering(1..n)
        <3> HIDE DEF upTo
        <3>1. \E x \in upTo : \A y \in upTo : <<y, x>> \notin StrictSubsetOrdering(1..n)
            BY <2>1, WFMin, FS_StrictSubsetOrderingWellFounded, Zenon
        <3>. QED BY <3>1 DEF upTo
    <2>3. ASSUME NEW k \in S, k < m PROVE FALSE
        <3>1. 1..k \subseteq 1..m /\ m \in 1..m /\ m \notin 1..k /\ 1..m \subseteq 1..n
            BY <2>3
        <3>. QED BY <2>2, <3>1 DEF StrictSubsetOrdering
    <2>4. \A k \in S : m <= k
        BY <2>3
    <2>. QED BY <2>4 DEF Oldest
<1>1. Init => AlarmInv
    <2> SUFFICES ASSUME Init PROVE AlarmInv
        OBVIOUS
    <2>1. AlarmIds = {} /\ alarms \in Seq(Row) /\ suppressions \in Seq(Suppression)
          /\ DOMAIN suppressions = {}
        BY DEF Init, AlarmIds
    <2>2. TypeOK
        BY <1>0, <2>1 DEF Init, TypeOK, IdleEval, Unread, IdleRequest, Rank, Reading, Event,
            EvalPc, Mode, RequestPc, Row, Suppression
    <2>. QED BY <2>2 DEF Init, AlarmInv, TurnOK, RequestsOK, RequestOK, ReadsOK,
            IdleEval, IdleRequest
<1>2. ASSUME AlarmInv, Next PROVE AlarmInv'
    <2>0. TypeOK /\ TurnOK /\ RequestsOK /\ ReadsOK
        BY <1>2 DEF AlarmInv
    <2>t. /\ alarms \in Seq(Row) /\ suppressions \in Seq(Suppression)
          /\ reading \in [Rules -> Reading] /\ enabled \in [Rules -> BOOLEAN]
          /\ eval \in Eval /\ (\A o \in Operators : requests[o] \in Requested)
          /\ cooling \subseteq AlarmIds \X Event \X Rank /\ budget \in Budget
        BY <2>0 DEF TypeOK, Row, Suppression, Known, Eval, Requested, Budget
    <2>rows. /\ Len(alarms) \in Nat /\ AlarmIds = 1..Len(alarms)
             /\ Len(suppressions) \in Nat /\ DOMAIN suppressions = 1..Len(suppressions)
             /\ \A a \in AlarmIds : alarms[a] \in Row
             /\ \A s \in DOMAIN suppressions : suppressions[s] \in Suppression
        BY <2>t, LenProperties, ElementOfSeq DEF AlarmIds
    <2>sets. Rows => /\ Suppression \subseteq Suppression' /\ Known \subseteq Known'
                     /\ Requested \subseteq Requested'
                     /\ AlarmIds \X Event \X Rank \subseteq (AlarmIds \X Event \X Rank)'
        <3> SUFFICES ASSUME Rows PROVE /\ Suppression \subseteq Suppression' /\ Known \subseteq Known'
                     /\ Requested \subseteq Requested'
                     /\ AlarmIds \X Event \X Rank \subseteq (AlarmIds \X Event \X Rank)'
            OBVIOUS
        <3>1. AlarmIds \subseteq AlarmIds' /\ DOMAIN suppressions \subseteq DOMAIN suppressions'
            BY DEF Rows
        <3>2. Suppression \subseteq Suppression'
            BY <3>1 DEF Suppression
        <3>3. Known \subseteq Known'
            BY <3>1 DEF Known
        <3>4. Requested \subseteq Requested'
            BY <3>1 DEF Requested
        <3>. QED BY <3>1, <3>2, <3>3, <3>4
    <2>evals. Rows => Eval \subseteq Eval'
        <3> SUFFICES ASSUME Rows, NEW v \in Eval PROVE v \in Eval'
            OBVIOUS
        <3>1. AlarmIds \subseteq AlarmIds' /\ DOMAIN suppressions \subseteq DOMAIN suppressions'
              /\ Known \subseteq Known'
            BY <2>sets DEF Rows
        <3>2. [Rules -> Known] \subseteq [Rules -> Known']
            BY <3>1
        <3>. QED BY <3>1, <3>2 DEF Eval
    <2>all. ASSUME Rows, reading' \in [Rules -> Reading], enabled' \in [Rules -> BOOLEAN],
                   cooling' \subseteq (AlarmIds \X Event \X Rank)', budget' \in Budget,
                   eval' \in Eval', TurnOK', ReadsOK',
                   \A o \in Operators : requests'[o] \in Requested', RequestsOK'
            PROVE  AlarmInv'
        BY <2>all DEF AlarmInv, TypeOK, Rows, Row, Suppression, Known, Eval, Requested, Budget,
           TurnOK
    \* Of the rows, the evaluation and the requests, what a step leaves alone.
    <2>same. ASSUME UNCHANGED <<alarms, suppressions>>
             PROVE  /\ Rows /\ AlarmIds' = AlarmIds /\ Eval' = Eval /\ Requested' = Requested
                    /\ \A r \in Rules : StaysQuiet(r) /\ OpenOf(r)' = OpenOf(r)
                                        /\ Spared(r)' = Spared(r)
        <3>1. AlarmIds' = AlarmIds /\ DOMAIN suppressions' = DOMAIN suppressions
              /\ Suppression' = Suppression /\ Eval' = Eval /\ Requested' = Requested
            BY <2>same DEF AlarmIds, Suppression, Eval, Known, Requested
        <3>2. \A r \in Rules : OpenOf(r)' = OpenOf(r) /\ Spared(r)' = Spared(r)
            BY <2>same DEF OpenOf, AlarmIds, Spared, ActiveOf
        <3>. QED BY <2>t, <2>same, <3>1, <3>2 DEF Rows, StaysQuiet
    <2>still. ASSUME Rows, \A r \in Rules : StaysQuiet(r), UNCHANGED eval
              PROVE  eval' \in Eval' /\ TurnOK' /\ ReadsOK'
        <3>1. eval' \in Eval'
            BY <2>t, <2>still, <2>evals
        <3>2. TurnOK'
            BY <2>0, <2>still DEF TurnOK
        <3>3. eval.rules \subseteq Rules /\ eval.at \subseteq Rules
            BY <2>t DEF Eval
        <3>. QED BY <2>0, <2>still, <3>1, <3>2, <3>3 DEF ReadsOK, StaysQuiet
    <2>asked. ASSUME Rows, UNCHANGED requests
              PROVE  (\A o \in Operators : requests'[o] \in Requested') /\ RequestsOK'
        <3>1. \A o \in Operators : requests'[o] \in Requested'
            BY <2>t, <2>asked, <2>sets
        <3>2. ASSUME NEW o \in Operators PROVE RequestOK(requests[o])'
            <4>1. RequestOK(requests[o]) /\ requests[o] \in Requested
                BY <2>0, <2>t DEF RequestsOK
            <4>. QED BY <2>asked, <4>1 DEF RequestOK, Requested, Rows
        <3>. QED BY <2>0, <2>asked, <3>1, <3>2 DEF RequestsOK
    <2>idle. ASSUME eval' = IdleEval PROVE eval' \in Eval' /\ TurnOK' /\ ReadsOK'
        <3>1. eval' \in Eval'
            BY <1>0, <2>idle DEF IdleEval, Unread, Eval, Known, EvalPc, Event, Rank, Reading, Mode
        <3>. QED BY <2>idle, <3>1 DEF IdleEval, TurnOK, ReadsOK
    <2>works. ASSUME Rows, \A r \in eval.rules : StaysQuiet(r), eval.pc \in Working,
                     NEW v \in Eval', eval' = v, v.pc \in {"loop", "publish"},
                     v.rules = eval.rules, v.known = eval.known, v.pc = "publish" => v.alarm # 0
              PROVE  eval' \in Eval' /\ TurnOK' /\ ReadsOK'
        <3>1. TurnOK'
            BY <2>works DEF TurnOK
        <3>2. ReadsOK'
            BY <2>0, <2>works DEF ReadsOK, StaysQuiet, Working
        <3>. QED BY <2>works, <3>1, <3>2
    <2>resume. ASSUME Rows, \A r \in eval.rules : StaysQuiet(r), eval.pc \in Working, Resume
               PROVE  eval' \in Eval' /\ TurnOK' /\ ReadsOK'
        <3>1. CASE eval.rules = {}
            BY <2>resume, <2>idle, <3>1 DEF Resume
        <3>2. CASE eval.rules # {}
            <4> DEFINE v == [eval EXCEPT !.pc = "loop", !.at = {}, !.event = "OPENED",
                                         !.alarm = 0, !.level = 0, !.supp = 0]
            <4>1. v \in Eval /\ v.pc = "loop" /\ v.rules = eval.rules /\ v.known = eval.known
                <5>1. 0 \in Rank /\ "OPENED" \in Event /\ "loop" \in EvalPc
                    BY <1>0 DEF Rank, Event, EvalPc
                <5>. QED BY <2>t, <5>1 DEF Eval
            <4>2. eval' = v
                BY <2>resume, <3>2 DEF Resume
            <4> HIDE DEF v
            <4>. QED BY <2>resume, <2>works, <2>evals, <4>1, <4>2
        <3>. QED BY <3>1, <3>2
    <2>notify. ASSUME Rows, \A r \in eval.rules : StaysQuiet(r), eval.pc \in Working,
                      NEW e \in Event, NEW a \in AlarmIds', a # 0, NEW k \in Rank, Notify(e, a, k)
               PROVE  eval' \in Eval' /\ TurnOK' /\ ReadsOK'
        <3> DEFINE v == [eval EXCEPT !.pc = "publish", !.event = e, !.alarm = a,
                                     !.level = k, !.at = {}]
        <3>1. eval \in Eval'
            BY <2>t, <2>notify, <2>evals
        <3>2. v \in Eval' /\ v.pc = "publish" /\ v.rules = eval.rules /\ v.known = eval.known
              /\ v.alarm = a
            BY <2>notify, <3>1 DEF Eval, EvalPc
        <3>3. eval' = v
            BY <2>notify DEF Notify
        <3> HIDE DEF v
        <3>. QED BY <2>notify, <2>works, <3>2, <3>3
    <2>ask. ASSUME Rows, NEW o \in Operators, NEW v \in Requested', Ask(o, v), RequestIsOK(v)
            PROVE  (\A q \in Operators : requests'[q] \in Requested') /\ RequestsOK'
        <3>1. \A q \in Operators : requests[q] \in Requested' /\ RequestOK(requests[q])
            BY <2>0, <2>t, <2>ask, <2>sets DEF RequestsOK
        <3>2. DOMAIN requests' = Operators
              /\ \A q \in Operators : requests'[q] = IF q = o THEN v ELSE requests[q]
            BY <2>0, <2>ask DEF Ask, RequestsOK
        <3>3. ASSUME NEW q \in Operators, q # o PROVE RequestOK(requests[q])'
            <4>1. requests'[q] = requests[q] /\ requests[q] \in Requested /\ RequestOK(requests[q])
                BY <2>t, <3>1, <3>2, <3>3
            <4>. QED BY <2>ask, <4>1 DEF RequestOK, Requested, Rows
        <3>4. RequestOK(requests[o])'
            BY <2>ask, <3>2 DEF RequestOK, RequestIsOK
        <3>5. \A q \in Operators : requests'[q] \in Requested'
            BY <2>ask, <3>1, <3>2
        <3>. QED BY <3>2, <3>3, <3>4, <3>5 DEF RequestsOK
    <2>fewer. ASSUME alarms' \in [AlarmIds -> Row], UNCHANGED suppressions,
                     \A a \in AlarmIds : /\ alarms'[a].rule = alarms[a].rule
                                         /\ alarms'[a].open => alarms[a].open
              PROVE  Rows /\ AlarmIds' = AlarmIds /\ \A r \in Rules : StaysQuiet(r)
        <3>1. alarms' \in Seq(Row)
            BY <2>fewer, <2>rows, SeqDef
        <3>2. AlarmIds' = AlarmIds
            BY <2>fewer DEF AlarmIds
        <3>3. \A r \in Rules : OpenOf(r)' \subseteq OpenOf(r) /\ Spared(r)' = Spared(r)
            BY <2>fewer, <3>2 DEF OpenOf, Spared, ActiveOf
        <3>4. Rows
            BY <2>t, <2>fewer, <3>1, <3>2 DEF Rows, Suppression
        <3>. QED BY <3>2, <3>3, <3>4 DEF StaysQuiet
    <2>lift. ASSUME NEW s \in DOMAIN suppressions, UNCHANGED alarms,
                    suppressions' = [suppressions EXCEPT ![s].active = FALSE]
             PROVE  Rows /\ AlarmIds' = AlarmIds /\ \A r \in Rules : StaysQuiet(r)
        <3> DEFINE x == [suppressions[s] EXCEPT !.active = FALSE]
        <3>1. x \in Suppression /\ x.rule = suppressions[s].rule /\ ~x.active
            BY <2>rows DEF Suppression
        <3>2. suppressions' = [suppressions EXCEPT ![s] = x]
            BY <2>lift
        <3> HIDE DEF x
        <3>3. /\ suppressions' \in Seq(Suppression) /\ DOMAIN suppressions' = DOMAIN suppressions
              /\ \A j \in DOMAIN suppressions :
                    suppressions'[j] = IF j = s THEN x ELSE suppressions[j]
            BY <2>t, <2>rows, <3>1, <3>2, ExceptSeq
        <3>4. AlarmIds' = AlarmIds /\ Suppression' = Suppression
            BY <2>lift DEF AlarmIds, Suppression
        <3>5. Rows
            BY <2>t, <2>lift, <3>1, <3>3, <3>4 DEF Rows
        <3>6. \A r \in Rules : OpenOf(r)' = OpenOf(r)
            BY <2>lift, <3>4 DEF OpenOf
        <3>7. \A r \in Rules : ActiveOf(r)' \subseteq ActiveOf(r) \ {s}
            BY <3>1, <3>3 DEF ActiveOf
        <3>8. \A r \in Rules : Spared(r) => Spared(r)'
            BY <3>3, <3>7 DEF Spared, ActiveOf
        <3>. QED BY <3>4, <3>5, <3>6, <3>8 DEF StaysQuiet
    <2>fault. Fault \/ Edit => budget' \in Budget
        BY <1>0, <2>t DEF Fault, Edit, Budget
    <2>rules. eval.rules \subseteq Rules /\ eval.alarm \in AlarmIds \cup {0} /\ eval.level \in Rank
              /\ eval.supp \in DOMAIN suppressions \cup {0}
        BY <2>t DEF Eval
    <2>row. alarms \in [AlarmIds -> Row]
        BY <2>t, <2>rows, LenProperties
    <2>1. CASE Start
        <3>1. UNCHANGED <<alarms, suppressions, reading, enabled, requests, cooling, budget>>
            BY <2>1 DEF Start
        <3> DEFINE on == {r \in Rules : enabled[r]}
        <3>2. CASE eval' = IdleEval
            BY <2>t, <2>all, <2>same, <2>asked, <2>idle, <3>1, <3>2
        <3>3. CASE eval' = [IdleEval EXCEPT !.pc = "samples", !.rules = on]
            <4>1. eval' \in Eval' /\ eval'.pc = "samples"
                <5>1. IdleEval \in Eval
                    BY <1>0 DEF IdleEval, Unread, Eval, Known, EvalPc, Event, Rank, Reading, Mode
                <5>2. eval' \in Eval /\ eval'.pc = "samples"
                    BY <3>3, <5>1 DEF Eval, EvalPc
                <5>. QED BY <2>evals, <2>same, <3>1, <5>2
            <4>2. TurnOK' /\ ReadsOK'
                BY <4>1 DEF TurnOK, ReadsOK
            <4>. QED BY <2>t, <2>all, <2>same, <2>asked, <3>1, <4>1, <4>2
        <3>. QED BY <2>1, <3>2, <3>3 DEF Start
    <2>2. CASE Read
        <3>1. UNCHANGED <<alarms, suppressions, reading, enabled, requests, cooling, budget>>
            BY <2>2 DEF Read
        <3>2. /\ eval.pc \in {"samples", "alarms", "suppressions"}
              /\ eval.rules \subseteq Rules /\ eval.known \in [Rules -> Known]
            BY <2>t, <2>2 DEF Read, At, Eval
        <3>3. ASSUME NEW known \in [Rules -> Known], NEW p \in EvalPc \ {"find", "create"},
                     eval' = [eval EXCEPT !.pc = p, !.known = known]
              PROVE  /\ eval' \in Eval' /\ eval'.pc = p /\ eval'.rules = eval.rules
                     /\ eval'.known = known /\ eval'.alarm = eval.alarm
            <4>1. eval' \in Eval /\ eval'.pc = p /\ eval'.rules = eval.rules
                  /\ eval'.known = known /\ eval'.alarm = eval.alarm
                BY <2>t, <3>3 DEF Eval
            <4>. QED BY <2>evals, <2>same, <3>1, <4>1
        <3>4. CASE eval.pc = "samples"
            <4> DEFINE known == [r \in Rules |-> IF r \in eval.rules
                                    THEN [eval.known[r] EXCEPT !.read = reading[r]] ELSE Unread]
            <4>1. eval' = [eval EXCEPT !.pc = "alarms", !.known = known]
                BY <2>2, <3>4 DEF Read, At, Reads
            <4>2. known \in [Rules -> Known]
                <5>1. Unread \in Known
                    BY <1>0 DEF Unread, Known, Rank, Reading, Mode
                <5>2. ASSUME NEW r \in Rules
                      PROVE  [eval.known[r] EXCEPT !.read = reading[r]] \in Known
                    BY <2>t, <3>2 DEF Known
                <5>. QED BY <5>1, <5>2
            <4> HIDE DEF known
            <4>3. eval' \in Eval' /\ eval'.pc = "alarms"
                BY <3>3, <4>1, <4>2 DEF EvalPc
            <4>4. TurnOK' /\ ReadsOK'
                BY <4>3 DEF TurnOK, ReadsOK
            <4>. QED BY <2>t, <2>all, <2>same, <2>asked, <3>1, <4>3, <4>4
        <3>5. CASE eval.pc = "alarms"
            <4> DEFINE k(r) == [eval.known[r] EXCEPT
                            !.open = Oldest(OpenOf(r)),
                            !.rank = IF OpenOf(r) # {} THEN alarms[Oldest(OpenOf(r))].rank ELSE 0]
                       known == [r \in Rules |-> IF r \in eval.rules THEN k(r) ELSE Unread]
            <4>1. eval' = [eval EXCEPT !.pc = "suppressions", !.known = known]
                BY <2>2, <3>5 DEF Read, At, Reads
            <4>2. ASSUME NEW r \in Rules
                  PROVE  /\ k(r) \in Known
                         /\ k(r).open = 0 => OpenOf(r) = {}
                <5>1. OpenOf(r) # {} => Oldest(OpenOf(r)) \in OpenOf(r)
                    BY <1>oldest, <2>rows DEF OpenOf
                <5>2. /\ Oldest(OpenOf(r)) \in AlarmIds \cup {0}
                      /\ OpenOf(r) # {} => Oldest(OpenOf(r)) # 0
                                           /\ alarms[Oldest(OpenOf(r))].rank \in Rank
                    <6>1. OpenOf(r) = {} => Oldest(OpenOf(r)) = 0
                        BY DEF Oldest
                    <6>2. OpenOf(r) \subseteq AlarmIds
                        BY DEF OpenOf
                    <6>. QED BY <2>rows, <5>1, <6>1, <6>2 DEF Row
                <5>3. 0 \in Rank
                    BY <1>0 DEF Rank
                <5>. QED BY <3>2, <5>2, <5>3 DEF Known
            <4>3. Unread \in Known
                BY <1>0 DEF Unread, Known, Rank, Reading, Mode
            <4>4. known \in [Rules -> Known]
                <5> HIDE DEF k
                <5>. QED BY <4>2, <4>3
            <4>5. \A r \in eval.rules : known[r].open = 0 => OpenOf(r) = {}
                <5> HIDE DEF k
                <5>. QED BY <3>2, <4>2
            <4> HIDE DEF known
            <4>6. /\ eval' \in Eval' /\ eval'.pc = "suppressions"
                  /\ eval'.rules = eval.rules /\ eval'.known = known
                BY <3>3, <4>1, <4>4 DEF EvalPc
            <4>7. TurnOK'
                BY <4>6 DEF TurnOK
            <4>8. ReadsOK'
                BY <2>same, <3>1, <3>2, <4>5, <4>6 DEF ReadsOK
            <4>. QED BY <2>t, <2>all, <2>same, <2>asked, <3>1, <4>6, <4>7, <4>8
        <3>6. CASE eval.pc = "suppressions"
            <4> DEFINE k(r) == [eval.known[r] EXCEPT
                            !.supp = Oldest(ActiveOf(r)),
                            !.mode = IF ActiveOf(r) # {}
                                     THEN suppressions[Oldest(ActiveOf(r))].mode
                                     ELSE "UNTIL_CLEAR"]
                       known == [r \in Rules |-> IF r \in eval.rules THEN k(r) ELSE Unread]
            <4>1. eval' = [eval EXCEPT !.pc = "loop", !.known = known]
                BY <2>2, <3>6 DEF Read, At, Reads
            <4>2. ASSUME NEW r \in Rules
                  PROVE  /\ k(r) \in Known /\ k(r).open = eval.known[r].open
                         /\ k(r).supp = 0 => ActiveOf(r) = {}
                <5>1. ActiveOf(r) # {} => Oldest(ActiveOf(r)) \in ActiveOf(r)
                    BY <1>oldest, <2>rows DEF ActiveOf
                <5>2. /\ Oldest(ActiveOf(r)) \in DOMAIN suppressions \cup {0}
                      /\ ActiveOf(r) # {} => Oldest(ActiveOf(r)) # 0
                                             /\ suppressions[Oldest(ActiveOf(r))].mode \in Mode
                    <6>1. ActiveOf(r) = {} => Oldest(ActiveOf(r)) = 0
                        BY DEF Oldest
                    <6>2. ActiveOf(r) \subseteq DOMAIN suppressions
                        BY DEF ActiveOf
                    <6>. QED BY <2>rows, <5>1, <6>1, <6>2 DEF Suppression
                <5>. QED BY <3>2, <5>2 DEF Known, Mode
            <4>3. Unread \in Known
                BY <1>0 DEF Unread, Known, Rank, Reading, Mode
            <4>4. known \in [Rules -> Known]
                <5> HIDE DEF k
                <5>. QED BY <4>2, <4>3
            <4>5. \A r \in eval.rules :
                    /\ known[r].open = 0 => OpenOf(r) = {}
                    /\ known[r].supp = 0 => Spared(r)
                <5> HIDE DEF k
                <5>. QED BY <2>0, <3>2, <3>6, <4>2 DEF ReadsOK, Spared
            <4> HIDE DEF known
            <4>6. /\ eval' \in Eval' /\ eval'.pc = "loop"
                  /\ eval'.rules = eval.rules /\ eval'.known = known
                BY <3>3, <4>1, <4>4 DEF EvalPc
            <4>7. TurnOK'
                BY <4>6 DEF TurnOK
            <4>8. ReadsOK'
                BY <2>same, <3>1, <3>2, <4>5, <4>6 DEF ReadsOK
            <4>. QED BY <2>t, <2>all, <2>same, <2>asked, <3>1, <4>6, <4>7, <4>8
        <3>. QED BY <3>2, <3>4, <3>5, <3>6
    <2>3. CASE Decide
        <3>1. /\ UNCHANGED <<alarms, suppressions, reading, enabled, requests, cooling, budget>>
              /\ eval.pc = "loop" /\ eval.rules \subseteq Rules /\ eval.known \in [Rules -> Known]
            BY <2>t, <2>3 DEF Decide, At, Eval
        <3> DEFINE v(r) == [eval EXCEPT !.rules = @ \ {r}, !.known[r] = Unread]
                   k(r) == eval.known[r]
                   w(r) == [v(r) EXCEPT !.pc = Decision(k(r)), !.at = {r}, !.alarm = k(r).open,
                                        !.level = IF k(r).read = CLEAR THEN k(r).rank
                                                  ELSE k(r).read,
                                        !.supp = k(r).supp]
        <3>2. PICK r \in eval.rules :
                eval' = IF Decision(k(r)) # "loop" THEN w(r)
                        ELSE IF v(r).rules = {} THEN IdleEval ELSE v(r)
            BY <2>3 DEF Decide
        <3>3. /\ v(r) \in Eval /\ v(r).rules = eval.rules \ {r} /\ v(r).pc = "loop"
              /\ \A q \in eval.rules \ {r} : v(r).known[q] = eval.known[q]
            <4>1. Unread \in Known
                BY <1>0 DEF Unread, Known, Rank, Reading, Mode
            <4>. QED BY <2>t, <3>1, <4>1 DEF Eval
        <3>4. k(r) \in Known
            BY <3>1
        <3> HIDE DEF v, k
        <3>5. /\ Decision(k(r)) \in {"resolve", "clear", "loop", "find", "check"}
              /\ Decision(k(r)) \in {"resolve", "check"} => k(r).open # 0
              /\ Decision(k(r)) = "clear" => k(r).supp # 0
              /\ Decision(k(r)) = "find" => k(r).open = 0 /\ k(r).supp = 0
              /\ Decision(k(r)) \in {"find", "check"} => k(r).read \notin {CLEAR, 0}
            <4>1. CASE k(r).open # 0 /\ k(r).read = CLEAR
                BY <4>1 DEF Decision
            <4>2. CASE k(r).open = 0 /\ k(r).supp # 0
                BY <4>2 DEF Decision
            <4>3. CASE k(r).open = 0 /\ k(r).supp = 0
                BY <4>3 DEF Decision
            <4>4. CASE k(r).open # 0 /\ k(r).read # CLEAR
                BY <4>4 DEF Decision
            <4>. QED BY <4>1, <4>2, <4>3, <4>4
        <3>6. CASE Decision(k(r)) # "loop"
            <4> DEFINE level == IF k(r).read = CLEAR THEN k(r).rank ELSE k(r).read
            <4>1. level \in Rank /\ (Decision(k(r)) \in {"find", "check"} => level # 0)
                BY <3>4, <3>5 DEF Known, Reading
            <4> HIDE DEF level
            <4>2. w(r) = [v(r) EXCEPT !.pc = Decision(k(r)), !.at = {r}, !.alarm = k(r).open,
                                      !.level = level, !.supp = k(r).supp]
                BY DEF level
            <4> HIDE DEF w
            <4>3. /\ w(r) \in Eval /\ w(r).pc = Decision(k(r)) /\ w(r).at = {r}
                  /\ w(r).alarm = k(r).open /\ w(r).level = level /\ w(r).supp = k(r).supp
                  /\ w(r).rules = eval.rules \ {r} /\ w(r).known = v(r).known
                <5>1. /\ k(r).open \in AlarmIds \cup {0} /\ r \in Rules
                      /\ k(r).supp \in DOMAIN suppressions \cup {0}
                      /\ Decision(k(r)) \in EvalPc
                    BY <3>1, <3>4, <3>5 DEF Known, EvalPc
                <5>2. PICK x, e, p, a, l, s :
                        /\ x = w(r) /\ e = v(r) /\ p = Decision(k(r)) /\ a = k(r).open /\ l = level
                        /\ s = k(r).supp
                    OBVIOUS
                <5>3. x = [e EXCEPT !.pc = p, !.at = {r}, !.alarm = a, !.level = l, !.supp = s]
                    BY <4>2, <5>2
                <5>4. /\ e \in Eval /\ p \in EvalPc /\ a \in AlarmIds \cup {0} /\ l \in Rank
                      /\ s \in DOMAIN suppressions \cup {0}
                    BY <3>3, <4>1, <5>1, <5>2
                <5>5. /\ x \in Eval /\ x.pc = p /\ x.at = {r} /\ x.alarm = a
                      /\ x.level = l /\ x.supp = s
                      /\ x.rules = e.rules /\ x.known = e.known
                    BY <5>1, <5>3, <5>4 DEF Eval
                <5>. QED BY <3>3, <5>2, <5>5
            <4>4. eval' = w(r)
                BY <3>2, <3>6
            <4>5. eval' \in Eval'
                BY <2>evals, <2>same, <3>1, <4>3, <4>4
            <4>6. TurnOK'
                BY <3>1, <3>5, <4>1, <4>3, <4>4 DEF TurnOK
            <4>7. ReadsOK'
                <5>1. /\ \A q \in eval.rules : k(q).open = 0 => OpenOf(q) = {}
                      /\ \A q \in eval.rules : k(q).open = 0 /\ k(q).supp = 0 => Spared(q)
                    BY <2>0, <3>1 DEF ReadsOK, k
                <5>2. \A q \in eval.rules \ {r} : v(r).known[q] = k(q)
                    BY <3>3 DEF k
                <5>3. \A q \in Rules : OpenOf(q)' = OpenOf(q) /\ Spared(q)' = Spared(q)
                    BY <2>same, <3>1
                <5>. QED BY <3>1, <3>5, <4>3, <4>4, <5>1, <5>2, <5>3 DEF ReadsOK
            <4>. QED BY <2>t, <2>all, <2>same, <2>asked, <3>1, <4>5, <4>6, <4>7
        <3>7. CASE Decision(k(r)) = "loop" /\ v(r).rules = {}
            BY <2>t, <2>all, <2>same, <2>asked, <2>idle, <3>1, <3>2, <3>7
        <3>8. CASE Decision(k(r)) = "loop" /\ v(r).rules # {}
            <4>1. eval' = v(r)
                BY <3>2, <3>8
            <4>2. eval' \in Eval' /\ TurnOK'
                BY <2>evals, <2>same, <3>1, <3>3, <4>1 DEF TurnOK
            <4>3. ReadsOK'
                <5>1. /\ \A q \in eval.rules : eval.known[q].open = 0 => OpenOf(q) = {}
                      /\ \A q \in eval.rules :
                            eval.known[q].open = 0 /\ eval.known[q].supp = 0 => Spared(q)
                    BY <2>0, <3>1 DEF ReadsOK
                <5>2. \A q \in Rules : OpenOf(q)' = OpenOf(q) /\ Spared(q)' = Spared(q)
                    BY <2>same, <3>1
                <5>. QED BY <3>1, <3>3, <4>1, <5>1, <5>2 DEF ReadsOK
            <4>. QED BY <2>t, <2>all, <2>same, <2>asked, <3>1, <4>2, <4>3
        <3>. QED BY <3>6, <3>7, <3>8
    <2>4. CASE Resolve
        <3>1. /\ eval.pc = "resolve" /\ alarms' = [a \in AlarmIds |-> [alarms[a] EXCEPT !.open = FALSE]]
              /\ UNCHANGED <<suppressions, reading, enabled, requests, cooling, budget>>
              /\ Resume \/ Notify("RESOLVED", eval.alarm, eval.level)
            BY <2>4 DEF Resolve, At
        <3>2. Rows /\ AlarmIds' = AlarmIds /\ \A r \in Rules : StaysQuiet(r)
            <4>1. \A a \in AlarmIds : /\ [alarms[a] EXCEPT !.open = FALSE] \in Row
                                      /\ [alarms[a] EXCEPT !.open = FALSE].rule = alarms[a].rule
                                      /\ ~[alarms[a] EXCEPT !.open = FALSE].open
                BY <2>rows DEF Row
            <4>. QED BY <2>fewer, <3>1, <4>1
        <3>3. eval.pc \in Working /\ eval.alarm # 0 /\ "RESOLVED" \in Event
            BY <2>0, <3>1 DEF TurnOK, Working, Event
        <3>4. eval' \in Eval' /\ TurnOK' /\ ReadsOK'
            BY <2>rules, <2>resume, <2>notify, <3>1, <3>2, <3>3
        <3>. QED BY <2>t, <2>all, <2>asked, <3>1, <3>2, <3>4
    <2>5. CASE Clear
        <3>1. /\ eval.pc = "clear" /\ suppressions' = [suppressions EXCEPT ![eval.supp].active = FALSE]
              /\ Resume /\ UNCHANGED <<alarms, reading, enabled, requests, cooling, budget>>
            BY <2>5 DEF Clear, At
        <3>2. Rows /\ AlarmIds' = AlarmIds /\ \A r \in Rules : StaysQuiet(r)
            BY <2>0, <2>rules, <2>lift, <3>1 DEF TurnOK
        <3>3. eval' \in Eval' /\ TurnOK' /\ ReadsOK'
            BY <2>rules, <2>resume, <3>1, <3>2 DEF Working
        <3>. QED BY <2>t, <2>all, <2>asked, <3>1, <3>2, <3>3
    \* A look and, if it says so, the next step of the same turn.
    <2>goto. ASSUME NEW p \in {"create", "escalate", "mark"}, Goto(p),
                    UNCHANGED <<alarms, suppressions>>,
                    p = "create" => eval.pc = "find",
                    p = "escalate" => eval.pc = "check", p = "mark" => eval.pc = "publish"
             PROVE  eval' \in Eval' /\ TurnOK' /\ ReadsOK'
        <3>1. /\ eval' \in Eval /\ eval'.pc = p /\ eval'.at = eval.at /\ eval'.rules = eval.rules
              /\ eval'.known = eval.known /\ eval'.alarm = eval.alarm /\ eval'.level = eval.level
            BY <2>t, <2>goto DEF Goto, Eval, EvalPc
        <3>2. TurnOK'
            BY <2>0, <2>goto, <3>1 DEF TurnOK
        <3>3. eval.at \subseteq Rules
            BY <2>t DEF Eval
        <3>4. ReadsOK'
            BY <2>0, <2>goto, <2>same, <2>rules, <3>1, <3>3 DEF ReadsOK
        <3>. QED BY <2>goto, <2>same, <3>1, <3>2, <3>4
    <2>6. CASE Find
        <3>1. /\ eval.pc = "find"
              /\ Goto("create") \/ Resume
              /\ UNCHANGED <<alarms, suppressions, reading, enabled, requests, cooling, budget>>
            BY <2>6 DEF Find, At
        <3>2. eval' \in Eval' /\ TurnOK' /\ ReadsOK'
            <4>1. CASE Goto("create")
                BY <2>goto, <3>1, <4>1
            <4>2. CASE Resume
                BY <2>rules, <2>resume, <2>same, <3>1, <4>2 DEF Working
            <4>. QED BY <3>1, <4>1, <4>2
        <3>. QED BY <2>t, <2>all, <2>asked, <2>same, <3>1, <3>2
    <2>7. CASE Create
        <3> DEFINE n == Len(alarms) + 1
                   x == [rule |-> Rule, rank |-> eval.level, open |-> TRUE, notified |-> 0]
        <3>1. /\ eval.pc = "create" /\ alarms' = Append(alarms, x)
              /\ Notify("OPENED", n, eval.level)
              /\ UNCHANGED <<suppressions, reading, enabled, requests, cooling, budget>>
            BY <2>7 DEF Create, At
        <3>2. Rule \in Rules /\ Rule \notin eval.rules
            BY <2>0, <3>1 DEF TurnOK, Rule
        <3>3. x \in Row /\ x.rule = Rule
            BY <1>0, <2>0, <2>rules, <3>1, <3>2 DEF TurnOK, Row, Rank
        <3> HIDE DEF x
        <3>4. /\ alarms' \in Seq(Row) /\ Len(alarms') = n
              /\ \A a \in AlarmIds : alarms'[a] = alarms[a]
              /\ alarms'[n] = x
            BY <2>t, <2>rows, <3>1, <3>3, AppendProperties
        <3>5. AlarmIds' = AlarmIds \cup {n} /\ n \in Nat \ {0}
            <4>1. AlarmIds' = 1..n
                BY <3>4, LenProperties DEF AlarmIds
            <4>. QED BY <2>rows, <4>1
        <3> HIDE DEF n
        <3>6. Suppression \subseteq Suppression' /\ suppressions' \in Seq(Suppression')
            <4>1. Suppression \subseteq Suppression'
                BY <3>1, <3>5 DEF Suppression
            <4>. QED BY <2>t, <3>1, <4>1, SeqMonotonic
        <3>7. Rows
            BY <3>1, <3>4, <3>5, <3>6 DEF Rows
        <3>8. \A r \in eval.rules : StaysQuiet(r)
            <4>1. \A r \in eval.rules : OpenOf(r)' = OpenOf(r)
                BY <3>2, <3>3, <3>4, <3>5 DEF OpenOf
            <4>2. \A r \in eval.rules : Spared(r)' = Spared(r)
                BY <3>1 DEF Spared, ActiveOf
            <4>. QED BY <4>1, <4>2 DEF StaysQuiet
        <3>9. eval' \in Eval' /\ TurnOK' /\ ReadsOK'
            BY <2>rules, <2>notify, <3>1, <3>5, <3>7, <3>8 DEF Working, Event
        <3>10. cooling' \subseteq (AlarmIds \X Event \X Rank)'
            BY <2>t, <2>sets, <3>1, <3>7
        <3>. QED BY <2>t, <2>all, <2>asked, <3>1, <3>7, <3>9, <3>10
    <2>8. CASE Check
        <3>1. /\ eval.pc = "check"
              /\ Goto("escalate") \/ Resume
              /\ UNCHANGED <<alarms, suppressions, reading, enabled, requests, cooling, budget>>
            BY <2>8 DEF Check, At
        <3>2. eval' \in Eval' /\ TurnOK' /\ ReadsOK'
            <4>1. CASE Goto("escalate")
                BY <2>goto, <3>1, <4>1
            <4>2. CASE Resume
                BY <2>rules, <2>resume, <2>same, <3>1, <4>2 DEF Working
            <4>. QED BY <3>1, <4>1, <4>2
        <3>. QED BY <2>t, <2>all, <2>asked, <2>same, <3>1, <3>2
    \* A row that a step of the evaluation marks.
    <2>mark. ASSUME NEW a \in AlarmIds, NEW x \in Row, x.rule = alarms[a].rule, x.open = alarms[a].open,
                    alarms' = [alarms EXCEPT ![a] = x], UNCHANGED suppressions
             PROVE  Rows /\ AlarmIds' = AlarmIds /\ \A r \in Rules : StaysQuiet(r)
        <3>1. alarms' \in [AlarmIds -> Row]
            BY <2>row, <2>mark
        <3>2. \A b \in AlarmIds : alarms'[b] = IF b = a THEN x ELSE alarms[b]
            BY <2>row, <2>mark
        <3>. QED BY <2>fewer, <2>mark, <3>1, <3>2
    <2>9. CASE Escalate
        <3> DEFINE x == [alarms[eval.alarm] EXCEPT !.rank = eval.level]
        <3>1. /\ eval.pc = "escalate"
              /\ UNCHANGED <<suppressions, reading, enabled, requests, cooling, budget>>
              /\ Resume \/ \E e \in Event : Notify(e, eval.alarm, eval.level)
            BY <2>9 DEF Escalate, At, Event
        <3>2. eval.alarm \in AlarmIds /\ eval.alarm # 0 /\ eval.level \in Rank \ {0}
            BY <2>0, <2>rules, <3>1 DEF TurnOK
        <3>3. x \in Row /\ x.rule = alarms[eval.alarm].rule /\ x.open = alarms[eval.alarm].open
            BY <2>rows, <3>2 DEF Row
        <3>4. alarms' = [alarms EXCEPT ![eval.alarm] = x]
            BY <2>9, <2>row, <3>2 DEF Escalate
        <3> HIDE DEF x
        <3>5. Rows /\ AlarmIds' = AlarmIds /\ \A r \in Rules : StaysQuiet(r)
            BY <2>mark, <3>1, <3>2, <3>3, <3>4
        <3>6. eval' \in Eval' /\ TurnOK' /\ ReadsOK'
            BY <2>rules, <2>resume, <2>notify, <3>1, <3>2, <3>5 DEF Working
        <3>. QED BY <2>t, <2>all, <2>asked, <3>1, <3>5, <3>6
    <2>key. eval.pc \in {"publish", "mark"} => Key \in AlarmIds \X Event \X Rank
        BY <2>0, <2>t DEF TurnOK, Key, Eval
    <2>10. CASE Publish
        <3>1. /\ eval.pc = "publish"
              /\ Goto("mark") \/ Resume
              /\ UNCHANGED <<alarms, suppressions, reading, enabled, requests>>
            BY <2>10 DEF Publish, At
        <3>2. eval' \in Eval' /\ TurnOK' /\ ReadsOK'
            <4>1. CASE Goto("mark")
                BY <2>goto, <3>1, <4>1
            <4>2. CASE Resume
                BY <2>rules, <2>resume, <2>same, <3>1, <4>2 DEF Working
            <4>. QED BY <3>1, <4>1, <4>2
        <3>3. cooling' \subseteq AlarmIds \X Event \X Rank /\ budget' \in Budget
            <4>1. /\ UNCHANGED cooling \/ cooling' = cooling \cup {Key}
                  /\ UNCHANGED budget \/ Fault
                BY <2>10 DEF Publish
            <4>2. Key \in AlarmIds \X Event \X Rank
                BY <2>key, <3>1
            <4>. QED BY <2>t, <2>fault, <4>1, <4>2
        <3>. QED BY <2>t, <2>all, <2>asked, <2>same, <3>1, <3>2, <3>3
    <2>11. CASE Mark
        <3>1. /\ eval.pc = "mark" /\ Resume
              /\ UNCHANGED <<suppressions, reading, enabled, requests>>
              /\ cooling' \in {cooling, cooling \ {Key}} /\ (UNCHANGED budget \/ Fault)
            BY <2>11 DEF Mark, At
        <3>2. eval.alarm \in AlarmIds /\ eval.alarm # 0 /\ eval.level \in Rank
            BY <2>0, <2>rules, <3>1 DEF TurnOK
        <3> DEFINE x == [alarms[eval.alarm] EXCEPT !.notified = eval.level]
        <3>3. x \in Row /\ x.rule = alarms[eval.alarm].rule /\ x.open = alarms[eval.alarm].open
            BY <2>rows, <3>2 DEF Row
        <3>4. alarms' = alarms \/ alarms' = [alarms EXCEPT ![eval.alarm] = x]
            BY <2>11, <2>row, <3>2 DEF Mark
        <3> HIDE DEF x
        <3>5. Rows /\ AlarmIds' = AlarmIds /\ \A r \in Rules : StaysQuiet(r)
            BY <2>mark, <2>same, <3>1, <3>2, <3>3, <3>4
        <3>6. eval' \in Eval' /\ TurnOK' /\ ReadsOK'
            BY <2>rules, <2>resume, <3>1, <3>5 DEF Working
        <3>7. cooling' \subseteq AlarmIds \X Event \X Rank /\ budget' \in Budget
            BY <2>t, <2>fault, <3>1
        <3>. QED BY <2>t, <2>all, <2>asked, <3>1, <3>5, <3>6, <3>7
    <2>req. \A o \in Operators : requests[o] \in Requested /\ RequestOK(requests[o])
        BY <2>0, <2>t DEF RequestsOK
    <2>free. IdleRequest \in Requested /\ RequestIsOK(IdleRequest)
        BY DEF IdleRequest, Requested, RequestIsOK, RequestPc, Mode
    \* A step of a user that changes no row.
    <2>only. ASSUME UNCHANGED <<alarms, suppressions, eval, cooling>>,
                    reading' \in [Rules -> Reading], enabled' \in [Rules -> BOOLEAN],
                    UNCHANGED budget \/ Edit,
                    \/ UNCHANGED requests
                    \/ \E o \in Operators, v \in Requested : Ask(o, v) /\ RequestIsOK(v)
             PROVE  AlarmInv'
        <3>1. Rows /\ AlarmIds' = AlarmIds /\ Requested' = Requested
              /\ \A r \in Rules : StaysQuiet(r)
            BY <2>only, <2>same
        <3>2. (\A o \in Operators : requests'[o] \in Requested') /\ RequestsOK'
            BY <2>only, <2>asked, <2>ask, <3>1
        <3>3. budget' \in Budget /\ cooling' \subseteq (AlarmIds \X Event \X Rank)'
            BY <2>t, <2>only, <2>fault, <3>1
        <3>. QED BY <2>only, <2>all, <2>still, <3>1, <3>2, <3>3
    <2>12. ASSUME NEW o \in Operators, Suppress(o) PROVE AlarmInv'
        <3>1. PICK a \in AlarmIds, m \in Mode :
                Ask(o, [IdleRequest EXCEPT !.pc = "conflict", !.rule = {alarms[a].rule}, !.mode = m])
            BY <2>12 DEF Suppress
        <3> DEFINE v == [IdleRequest EXCEPT !.pc = "conflict", !.rule = {alarms[a].rule}, !.mode = m]
        <3>2. v \in Requested /\ v.rule = {alarms[a].rule} /\ alarms[a].rule \in Rules
              /\ v.supp = 0 /\ v.rows = {}
            BY <2>rows, <2>free DEF Requested, Row, RequestPc, IdleRequest
        <3> HIDE DEF v
        <3>3. RequestIsOK(v)
            BY <3>2 DEF RequestIsOK
        <3>. QED BY <2>12, <2>t, <2>only, <3>1, <3>2, <3>3 DEF Suppress, v
    <2>13. ASSUME NEW o \in Operators, SuppressConflict(o) PROVE AlarmInv'
        <3>1. /\ requests[o].pc = "conflict"
              /\ UNCHANGED <<alarms, suppressions, reading, enabled, eval, cooling, budget>>
            BY <2>13 DEF SuppressConflict, InRequest
        <3> DEFINE v == [requests[o] EXCEPT !.pc = "create"]
        <3>2. v \in Requested /\ v.rule = requests[o].rule /\ v.supp = requests[o].supp
              /\ v.rows = requests[o].rows
            BY <2>req DEF Requested, RequestPc
        <3> HIDE DEF v
        <3>3. RequestIsOK(v)
            BY <2>req, <3>1, <3>2 DEF RequestOK, RequestIsOK
        <3>4. Ask(o, IdleRequest) \/ Ask(o, v)
            BY <2>13 DEF SuppressConflict, v
        <3>. QED BY <2>t, <2>only, <2>free, <3>1, <3>2, <3>3, <3>4
    <2>rule. ASSUME NEW o \in Operators, requests[o].pc \in {"conflict", "create", "find", "close"}
             PROVE  /\ Asked(o) \in Rules /\ requests[o].rule = {Asked(o)}
                    /\ requests[o].supp # 0 => suppressions[requests[o].supp].rule = Asked(o)
                    /\ \A a \in requests[o].rows : alarms[a].rule = Asked(o)
        BY <2>req, <2>rule DEF RequestOK, Asked
    <2>14. ASSUME NEW o \in Operators, SuppressCreate(o) PROVE AlarmInv'
        <3> DEFINE n == Len(suppressions) + 1
                   x == [rule |-> Asked(o), mode |-> requests[o].mode, active |-> TRUE,
                         closed |-> {}]
                   v == [requests[o] EXCEPT !.pc = "find", !.supp = n]
        <3>1. /\ requests[o].pc = "create" /\ suppressions' = Append(suppressions, x) /\ Ask(o, v)
              /\ UNCHANGED <<alarms, reading, enabled, eval, cooling, budget>>
            BY <2>14 DEF SuppressCreate, InRequest
        <3>2. x \in Suppression /\ x.rule = Asked(o) /\ x.closed = {}
            BY <2>req, <2>rule, <3>1 DEF Suppression, Requested
        <3> HIDE DEF x
        <3>3. /\ suppressions' \in Seq(Suppression) /\ Len(suppressions') = n
              /\ \A s \in DOMAIN suppressions : suppressions'[s] = suppressions[s]
              /\ suppressions'[n] = x
            BY <2>t, <2>rows, <3>1, <3>2, AppendProperties
        <3>4. DOMAIN suppressions' = DOMAIN suppressions \cup {n} /\ n \in Nat \ {0}
            <4>1. DOMAIN suppressions' = 1..n
                BY <3>3, LenProperties
            <4>. QED BY <2>rows, <4>1
        <3> HIDE DEF n
        <3>5. AlarmIds' = AlarmIds /\ Suppression' = Suppression
            BY <3>1 DEF AlarmIds, Suppression
        <3>6. Rows
            BY <2>t, <3>1, <3>3, <3>4, <3>5 DEF Rows
        <3>7. \A r \in Rules : StaysQuiet(r)
            <4>1. \A r \in Rules : OpenOf(r)' = OpenOf(r)
                BY <3>1, <3>5 DEF OpenOf
            <4>2. \A r \in Rules : ActiveOf(r)' \subseteq ActiveOf(r) \cup {n}
                BY <3>3, <3>4 DEF ActiveOf
            <4>3. \A r \in Rules : Spared(r) => Spared(r)'
                BY <3>2, <3>3, <4>2 DEF Spared, ActiveOf
            <4>. QED BY <4>1, <4>3 DEF StaysQuiet
        <3>8. requests[o] \in Requested'
            BY <2>req, <2>sets, <3>6
        <3>9. v \in Requested' /\ v.rule = requests[o].rule /\ v.supp = n /\ v.rows = requests[o].rows
            BY <3>4, <3>8 DEF Requested, RequestPc
        <3> HIDE DEF v
        <3>10. RequestIsOK(v)
            BY <2>rule, <3>1, <3>2, <3>3, <3>9 DEF RequestIsOK
        <3>11. (\A q \in Operators : requests'[q] \in Requested') /\ RequestsOK'
            BY <2>ask, <3>1, <3>6, <3>9, <3>10
        <3>12. cooling' \subseteq (AlarmIds \X Event \X Rank)'
            BY <2>t, <3>1, <3>5
        <3>. QED BY <2>t, <2>all, <2>still, <3>1, <3>6, <3>7, <3>11, <3>12
    <2>15. ASSUME NEW o \in Operators, CloseFind(o) PROVE AlarmInv'
        <3> DEFINE v == [requests[o] EXCEPT !.pc = "close", !.rows = OpenOf(Asked(o))]
        <3>1. /\ requests[o].pc = "find"
              /\ Ask(o, IdleRequest) \/ Ask(o, v)
              /\ UNCHANGED <<alarms, suppressions, reading, enabled, eval, cooling, budget>>
            BY <2>15 DEF CloseFind, InRequest
        <3>2. v \in Requested /\ v.rule = requests[o].rule /\ v.supp = requests[o].supp
              /\ v.rows = OpenOf(Asked(o))
            BY <2>req DEF Requested, RequestPc, OpenOf
        <3> HIDE DEF v
        <3>3. RequestIsOK(v)
            BY <2>rule, <3>1, <3>2 DEF RequestIsOK, OpenOf
        <3>. QED BY <2>t, <2>only, <2>free, <3>1, <3>2, <3>3
    <2>16. ASSUME NEW o \in Operators, Close(o) PROVE AlarmInv'
        <3> DEFINE v == requests[o]
                   row(a) == [alarms[a] EXCEPT !.open = @ /\ a \notin v.rows]
                   x(s) == IF s # v.supp THEN suppressions[s]
                           ELSE [suppressions[s] EXCEPT !.closed =
                                    @ \cup {a \in v.rows : alarms[a].open}]
        <3>1. /\ v.pc = "close" /\ Ask(o, IdleRequest)
              /\ UNCHANGED <<reading, enabled, eval, cooling>>
              /\ \/ /\ alarms' = [a \in AlarmIds |-> row(a)]
                    /\ suppressions' = [s \in DOMAIN suppressions |-> x(s)]
                    /\ UNCHANGED budget
                 \/ Fault /\ UNCHANGED <<alarms, suppressions>>
            BY <2>16 DEF Close, InRequest
        <3>2. /\ v.rows \subseteq AlarmIds
              /\ v.supp # 0 => suppressions[v.supp].rule = Asked(o)
              /\ \A a \in v.rows : alarms[a].rule = Asked(o)
            BY <2>req, <2>rule, <3>1 DEF Requested
        <3>3. Rows /\ AlarmIds' = AlarmIds /\ \A r \in Rules : StaysQuiet(r)
            <4>1. CASE UNCHANGED <<alarms, suppressions>>
                BY <2>same, <4>1
            <4>2. CASE /\ alarms' = [a \in AlarmIds |-> row(a)]
                       /\ suppressions' = [s \in DOMAIN suppressions |-> x(s)]
                <5>1. \A a \in AlarmIds : /\ row(a) \in Row /\ row(a).rule = alarms[a].rule
                                          /\ row(a).open => alarms[a].open
                    BY <2>rows DEF Row
                <5>2. \A s \in DOMAIN suppressions :
                        /\ x(s) \in Suppression /\ x(s).rule = suppressions[s].rule
                        /\ x(s).active = suppressions[s].active
                        /\ \/ x(s).closed = suppressions[s].closed
                           \/ /\ s = v.supp
                              /\ x(s).closed = suppressions[s].closed
                                                \cup {a \in v.rows : alarms[a].open}
                    BY <2>rows, <3>2 DEF Suppression
                <5> HIDE DEF row, x, v
                <5>3. alarms' \in Seq(Row) /\ AlarmIds' = AlarmIds
                      /\ \A a \in AlarmIds : alarms'[a] = row(a)
                    <6>1. alarms' \in [1..Len(alarms) -> Row]
                        BY <2>rows, <4>2, <5>1
                    <6>2. AlarmIds' = AlarmIds /\ \A a \in AlarmIds : alarms'[a] = row(a)
                        BY <4>2 DEF AlarmIds
                    <6>. QED BY <2>rows, <6>1, <6>2, SeqDef
                <5>4. /\ suppressions' \in Seq(Suppression)
                      /\ DOMAIN suppressions' = DOMAIN suppressions
                      /\ \A s \in DOMAIN suppressions : suppressions'[s] = x(s)
                    <6>1. suppressions' \in [1..Len(suppressions) -> Suppression]
                        BY <2>rows, <4>2, <5>2
                    <6>. QED BY <2>rows, <4>2, <6>1, SeqDef
                <5>5. Suppression' = Suppression
                    BY <5>3 DEF Suppression
                <5>6. Rows
                    BY <5>1, <5>2, <5>3, <5>4, <5>5 DEF Rows
                <5>7. ASSUME NEW r \in Rules, OpenOf(r) = {}
                      PROVE  OpenOf(r)' = {} /\ (Spared(r) => Spared(r)')
                    <6>1. OpenOf(r)' \subseteq OpenOf(r)
                        BY <5>1, <5>3 DEF OpenOf
                    <6>2. ActiveOf(r)' = ActiveOf(r)
                        BY <5>2, <5>4 DEF ActiveOf
                    <6>3. ASSUME NEW s \in ActiveOf(r), suppressions[s].closed = {}
                          PROVE  suppressions'[s].closed = {}
                        <7>1. s \in DOMAIN suppressions /\ suppressions[s].rule = r /\ s # 0
                            BY <2>rows DEF ActiveOf
                        <7>2. s = v.supp => {a \in v.rows : alarms[a].open} = {}
                            BY <3>2, <5>7, <7>1 DEF OpenOf
                        <7>. QED BY <5>2, <5>4, <6>3, <7>1, <7>2
                    <6>. QED BY <5>7, <6>1, <6>2, <6>3 DEF Spared
                <5>. QED BY <5>3, <5>6, <5>7 DEF StaysQuiet
            <4>. QED BY <3>1, <4>1, <4>2
        <3>4. (\A q \in Operators : requests'[q] \in Requested') /\ RequestsOK'
            BY <2>ask, <2>free, <2>sets, <3>1, <3>3
        <3>5. budget' \in Budget /\ cooling' \subseteq (AlarmIds \X Event \X Rank)'
            BY <2>t, <2>fault, <3>1, <3>3
        <3>. QED BY <2>t, <2>all, <2>still, <3>1, <3>3, <3>4, <3>5
    <2>17. ASSUME NEW o \in Operators, Disable(o) PROVE AlarmInv'
        <3>1. PICK r \in Rules :
                /\ enabled' = [enabled EXCEPT ![r] = FALSE]
                /\ Ask(o, [IdleRequest EXCEPT !.pc = "find", !.rule = {r}])
            BY <2>17 DEF Disable
        <3> DEFINE v == [IdleRequest EXCEPT !.pc = "find", !.rule = {r}]
        <3>2. v \in Requested /\ v.rule = {r} /\ v.supp = 0 /\ v.rows = {}
            BY <2>free DEF Requested, RequestPc, IdleRequest
        <3> HIDE DEF v
        <3>3. RequestIsOK(v)
            BY <3>2 DEF RequestIsOK
        <3>. QED BY <2>17, <2>t, <2>only, <3>1, <3>2, <3>3 DEF Disable, v
    <2>18. ASSUME NEW r \in Rules, Enable(r) \/ NewReading(r) PROVE AlarmInv'
        <3>1. reading' \in [Rules -> Reading] /\ enabled' \in [Rules -> BOOLEAN]
            BY <2>t, <2>18 DEF Enable, NewReading
        <3>. QED BY <2>18, <2>only, <3>1 DEF Enable, NewReading
    <2>19. ASSUME NEW s \in DOMAIN suppressions, Release(s) \/ Expire(s) PROVE AlarmInv'
        <3>1. /\ suppressions' = [suppressions EXCEPT ![s].active = FALSE]
              /\ UNCHANGED <<alarms, reading, enabled, eval, requests, cooling>>
              /\ UNCHANGED budget \/ Edit
            BY <2>19 DEF Release, Expire
        <3>2. Rows /\ AlarmIds' = AlarmIds /\ \A r \in Rules : StaysQuiet(r)
            BY <2>lift, <3>1
        <3>3. budget' \in Budget /\ cooling' \subseteq (AlarmIds \X Event \X Rank)'
            BY <2>t, <2>fault, <3>1, <3>2
        <3>. QED BY <2>t, <2>all, <2>still, <2>asked, <3>1, <3>2, <3>3
    <2>20. CASE CooldownEnds
        BY <2>20, <2>t, <2>all, <2>same, <2>still, <2>asked DEF CooldownEnds
    <2>21. CASE Restart
        <3>1. /\ requests' = [o \in Operators |-> IdleRequest] /\ eval' = IdleEval /\ cooling' = {}
              /\ Edit /\ UNCHANGED <<alarms, suppressions, reading, enabled>>
            BY <2>21 DEF Restart
        <3>2. (\A o \in Operators : requests'[o] \in Requested') /\ RequestsOK'
            BY <2>free, <2>same, <3>1 DEF RequestsOK, IdleRequest, RequestOK
        <3>. QED BY <2>t, <2>all, <2>same, <2>idle, <2>fault, <3>1, <3>2
    <2>. QED BY <1>2, <2>1, <2>2, <2>3, <2>4, <2>5, <2>6, <2>7, <2>8, <2>9, <2>10, <2>11, <2>12,
                <2>13, <2>14, <2>15, <2>16, <2>17, <2>18, <2>19, <2>20, <2>21 DEF Next, Work, Request
<1>3. AlarmInv /\ UNCHANGED vars => AlarmInv'
    <2>1. TypeOK /\ UNCHANGED vars => TypeOK'
        BY DEF TypeOK, vars, AlarmIds
    <2>2. TurnOK /\ RequestsOK /\ ReadsOK /\ UNCHANGED vars => TurnOK' /\ RequestsOK' /\ ReadsOK'
        BY DEF TurnOK, RequestsOK, RequestOK, ReadsOK, vars, AlarmIds, OpenOf, Spared, ActiveOf
    <2>. QED BY <2>1, <2>2 DEF AlarmInv
<1>. QED BY <1>1, <1>2, <1>3, PTL DEF Spec

-----------------------------------------------------------------------------
(* Theorems                                                                  *)

\* Rows, readings and requests keep their types: an evaluation and a request
\* name rows that exist, and nothing is opened or escalated to no severity.
THEOREM AlarmTypesHold == Spec => []TypeOK
BY AlarmsHold, PTL DEF AlarmInv

\* An evaluation does not open what a suppression in force has closed.
THEOREM SuppressedStaysClosed == Spec => []ClosedStaysClosed
<1>1. AlarmInv => ClosedStaysClosed
    <2> SUFFICES ASSUME AlarmInv, eval.pc \in {"find", "create"}
                 PROVE  \A s \in ActiveOf(Rule) : suppressions[s].closed = {}
        BY DEF ClosedStaysClosed
    <2>1. Rule \in eval.at
        BY DEF AlarmInv, TurnOK, Rule
    <2>. QED BY <2>1 DEF AlarmInv, ReadsOK, Spared
<1>. QED BY <1>1, AlarmsHold, PTL
=============================================================================
