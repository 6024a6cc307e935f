------------------------- MODULE MitigationAutoProofs -------------------------
(* Proofs about MitigationAuto, for every value of its constants.            *)
EXTENDS MitigationAuto, FiniteSetTheorems, TLAPS

-----------------------------------------------------------------------------
(* Type correctness                                                         *)

Tick == [pc : TickPc, todo : SUBSET Profiles, at : Profiles \cup {NULL},
         value : SampleId, level : Level, stamp : SampleId, verified : BOOLEAN]

\* Where the tick waits decides whether it has a target and counters.
TickOK(t, known) ==
    /\ t \in Tick
    /\ t.at = NULL <=> t.pc \in {"idle", "next"}
    /\ t.pc \in {"save", "write", "answer"} => known[t.at] # NULL

Budget == [edits : 0..MaxEdits, faults : 0..MaxFaults, restarts : 0..MaxRestarts]

\* The type of all but the tick.
RestOK ==
    /\ sample \in [Profiles -> [id : SampleId, level : Level, old : BOOLEAN]]
    /\ mode \in [Profiles -> Mode]
    /\ marked \in [Profiles -> BOOLEAN]
    /\ row \in [Profiles -> Row]
    /\ device \in [Profiles -> BOOLEAN]
    /\ counters \in [Profiles -> Counters \cup {NULL}]
    /\ inFlight \subseteq Profiles
    /\ processed \subseteq Profiles \X SampleId
    /\ listed \in [Profiles -> [mode : Mode, state : State]]
    /\ adopted \in [Profiles -> BOOLEAN]
    /\ spent \in [Profiles -> Served]
    /\ budget \in Budget

\* The bounds are naturals, and what is left of them keeps its type.
LEMMA BoundsType ==
    /\ MaxSamples \in Nat /\ MaxEdits \in Nat /\ MaxFaults \in Nat /\ MaxRestarts \in Nat
    /\ 0 \in SampleId /\ NULL \notin Profiles
    /\ budget \in Budget /\ (Fault \/ NoFault \/ Edit \/ Restart) => budget' \in Budget
<1>1. MaxSamples \in Nat /\ MaxEdits \in Nat /\ MaxFaults \in Nat /\ MaxRestarts \in Nat
    BY AutoAssumption
<1>2. NULL \notin Profiles
    BY AutoAssumption
<1>3. ASSUME budget \in Budget, Fault \/ NoFault \/ Edit \/ Restart
      PROVE  budget' \in Budget
    <2>1. /\ budget.edits \in 0..MaxEdits /\ budget.faults \in 0..MaxFaults
          /\ budget.restarts \in 0..MaxRestarts
        BY <1>3 DEF Budget
    <2>2. ASSUME NEW x \in {MaxEdits, MaxFaults, MaxRestarts}, NEW i \in 0..x, i > 0
          PROVE  i - 1 \in 0..x
        BY <1>1, <2>2
    <2>. QED BY <1>3, <2>1, <2>2 DEF Budget, Fault, NoFault, Edit, Restart
<1>. QED BY <1>1, <1>2, <1>3 DEF SampleId

\* The tick idle, after an evaluation, and going on with one.
LEMMA TickFrames ==
    ASSUME tick \in Tick, NEW known
    PROVE  /\ Idle \in Tick /\ TickOK(Idle, known)
           /\ Done => TickOK(tick', known) /\ tick'.pc = "next" /\ tick'.at = NULL
<1>1. Idle \in Tick /\ Idle.at = NULL /\ Idle.pc = "idle"
    BY BoundsType DEF Idle, Tick, TickPc, Level
<1>2. ASSUME Done
      PROVE  tick' \in Tick /\ tick'.at = NULL /\ tick'.pc = "next"
    <2>1. tick.todo \in SUBSET Profiles
        BY DEF Tick
    <2>2. "next" \in TickPc
        BY DEF TickPc
    <2> HIDE DEF Idle
    <2>. QED BY <1>1, <1>2, <2>1, <2>2 DEF Done, Tick
<1>. QED BY <1>1, <1>2 DEF TickOK

\* What is counted are counters, in memory or in the row.
LEMMA CountedType ==
    ASSUME RestOK, tick \in Tick, NEW p \in Profiles
    PROVE  /\ Loaded(p) \in Counters
           /\ Counted(Loaded(p), p) \in Counters
           /\ Counted(Loaded(p), p) # NULL
<1>1. Loaded(p) \in Counters
    <2>1. row[p] \in Row /\ counters[p] \in Counters \cup {NULL}
        BY DEF RestOK
    <2>. QED BY <2>1 DEF Loaded, Row, Counters
<1> DEFINE c == Loaded(p)
<1>2. /\ tick.stamp \in SampleId /\ tick.value \in SampleId /\ tick.level \in Level
      /\ c.over \in Nat /\ c.last \in SampleId /\ c.start \in SampleId \cup {NULL}
      /\ c.fed \in SUBSET SampleId
    BY <1>1 DEF Tick, Counters
<1>3. c.over + 1 \in Nat /\ 0 \in Nat /\ c.fed \cup {tick.value} \in SUBSET SampleId
    BY <1>2
<1> HIDE DEF c
<1>4. Counted(c, p) \in Counters
    BY <1>1, <1>2, <1>3 DEF Counted, Counters, Level, c
<1>. QED BY <1>1, <1>4, CountersAssumption DEF c

\* Every variable keeps its type, an evaluation has a target, and from the save
\* to the answer the counters it works on are there.
THEOREM AutoTypes == Spec => []TypeOK
\* A step of the tick, or a restart, keeps the types.
<1>TickType. ASSUME RestOK, TickOK(tick, counters), TickStep \/ Restart
      PROVE  RestOK' /\ TickOK(tick', counters')
    <2> USE <1>TickType
    <2>1. tick \in Tick
        BY DEF TickOK
    <2>2. tick.at # NULL => tick.at \in Profiles
        BY <2>1 DEF Tick
    <2> DEFINE p == tick.at
    <2>3. CASE List
        <3>1. listed' \in [Profiles -> [mode : Mode, state : State]]
            BY <2>3 DEF List, RestOK, Row
        <3>2. UNCHANGED <<sample, mode, marked, row, device, counters, inFlight, processed,
                          history, budget>>
            BY <2>3 DEF List
        <3>3. tick' \in Tick /\ tick'.at = NULL /\ tick'.pc = "next"
            <4>1. tick' = [Idle EXCEPT !.pc = "next", !.todo = Profiles]
                BY <2>3 DEF List
            <4>2. Idle \in Tick /\ Idle.at = NULL
                BY <2>1, TickFrames DEF Idle
            <4> HIDE DEF Idle
            <4>. QED BY <4>1, <4>2 DEF Tick, TickPc
        <3>. QED BY <3>1, <3>2, <3>3 DEF RestOK, TickOK, history
    <2>4. CASE NextTarget
        <3>1. tick.pc = "next" /\ tick.at = NULL
            BY <2>4 DEF NextTarget, At, TickOK
        <3>2. listed' \in [Profiles -> [mode : Mode, state : State]]
            <4>1. listed' = listed \/ listed' = Unlisted
                BY <2>4 DEF NextTarget
            <4>2. Unlisted \in [Profiles -> [mode : Mode, state : State]]
                BY DEF Unlisted, Mode, State
            <4>. QED BY <4>1, <4>2 DEF RestOK
        <3>3. UNCHANGED <<sample, mode, marked, row, device, counters, inFlight, processed,
                          history, budget>>
            BY <2>4 DEF NextTarget
        <3>4. RestOK'
            BY <3>2, <3>3 DEF RestOK, history
        <3>5. CASE tick' = Idle
            BY <2>1, <3>4, <3>5, TickFrames
        <3>6. CASE tick' # Idle
            <4>1. PICK q \in tick.todo :
                    \/ tick' = [tick EXCEPT !.todo = @ \ {q}]
                    \/ tick' = [tick EXCEPT !.todo = @ \ {q}, !.pc = "peers", !.at = q]
                BY <2>4, <3>6 DEF NextTarget
            <4>2. q \in Profiles /\ q # NULL
                BY <2>1, <4>1, BoundsType DEF Tick
            <4>3. /\ tick' \in Tick
                  /\ \/ tick'.pc = "next" /\ tick'.at = NULL
                     \/ tick'.pc = "peers" /\ tick'.at = q
                BY <2>1, <3>1, <4>1, <4>2 DEF Tick, TickPc
            <4>. QED BY <3>4, <4>2, <4>3 DEF TickOK
        <3>. QED BY <3>5, <3>6
    <2>5. CASE ReadPeers \/ ReadValue \/ ReadStamp
        <3>1. UNCHANGED <<sample, mode, marked, row, device, counters, inFlight, processed,
                          listed, history>>
            BY <2>5 DEF ReadPeers, ReadValue, ReadStamp
        <3>2. budget' \in Budget
            BY <2>5, BoundsType DEF ReadPeers, ReadValue, ReadStamp, RestOK
        <3>3. RestOK'
            BY <3>1, <3>2 DEF RestOK, history
        <3>4. tick.pc \in {"peers", "value", "stamp"} /\ p \in Profiles
            BY <2>2, <2>5 DEF ReadPeers, ReadValue, ReadStamp, At, TickOK
        <3>5. sample[p].id \in SampleId /\ sample[p].level \in Level
            BY <3>4 DEF RestOK
        <3>6. \/ Done
              \/ \E pc \in {"value", "stamp", "count"}, i \in SampleId, l \in Level :
                    \/ tick' = [tick EXCEPT !.pc = pc]
                    \/ tick' = [tick EXCEPT !.pc = pc, !.value = i, !.level = l]
                    \/ tick' = [tick EXCEPT !.pc = pc, !.stamp = i]
            BY <2>5, <3>5 DEF ReadPeers, ReadValue, ReadStamp, Goto
        <3>7. \/ Done
              \/ /\ tick' \in Tick /\ tick'.pc \in {"value", "stamp", "count"}
                 /\ tick'.at = tick.at
            BY <2>1, <3>6 DEF Tick, TickPc
        <3>. QED BY <2>1, <3>1, <3>3, <3>4, <3>7, TickFrames DEF TickOK
    <2>6. CASE Count
        <3>1. p \in Profiles /\ p # NULL
            BY <2>2, <2>6 DEF Count, At, TickOK
        <3>2. UNCHANGED <<sample, mode, marked, row, device, inFlight, processed, listed>>
            BY <2>6 DEF Count
        <3> DEFINE c == Counted(Loaded(p), p)
        <3>3. \/ /\ counters' = [counters EXCEPT ![p] = c]
                 /\ \E e \in BOOLEAN : adopted' = [adopted EXCEPT ![p] = e]
                 /\ spent' \in {spent, [spent EXCEPT ![p] = "no"]}
                 /\ tick' = [tick EXCEPT !.pc = "save", !.value = 0]
                 /\ NoFault
              \/ Done /\ Fault /\ UNCHANGED <<counters, history>>
            <4> DEFINE new == tick.level = "between" /\ tick.stamp > Loaded(p).last
                       e == ~new /\ IF counters[p] = NULL THEN row[p].over > 0 ELSE adopted[p]
            <4>1. e \in BOOLEAN
                BY <3>1 DEF RestOK
            <4>2. \/ /\ counters' = [counters EXCEPT ![p] = c]
                     /\ adopted' = [adopted EXCEPT ![p] = e]
                     /\ spent' = IF new THEN [spent EXCEPT ![p] = "no"] ELSE spent
                     /\ tick' = [tick EXCEPT !.pc = "save", !.value = 0]
                     /\ NoFault
                  \/ Done /\ Fault /\ UNCHANGED <<counters, history>>
                BY <2>6 DEF Count
            <4> HIDE DEF e, new, c
            <4>. QED BY <4>1, <4>2
        <3>4. c \in Counters /\ c # NULL
            BY <2>1, <3>1, CountedType
        <3>5. budget' \in Budget
            BY <3>3, BoundsType DEF RestOK
        <3> HIDE DEF c
        <3>6. CASE Done /\ Fault /\ UNCHANGED <<counters, history>>
            <4>1. RestOK'
                BY <3>2, <3>5, <3>6 DEF RestOK, history
            <4>. QED BY <2>1, <3>6, <4>1, TickFrames
        <3>7. CASE /\ counters' = [counters EXCEPT ![p] = c]
                   /\ \E e \in BOOLEAN : adopted' = [adopted EXCEPT ![p] = e]
                   /\ spent' \in {spent, [spent EXCEPT ![p] = "no"]}
                   /\ tick' = [tick EXCEPT !.pc = "save", !.value = 0]
            <4>1. counters' \in [Profiles -> Counters \cup {NULL}] /\ counters'[p] = c
                BY <3>1, <3>4, <3>7 DEF RestOK
            <4>2. adopted' \in [Profiles -> BOOLEAN] /\ spent' \in [Profiles -> Served]
                BY <3>7 DEF RestOK, Served
            <4>3. RestOK'
                BY <3>2, <3>5, <4>1, <4>2 DEF RestOK
            <4>4. tick' \in Tick /\ tick'.pc = "save" /\ tick'.at = p
                BY <2>1, <3>7, BoundsType DEF Tick, TickPc
            <4>. QED BY <3>1, <3>4, <4>1, <4>3, <4>4 DEF TickOK
        <3>. QED BY <3>3, <3>6, <3>7
    <2>7. CASE Save
        <3>1. p \in Profiles /\ p # NULL /\ tick.pc = "save" /\ counters[p] # NULL
            BY <2>2, <2>7 DEF Save, At, TickOK
        <3>2. counters[p] \in Counters /\ row[p] \in Row /\ tick.stamp \in SampleId
            BY <2>1, <3>1 DEF RestOK, Tick
        <3>3. UNCHANGED <<sample, mode, marked, device, counters, processed, listed, history>>
            BY <2>7 DEF Save
        <3>4. budget' \in Budget
            BY <2>7, BoundsType DEF Save, RestOK
        <3>5. inFlight' \subseteq Profiles
            BY <2>7, <3>1 DEF Save, RestOK
        <3>6. row' \in [Profiles -> Row]
            <4>1. PICK st \in State : \/ row' = row
                     \/ row' = [row EXCEPT ![p] = [state |-> st, over |-> counters[p].over,
                                    last |-> tick.stamp, fed |-> counters[p].fed]]
                BY <2>7, <3>2 DEF Save, State, Row
            <4>2. [state |-> st, over |-> counters[p].over, last |-> tick.stamp,
                   fed |-> counters[p].fed] \in Row
                BY <3>2 DEF Row, Counters
            <4>. QED BY <3>1, <4>1, <4>2 DEF RestOK
        <3>7. RestOK'
            BY <3>3, <3>4, <3>5, <3>6 DEF RestOK, history
        <3>8. Done \/ tick' = [tick EXCEPT !.pc = "write", !.level = "between", !.stamp = 0]
            BY <2>7 DEF Save
        <3>9. CASE Done
            BY <2>1, <3>7, <3>9, TickFrames
        <3>10. CASE tick' = [tick EXCEPT !.pc = "write", !.level = "between", !.stamp = 0]
            <4>1. tick' \in Tick /\ tick'.pc = "write" /\ tick'.at = p
                BY <2>1, <3>10, BoundsType DEF Tick, TickPc, Level
            <4>. QED BY <3>1, <3>3, <3>7, <4>1 DEF TickOK
        <3>. QED BY <3>8, <3>9, <3>10
    <2>8. CASE Write
        <3>1. p \in Profiles /\ p # NULL /\ tick.pc = "write" /\ counters[p] # NULL
            BY <2>2, <2>8 DEF Write, At, TickOK
        <3>2. UNCHANGED <<sample, mode, marked, row, counters, processed, listed, history, budget>>
            BY <2>8 DEF Write
        <3>3. device' \in [Profiles -> BOOLEAN] /\ inFlight' \subseteq Profiles
            BY <2>8, <3>1 DEF Write, RestOK
        <3>4. RestOK'
            BY <3>2, <3>3 DEF RestOK, history
        <3>5. \/ Done
              \/ tick' = [tick EXCEPT !.pc = "answer"]
              \/ \E v \in BOOLEAN : tick' = [tick EXCEPT !.pc = "answer", !.verified = v]
            BY <2>8 DEF Write, Goto
        <3>6. Done \/ (tick' \in Tick /\ tick'.pc = "answer" /\ tick'.at = p)
            BY <2>1, <3>5 DEF Tick, TickPc
        <3>. QED BY <2>1, <3>1, <3>2, <3>4, <3>6, TickFrames DEF TickOK
    <2>9. CASE Answer
        <3>1. p \in Profiles /\ p # NULL /\ tick.pc = "answer" /\ counters[p] # NULL
            BY <2>2, <2>9 DEF Answer, At, TickOK
        <3>2. Done /\ UNCHANGED <<sample, mode, marked, device, counters, listed>>
            BY <2>9 DEF Answer
        <3>3. counters[p].start \in SampleId \cup {NULL}
            BY <3>1 DEF RestOK, Counters
        <3>4. processed' \subseteq Profiles \X SampleId
            BY <2>9, <3>1, <3>3 DEF Answer, StartOf, RestOK
        <3>5. row' \in [Profiles -> Row]
            <4>1. row' = row \/ row' = [row EXCEPT ![p].state = "MITIGATED"]
                BY <2>9 DEF Answer
            <4>2. row[p] \in Row
                BY <3>1 DEF RestOK
            <4>3. [row[p] EXCEPT !.state = "MITIGATED"] \in Row
                BY <4>2 DEF Row, State
            <4>. QED BY <3>1, <4>1, <4>3 DEF RestOK
        <3>6. adopted' = adopted /\ spent' \in [Profiles -> Served]
            <4>1. /\ adopted' = adopted
                  /\ \/ spent' = spent
                     \/ \E served \in {"unknown", "known"} : spent' = [spent EXCEPT ![p] = served]
                BY <2>9 DEF Answer
            <4>. QED BY <4>1 DEF RestOK, Served
        <3>7. inFlight' \subseteq Profiles /\ budget' \in Budget
            BY <2>9, BoundsType DEF Answer, RestOK
        <3>8. RestOK'
            BY <3>2, <3>4, <3>5, <3>6, <3>7 DEF RestOK
        <3>. QED BY <2>1, <3>2, <3>8, TickFrames
    <2>10. CASE Restart
        <3>1. budget' \in Budget
            BY <2>10, BoundsType DEF RestOK
        <3>2. listed' \in [Profiles -> [mode : Mode, state : State]]
            BY <2>10 DEF Restart, Unlisted, Mode, State
        <3>3. /\ counters' \in [Profiles -> Counters \cup {NULL}]
              /\ adopted' \in [Profiles -> BOOLEAN] /\ spent' \in [Profiles -> Served]
              /\ inFlight' = {} /\ processed' = {} /\ tick' = Idle
              /\ UNCHANGED <<sample, mode, marked, row, device>>
            BY <2>10 DEF Restart, Served
        <3>4. RestOK'
            BY <3>1, <3>2, <3>3 DEF RestOK
        <3>. QED BY <2>1, <3>3, <3>4, TickFrames
    <2>. QED BY <2>3, <2>4, <2>5, <2>6, <2>7, <2>8, <2>9, <2>10 DEF TickStep
\* So does a step of somebody else, which leaves the engine alone.
<1>OthersType. ASSUME RestOK, TickOK(tick, counters), NEW p \in Profiles,
             Poll(p) \/ Age(p) \/ SetMode(p) \/ MarkPeer(p) \/ OperatorCommand(p)
      PROVE  RestOK' /\ TickOK(tick', counters')
    <2> USE <1>OthersType
    <2>1. UNCHANGED engine
        BY DEF Poll, Age, SetMode, MarkPeer, OperatorCommand, Edit
    <2>2. UNCHANGED <<tick, counters, inFlight, processed, listed, adopted, spent>>
        BY <2>1 DEF engine, history
    <2>3. budget' \in Budget
        BY BoundsType DEF Poll, Age, SetMode, MarkPeer, OperatorCommand, RestOK
    <2>4. sample' \in [Profiles -> [id : SampleId, level : Level, old : BOOLEAN]]
        <3> DEFINE S == [id : SampleId, level : Level, old : BOOLEAN]
        <3>1. sample[p] \in S
            BY DEF RestOK
        <3>2. CASE Poll(p)
            <4>1. PICK l \in Level :
                    sample' = [sample EXCEPT ![p] = [id |-> @.id + 1, level |-> l, old |-> FALSE]]
                BY <3>2 DEF Poll
            <4>2. sample[p].id + 1 \in SampleId
                BY <3>1, <3>2, BoundsType DEF Poll, SampleId
            <4>. QED BY <4>1, <4>2 DEF RestOK
        <3>3. CASE Age(p)
            <4>1. [sample[p] EXCEPT !.old = TRUE] \in S
                BY <3>1
            <4>. QED BY <3>3, <4>1 DEF Age, RestOK
        <3>4. CASE sample' = sample
            BY <3>4 DEF RestOK
        <3>5. Poll(p) \/ Age(p) \/ sample' = sample
            BY DEF SetMode, MarkPeer, OperatorCommand, Edit
        <3>. QED BY <3>2, <3>3, <3>4, <3>5
    <2>5. mode' \in [Profiles -> Mode]
        BY DEF Poll, Age, SetMode, MarkPeer, OperatorCommand, RestOK
    <2>6. marked' \in [Profiles -> BOOLEAN] /\ device' \in [Profiles -> BOOLEAN]
        <3>1. (~marked[p]) \in BOOLEAN
            OBVIOUS
        <3>. QED BY <3>1 DEF Poll, Age, SetMode, MarkPeer, OperatorCommand, RestOK
    <2>7. row' \in [Profiles -> Row]
        <3>1. row' = row \/ \E st \in State : row' = [row EXCEPT ![p].state = st]
            BY DEF Poll, Age, SetMode, MarkPeer, OperatorCommand, State
        <3>2. ASSUME NEW st \in State PROVE [row[p] EXCEPT !.state = st] \in Row
            BY DEF RestOK, Row
        <3>. QED BY <3>1, <3>2 DEF RestOK
    <2>. QED BY <2>2, <2>3, <2>4, <2>5, <2>6, <2>7 DEF RestOK
<1>1. TypeOK <=> RestOK /\ TickOK(tick, counters)
    BY DEF TypeOK, RestOK, TickOK, Tick, Budget
<1>2. Init => TypeOK
    <2> SUFFICES ASSUME Init PROVE RestOK /\ TickOK(tick, counters)
        BY <1>1
    <2>1. Idle \in Tick /\ Idle.at = NULL /\ Idle.pc = "idle"
        BY BoundsType DEF Idle, Tick, TickPc, Level
    <2>2. /\ sample \in [Profiles -> [id : SampleId, level : Level, old : BOOLEAN]]
          /\ mode \in [Profiles -> Mode]
        BY BoundsType DEF Init, Level, Mode
    <2>3. row \in [Profiles -> Row]
        BY BoundsType DEF Init, Row, State
    <2>4. /\ counters \in [Profiles -> Counters \cup {NULL}]
          /\ {marked, device, adopted} \subseteq [Profiles -> BOOLEAN]
          /\ spent \in [Profiles -> Served]
        BY DEF Init, Served
    <2>5. listed \in [Profiles -> [mode : Mode, state : State]]
        BY DEF Init, Unlisted, Mode, State
    <2>6. budget \in Budget
        BY BoundsType DEF Init, Budget
    <2>7. inFlight = {} /\ processed = {}
        BY DEF Init
    <2>8. tick = Idle
        BY DEF Init
    <2>. QED BY <2>1, <2>2, <2>3, <2>4, <2>5, <2>6, <2>7, <2>8 DEF RestOK, TickOK
<1>3. TypeOK /\ [Next]_vars => TypeOK'
    <2> SUFFICES ASSUME RestOK, TickOK(tick, counters), [Next]_vars
                 PROVE  RestOK' /\ TickOK(tick', counters')
        BY <1>1 DEF TypeOK, RestOK, TickOK, Tick, Budget
    <2>1. CASE UNCHANGED vars
        BY <2>1 DEF vars, engine, history, RestOK
    <2>. QED BY <2>1, <1>TickType, <1>OthersType DEF Next
<1>. QED BY <1>2, <1>3, PTL DEF Spec

-----------------------------------------------------------------------------
(* One trigger writes once                                                  *)

\* While a trigger has been answered under its own name, its start is remembered
\* and the command service knows its request id; so the write that begins is not
\* of that trigger. A trigger without a start is of an earlier process.
AnsweredKnown ==
    /\ \A p \in Profiles : spent[p] = "known" =>
            /\ counters[p] # NULL
            /\ counters[p].start # NULL
            /\ <<p, counters[p].start>> \in processed
    /\ \A p \in Profiles : counters[p] # NULL /\ counters[p].over > 0 /\ counters[p].start = NULL =>
            adopted[p]
    /\ tick.pc \in {"write", "answer"} => counters[tick.at].over > 0
    /\ At("write") => spent[tick.at] # "known"

\* After a verified ACTIVATE of a trigger whose beginning the process knows nothing
\* more is written for its target until the traffic was between the thresholds,
\* whatever the row says. Only a trigger adopted from the row of an earlier process
\* has no beginning, and only until the next sample above.
THEOREM OneWrite == Spec => []OneWritePerTrigger
<1>1. Init => AnsweredKnown
    BY DEF Init, AnsweredKnown, At, Idle
<1>2. TypeOK /\ TypeOK' /\ AnsweredKnown /\ [Next]_vars => AnsweredKnown'
    <2> SUFFICES ASSUME TypeOK, TypeOK', AnsweredKnown, [Next]_vars
                 PROVE  AnsweredKnown'
        OBVIOUS
    <2>1. tick \in Tick /\ (tick.at = NULL <=> tick.pc \in {"idle", "next"})
        BY DEF TypeOK, Tick
    <2> DEFINE p == tick.at
    <2>2. CASE UNCHANGED <<counters, processed, history>> /\ tick'.pc \notin {"write", "answer"}
        BY <2>2 DEF AnsweredKnown, At, history
    <2>3. CASE UNCHANGED <<counters, processed, history, tick>>
        BY <2>3 DEF AnsweredKnown, At, history
    <2>4. Done => tick'.pc = "next"
        BY <2>1, TickFrames
    <2>5. ASSUME List \/ NextTarget \/ ReadPeers \/ ReadValue \/ ReadStamp
          PROVE  AnsweredKnown'
        <3>1. UNCHANGED <<counters, processed, history>>
            BY <2>5 DEF List, NextTarget, ReadPeers, ReadValue, ReadStamp
        <3>2. \/ tick' = Idle \/ tick'.pc = "next"
              \/ tick'.pc \in {"peers", "value", "stamp", "count"}
            <4>1. CASE List \/ NextTarget
                BY <2>1, <4>1 DEF List, NextTarget, At, Idle, Tick
            <4>2. CASE ReadPeers \/ ReadValue \/ ReadStamp
                BY <2>1, <2>4, <4>2 DEF ReadPeers, ReadValue, ReadStamp, Goto, Tick
            <4>. QED BY <2>5, <4>1, <4>2
        <3>3. tick'.pc \notin {"write", "answer"}
            BY <3>2 DEF Idle
        <3>. QED BY <2>2, <3>1, <3>3
    <2>6. CASE Count
        <3>1. UNCHANGED processed
            BY <2>6 DEF Count
        <3>2. p \in Profiles
            BY <2>1, <2>6 DEF Count, At, Tick
        <3> DEFINE l == Loaded(p)
                   c == Counted(l, p)
                   new == tick.level = "between" /\ tick.stamp > l.last
                   old == IF counters[p] = NULL THEN row[p].over > 0 ELSE adopted[p]
        <3>3. \/ /\ counters' = [counters EXCEPT ![p] = c]
                 /\ adopted' = [adopted EXCEPT ![p] = ~new /\ old]
                 /\ spent' = IF new THEN [spent EXCEPT ![p] = "no"] ELSE spent
                 /\ tick' = [tick EXCEPT !.pc = "save", !.value = 0]
              \/ Done /\ UNCHANGED <<counters, history>>
            BY <2>6 DEF Count
        <3>4. CASE Done /\ UNCHANGED <<counters, history>>
            BY <2>2, <2>4, <3>1, <3>4
        <3>5. CASE /\ counters' = [counters EXCEPT ![p] = c]
                   /\ adopted' = [adopted EXCEPT ![p] = ~new /\ old]
                   /\ spent' = IF new THEN [spent EXCEPT ![p] = "no"] ELSE spent
                   /\ tick' = [tick EXCEPT !.pc = "save", !.value = 0]
            <4>1. tick'.pc = "save"
                BY <2>1, <3>5 DEF Tick
            <4>2. l \in Counters /\ c # NULL
                BY <2>1, <3>2, CountedType DEF TypeOK, RestOK, Budget
            <4>3. tick.level \in Level /\ tick.stamp \in Nat /\ l.last \in Nat
                BY <2>1, <4>2, BoundsType DEF Tick, Counters, SampleId
            <4>4. ~new => c.start = l.start \/ l.start = NULL
                BY <4>2, <4>3 DEF Counted, Level, Counters
            <4>5. c.over > 0 /\ c.start = NULL => ~new /\ l.over > 0 /\ l.start = NULL
                <5>1. CASE tick.stamp <= l.last
                    BY <4>3, <5>1 DEF Counted
                <5>2. CASE ~(tick.stamp <= l.last) /\ tick.level = "over"
                    <6>1. c.start = IF l.start = NULL THEN tick.stamp ELSE l.start
                        BY <5>2 DEF Counted
                    <6>2. tick.stamp # NULL
                        BY <2>1, BoundsType, AutoAssumption DEF Tick, SampleId
                    <6>. QED BY <6>1, <6>2
                <5>3. CASE ~(tick.stamp <= l.last) /\ tick.level # "over"
                    <6>1. c.over = 0
                        BY <4>2, <4>3, <5>3 DEF Counted, Level, Counters
                    <6>. QED BY <6>1
                <5>. QED BY <5>1, <5>2, <5>3
            <4>6. l.over > 0 /\ l.start = NULL => old
                BY <3>2 DEF Loaded, AnsweredKnown
            <4> HIDE DEF c, new, old
            <4>7. ASSUME NEW q \in Profiles, spent'[q] = "known"
                  PROVE  counters'[q] # NULL /\ counters'[q].start # NULL
                         /\ <<q, counters'[q].start>> \in processed'
                <5>1. spent[q] = "known" /\ (q = p => ~new)
                    BY <3>2, <3>5, <4>7 DEF TypeOK
                <5>2. counters'[q] = IF q = p THEN c ELSE counters[q]
                    BY <3>2, <3>5 DEF TypeOK
                <5>3. counters[q] # NULL /\ counters[q].start # NULL
                      /\ <<q, counters[q].start>> \in processed
                    BY <5>1 DEF AnsweredKnown
                <5>4. q = p => l = counters[p]
                    BY <5>3 DEF Loaded
                <5>. QED BY <3>1, <4>2, <4>4, <5>1, <5>2, <5>3, <5>4
            <4>8. ASSUME NEW q \in Profiles, counters'[q] # NULL, counters'[q].over > 0,
                         counters'[q].start = NULL
                  PROVE  adopted'[q]
                <5>1. counters'[q] = IF q = p THEN c ELSE counters[q]
                    BY <3>2, <3>5 DEF TypeOK
                <5>2. adopted'[q] = IF q = p THEN ~new /\ old ELSE adopted[q]
                    BY <3>2, <3>5 DEF TypeOK
                <5>. QED BY <4>5, <4>6, <4>8, <5>1, <5>2 DEF AnsweredKnown
            <4>. QED BY <4>1, <4>7, <4>8 DEF AnsweredKnown, At
        <3>. QED BY <3>3, <3>4, <3>5
    <2>7. CASE Save
        <3>1. UNCHANGED <<counters, processed, history>>
            BY <2>7 DEF Save
        <3>2. p \in Profiles
            BY <2>1, <2>7 DEF Save, At, Tick
        <3>3. \/ Done
              \/ /\ tick' = [tick EXCEPT !.pc = "write", !.level = "between", !.stamp = 0]
                 /\ <<p, counters[p].start>> \notin processed
                 /\ counters[p].over >= Trigger
            BY <2>7 DEF Save, StartOf, Acts
        <3>4. CASE Done
            BY <2>2, <2>4, <3>1, <3>4
        <3>5. CASE /\ tick' = [tick EXCEPT !.pc = "write", !.level = "between", !.stamp = 0]
                   /\ <<p, counters[p].start>> \notin processed
                   /\ counters[p].over >= Trigger
            <4>1. spent[p] # "known"
                BY <3>2, <3>5 DEF AnsweredKnown
            <4>2. tick'.at = p
                BY <2>1, <3>5 DEF Tick
            <4>3. counters[p].over > 0
                <5>1. counters[p] \in Counters
                    BY <2>1, <2>7, <3>2 DEF Save, At, TypeOK
                <5>2. counters[p].over \in Nat /\ Trigger \in Nat \ {0}
                    BY <5>1, AutoAssumption DEF Counters
                <5>. QED BY <3>5, <5>2
            <4>. QED BY <3>1, <4>1, <4>2, <4>3 DEF AnsweredKnown, At, history
        <3>. QED BY <3>3, <3>4, <3>5
    <2>8. CASE Write
        <3>1. UNCHANGED <<counters, processed, history>>
            BY <2>8 DEF Write
        <3>2. Done \/ (tick'.pc = "answer" /\ tick'.at = p)
            BY <2>1, <2>8 DEF Write, Goto, Tick
        <3>3. tick'.pc # "write" /\ (tick'.pc = "answer" => counters'[tick'.at].over > 0)
            BY <2>4, <2>8, <3>1, <3>2 DEF Write, At, AnsweredKnown
        <3>. QED BY <3>1, <3>3 DEF AnsweredKnown, At, history
    <2>9. CASE Answer
        <3>1. UNCHANGED <<counters, adopted>> /\ tick'.pc = "next"
            BY <2>4, <2>9 DEF Answer
        <3>2. p \in Profiles /\ counters[p] # NULL
            BY <2>1, <2>9 DEF Answer, At, Tick, TypeOK
        <3>3. /\ processed \subseteq processed'
              /\ tick.verified /\ counters[p].start # NULL =>
                    <<p, counters[p].start>> \in processed'
            BY <2>9 DEF Answer, StartOf
        <3> DEFINE served == IF adopted[p] /\ counters[p].start = NULL /\ spent[p] # "known"
                             THEN "unknown" ELSE "known"
        <3>4. spent' = IF tick.verified THEN [spent EXCEPT ![p] = served] ELSE spent
            BY <2>9 DEF Answer
        <3>5. counters[p].start = NULL => served = "unknown"
            <4>1. counters[p].over > 0
                BY <2>9 DEF Answer, At, AnsweredKnown
            <4>. QED BY <3>2, <4>1 DEF AnsweredKnown
        <3> HIDE DEF served
        <3>6. ASSUME NEW q \in Profiles, spent'[q] = "known"
              PROVE  counters'[q] # NULL /\ counters'[q].start # NULL
                     /\ <<q, counters'[q].start>> \in processed'
            <4>1. spent[q] = "known" \/ (q = p /\ tick.verified /\ served = "known")
                BY <3>2, <3>4, <3>6 DEF TypeOK
            <4>. QED BY <3>1, <3>2, <3>3, <3>5, <4>1 DEF AnsweredKnown
        <3>. QED BY <3>1, <3>6 DEF AnsweredKnown, At
    <2>10. CASE Restart
        <3>1. (\A q \in Profiles : spent'[q] = "no" /\ counters'[q] = NULL) /\ tick'.pc = "idle"
            BY <2>10 DEF Restart, Idle
        <3>. QED BY <3>1 DEF AnsweredKnown, At
    <2>11. ASSUME NEW q \in Profiles,
                  Poll(q) \/ Age(q) \/ SetMode(q) \/ MarkPeer(q) \/ OperatorCommand(q)
           PROVE  AnsweredKnown'
        <3>1. UNCHANGED engine
            BY <2>11 DEF Poll, Age, SetMode, MarkPeer, OperatorCommand, Edit
        <3>. QED BY <2>3, <3>1 DEF engine
    <2>12. CASE UNCHANGED vars
        BY <2>3, <2>12 DEF vars, engine
    <2>. QED BY <2>5, <2>6, <2>7, <2>8, <2>9, <2>10, <2>11, <2>12 DEF Next, TickStep
<1>3. AnsweredKnown => OneWritePerTrigger
    BY DEF AnsweredKnown, OneWritePerTrigger
<1>. QED BY <1>1, <1>2, <1>3, AutoTypes, PTL DEF Spec

-----------------------------------------------------------------------------
(* Counters are earned                                                      *)

\* Only the sample under whose timestamp was counted last can be counted again.
Earned(c) ==
    /\ c.fed \subseteq 0..c.last
    /\ IsFiniteSet(c.fed)
    /\ c.over <= 2 * Cardinality(c.fed)
    /\ c.last \in c.fed => c.over < 2 * Cardinality(c.fed)

\* Time only goes forward: row and counters are of samples of the past, and what
\* an evaluation has read is at least as new as what was counted last.
Forward ==
    /\ \A p \in Profiles :
        /\ Earned(row[p]) /\ row[p].last <= sample[p].id
        /\ counters[p] # NULL => Earned(counters[p]) /\ counters[p].last <= sample[p].id
    /\ tick.pc \in {"stamp", "count"} =>
        Loaded(tick.at).last <= tick.value /\ tick.value <= sample[tick.at].id
    /\ tick.pc = "count" => tick.value <= tick.stamp /\ tick.stamp <= sample[tick.at].id
    /\ tick.pc = "save" => tick.stamp = counters[tick.at].last

\* No sample's value is counted more than twice, in memory or in the row.
THEOREM CountsAreEarned == Spec => []EarnedTrigger
<1>1. ASSUME NEW c \in Counters, Earned(c), NEW p, tick \in Tick,
             c.last <= tick.value, tick.value <= tick.stamp
      PROVE  Earned(Counted(c, p)) /\ Counted(c, p).last = tick.stamp
    <2>1. /\ c.over \in Nat /\ c.last \in Nat /\ tick.value \in Nat /\ tick.stamp \in Nat
          /\ tick.level \in Level
        BY <1>1, BoundsType DEF Counters, Tick, SampleId
    <2>2. Cardinality(c.fed) \in Nat
        BY <1>1, FS_CardinalityType DEF Earned
    <2>3. CASE tick.stamp <= c.last
        BY <1>1, <2>1, <2>3 DEF Counted
    <2>4. CASE tick.stamp > c.last /\ tick.level # "over"
        <3>1. /\ Counted(c, p).over = 0 /\ Counted(c, p).fed = {}
              /\ Counted(c, p).last = tick.stamp
            <4>1. ~(tick.stamp <= c.last)
                BY <2>1, <2>4
            <4>2. CASE tick.level = "below"
                BY <1>1, <4>1, <4>2 DEF Counted, Counters
            <4>3. CASE tick.level = "between"
                BY <4>1, <4>3 DEF Counted
            <4>. QED BY <2>1, <2>4, <4>2, <4>3 DEF Level
        <3>. QED BY <3>1, FS_EmptySet DEF Earned
    <2>5. CASE tick.stamp > c.last /\ tick.level = "over"
        <3> DEFINE fed == c.fed \cup {tick.value}
        <3>1. ~(tick.stamp <= c.last)
            BY <2>1, <2>5
        <3>2. /\ Counted(c, p).over = c.over + 1 /\ Counted(c, p).fed = fed
              /\ Counted(c, p).last = tick.stamp
            BY <2>5, <3>1 DEF Counted
        <3>3. /\ IsFiniteSet(fed)
              /\ Cardinality(fed) =
                    IF tick.value \in c.fed THEN Cardinality(c.fed) ELSE Cardinality(c.fed) + 1
            BY <1>1, FS_AddElement DEF Earned
        <3>4. fed \subseteq 0..tick.stamp
            BY <1>1, <2>1, <2>5 DEF Earned
        <3>5. CASE tick.value \in c.fed
            <4>1. tick.value = c.last
                BY <1>1, <2>1, <3>5 DEF Earned
            <4>2. tick.stamp \notin fed
                BY <1>1, <2>1, <2>5, <4>1 DEF Earned
            <4>3. c.over + 1 <= 2 * Cardinality(fed)
                BY <1>1, <2>1, <2>2, <3>3, <3>5, <4>1 DEF Earned
            <4>. QED BY <3>2, <3>3, <3>4, <4>2, <4>3 DEF Earned
        <3>6. CASE tick.value \notin c.fed
            <4>1. c.over + 1 < 2 * Cardinality(fed)
                BY <1>1, <2>1, <2>2, <3>3, <3>6 DEF Earned
            <4>2. Cardinality(fed) \in Nat
                BY <3>3, FS_CardinalityType
            <4> HIDE DEF fed
            <4>. QED BY <2>1, <3>2, <3>3, <3>4, <4>1, <4>2 DEF Earned
        <3>. QED BY <3>5, <3>6
    <2>. QED BY <2>1, <2>3, <2>4, <2>5
<1>2. Init => Forward
    <2>1. ASSUME Init, NEW p \in Profiles
          PROVE  Earned(row[p]) /\ row[p].last <= sample[p].id /\ counters[p] = NULL
        <3>1. /\ row[p].over = 0 /\ row[p].last = 0 /\ row[p].fed = {}
              /\ sample[p].id = 0 /\ counters[p] = NULL
            BY <2>1 DEF Init
        <3>. QED BY <3>1, FS_EmptySet DEF Earned
    <2>2. Init => tick.pc = "idle"
        BY DEF Init, Idle
    <2>. QED BY <2>1, <2>2 DEF Forward
<1>3. TypeOK /\ TypeOK' /\ Forward /\ [Next]_vars => Forward'
    <2> SUFFICES ASSUME TypeOK, TypeOK', Forward, [Next]_vars PROVE Forward'
        OBVIOUS
    <2>1. tick \in Tick /\ tick' \in Tick /\ (tick.at = NULL <=> tick.pc \in {"idle", "next"})
        BY DEF TypeOK, Tick
    <2> DEFINE p == tick.at
    <2>2. tick.pc \notin {"idle", "next"} => p \in Profiles
        BY <2>1 DEF Tick
    <2>3. Done => tick'.pc = "next"
        BY <2>1, TickFrames
    <2>4. \A q \in Profiles : /\ sample[q].id \in Nat /\ row[q].last \in Nat
                              /\ counters[q] # NULL => counters[q].last \in Nat
        <3>1. ASSUME NEW q \in Profiles
              PROVE  /\ sample[q].id \in SampleId /\ row[q] \in Row
                     /\ counters[q] \in Counters \cup {NULL}
            BY DEF TypeOK
        <3>2. SampleId \subseteq Nat
            BY BoundsType DEF SampleId
        <3>. QED BY <3>1, <3>2 DEF Row, Counters
    <2>5. CASE /\ UNCHANGED <<sample, row, counters>>
               /\ tick'.pc \notin {"stamp", "count", "save"}
        BY <2>5 DEF Forward
    <2>6. CASE List \/ NextTarget \/ ReadPeers \/ Write
        <3>1. UNCHANGED <<sample, row, counters>>
            BY <2>6 DEF List, NextTarget, ReadPeers, Write
        <3>2. tick'.pc \notin {"stamp", "count", "save"}
            <4>1. CASE List \/ NextTarget
                <5>1. \/ tick' = Idle \/ tick'.pc = "next"
                      \/ tick'.pc = "peers"
                    BY <2>1, <4>1 DEF List, NextTarget, At, Idle, Tick
                <5>. QED BY <5>1 DEF Idle
            <4>2. CASE ReadPeers \/ Write
                BY <2>1, <2>3, <4>2 DEF ReadPeers, Write, Goto, Tick
            <4>. QED BY <2>6, <4>1, <4>2
        <3>. QED BY <2>5, <3>1, <3>2
    <2>7. CASE ReadValue
        <3>1. UNCHANGED <<sample, row, counters>>
            BY <2>7 DEF ReadValue
        <3>2. CASE Done
            BY <2>3, <2>5, <3>1, <3>2
        <3>3. CASE tick' = [tick EXCEPT !.pc = "stamp", !.value = sample[p].id,
                                        !.level = sample[p].level]
            <4>1. tick'.pc = "stamp" /\ tick'.at = p /\ tick'.value = sample[p].id
                BY <2>1, <3>3 DEF Tick
            <4>2. p \in Profiles
                BY <2>2, <2>7 DEF ReadValue, At
            <4>3. Loaded(p).last <= sample[p].id
                BY <4>2 DEF Loaded, Forward
            <4>4. Loaded(p)' = Loaded(p)
                BY <3>1, <4>1 DEF Loaded
            <4>. QED BY <2>4, <3>1, <4>1, <4>2, <4>3, <4>4 DEF Forward, Loaded
        <3>. QED BY <2>7, <3>2, <3>3 DEF ReadValue
    <2>8. CASE ReadStamp
        <3>1. UNCHANGED <<sample, row, counters>> /\ tick.pc = "stamp"
            BY <2>8 DEF ReadStamp, At
        <3>2. /\ tick'.pc = "count" /\ tick'.at = p /\ tick'.value = tick.value
              /\ tick'.stamp = sample[p].id
            BY <2>1, <2>8 DEF ReadStamp, Tick
        <3>. QED BY <2>2, <2>4, <3>1, <3>2 DEF Forward, Loaded
    <2>9. CASE Count
        <3>1. UNCHANGED <<sample, row>> /\ tick.pc = "count" /\ p \in Profiles
            BY <2>2, <2>9 DEF Count, At
        <3> DEFINE c == Counted(Loaded(p), p)
        <3>2. \/ counters' = [counters EXCEPT ![p] = c]
                 /\ tick' = [tick EXCEPT !.pc = "save", !.value = 0]
              \/ Done /\ UNCHANGED counters
            BY <2>9 DEF Count
        <3>3. CASE Done /\ UNCHANGED counters
            BY <2>3, <2>5, <3>1, <3>3
        <3>4. CASE counters' = [counters EXCEPT ![p] = c]
                   /\ tick' = [tick EXCEPT !.pc = "save", !.value = 0]
            <4>1. Loaded(p) \in Counters
                BY <2>1, <3>1, CountedType DEF TypeOK, RestOK, Budget
            <4>2. Earned(Loaded(p))
                BY <3>1 DEF Loaded, Forward, Earned
            <4>3. Earned(c) /\ c.last = tick.stamp
                BY <1>1, <2>1, <3>1, <4>1, <4>2 DEF Forward
            <4>4. tick.stamp <= sample[p].id
                BY <3>1 DEF Forward
            <4>5. tick'.pc = "save" /\ tick'.at = p /\ tick'.stamp = tick.stamp
                BY <2>1, <3>4 DEF Tick
            <4> HIDE DEF c
            <4>6. \A q \in Profiles : counters'[q] = IF q = p THEN c ELSE counters[q]
                BY <3>1, <3>4 DEF TypeOK
            <4>. QED BY <3>1, <4>3, <4>4, <4>5, <4>6 DEF Forward
        <3>. QED BY <3>2, <3>3, <3>4
    <2>10. CASE Save
        <3>1. UNCHANGED <<sample, counters>> /\ tick.pc = "save" /\ p \in Profiles
            BY <2>2, <2>10 DEF Save, At
        <3>2. tick'.pc \notin {"stamp", "count", "save"}
            <4>1. Done \/ tick' = [tick EXCEPT !.pc = "write", !.level = "between", !.stamp = 0]
                BY <2>10 DEF Save
            <4>. QED BY <2>1, <2>3, <4>1 DEF Tick
        <3>3. counters[p] # NULL /\ counters[p].last = tick.stamp
            BY <3>1 DEF Forward, TypeOK
        <3>4. \/ UNCHANGED row
              \/ \E st : row' = [row EXCEPT ![p] = [state |-> st, over |-> counters[p].over,
                                    last |-> tick.stamp, fed |-> counters[p].fed]]
            BY <2>10 DEF Save
        <3>5. ASSUME NEW q \in Profiles
              PROVE  Earned(row'[q]) /\ row'[q].last <= sample[q].id
            <4>1. \/ row'[q] = row[q]
                  \/ /\ q = p /\ row'[q].over = counters[p].over
                     /\ row'[q].last = tick.stamp /\ row'[q].fed = counters[p].fed
                BY <3>1, <3>4 DEF TypeOK
            <4>. QED BY <3>1, <3>3, <4>1 DEF Forward, Earned
        <3>. QED BY <3>1, <3>2, <3>5 DEF Forward
    <2>11. CASE Answer
        <3>1. UNCHANGED <<sample, counters>> /\ tick'.pc = "next" /\ p \in Profiles
            BY <2>2, <2>3, <2>11 DEF Answer, At
        <3>2. \A q \in Profiles : /\ row'[q].over = row[q].over /\ row'[q].last = row[q].last
                                  /\ row'[q].fed = row[q].fed
            BY <2>11, <3>1 DEF Answer, TypeOK, Row
        <3>. QED BY <3>1, <3>2 DEF Forward, Earned
    <2>12. CASE Restart
        BY <2>12 DEF Restart, Forward, Idle
    <2>13. ASSUME NEW q \in Profiles,
                  Poll(q) \/ Age(q) \/ SetMode(q) \/ MarkPeer(q) \/ OperatorCommand(q)
           PROVE  Forward'
        <3>1. UNCHANGED <<counters, tick>>
            BY <2>13 DEF Poll, Age, SetMode, MarkPeer, OperatorCommand, Edit, engine
        <3>2. \A r \in Profiles : sample[r].id <= sample'[r].id
            <4>1. \/ UNCHANGED sample
                  \/ \E l : sample' = [sample EXCEPT ![q] =
                                        [id |-> sample[q].id + 1, level |-> l, old |-> FALSE]]
                  \/ sample' = [sample EXCEPT ![q].old = TRUE]
                BY <2>13 DEF Poll, Age, SetMode, MarkPeer, OperatorCommand, Edit
            <4>. QED BY <2>4, <4>1 DEF TypeOK
        <3>3. \A r \in Profiles : /\ row'[r].over = row[r].over /\ row'[r].last = row[r].last
                                  /\ row'[r].fed = row[r].fed
            BY <2>13 DEF Poll, Age, SetMode, MarkPeer, OperatorCommand, TypeOK, Row
        <3>4. \A r \in Profiles : sample'[r].id \in Nat
            BY BoundsType DEF TypeOK, SampleId
        <3>5. \A r \in Profiles : Loaded(r)'.last = Loaded(r).last
            BY <3>1, <3>3 DEF Loaded
        <3>6. tick.value \in Nat /\ tick.stamp \in Nat
            BY <2>1, BoundsType DEF Tick, SampleId
        <3>7. \A r \in Profiles :
                /\ Earned(row'[r]) /\ row'[r].last <= sample'[r].id
                /\ counters[r] # NULL => Earned(counters[r]) /\ counters[r].last <= sample'[r].id
            BY <2>4, <3>2, <3>3, <3>4 DEF Forward, Earned
        <3>. QED BY <2>2, <2>4, <3>1, <3>2, <3>4, <3>5, <3>6, <3>7 DEF Forward
    <2>14. CASE UNCHANGED vars
        BY <2>14 DEF vars, engine, Forward, Loaded
    <2>. QED BY <2>6, <2>7, <2>8, <2>9, <2>10, <2>11, <2>12, <2>13, <2>14 DEF Next, TickStep
<1>4. Forward => EarnedTrigger
    BY DEF Forward, EarnedTrigger, Earned
<1>. QED BY <1>2, <1>3, <1>4, AutoTypes, PTL DEF Spec
=============================================================================
