------------------------- MODULE HuaweiSessionProofs -------------------------
(* Proofs about HuaweiSession, for every value of its constants.             *)
EXTENDS HuaweiSession, SequenceTheorems, TLAPS

-----------------------------------------------------------------------------
(* The inductive invariant                                                  *)

\* A shell is awaited by the attempt that asked for it, and an attempt that still
\* waits for "ready" waits for the current connection or for a forgotten one.
DialIsKnown ==
    /\ \A c \in Conns : shell[c] \in {"opening", "doomed"} => dial = [pc |-> "shell", conn |-> c]
    /\ dial.pc = "ready" => client \in {dial.conn, NULL}

\* The initial command of an attempt runs on a stream until the attempt ends.
InitialHasStream == dial.pc = "initial" => active = Initial /\ stream # NULL

\* A command runs, and goes on, where connect() returns early; only the first is
\* to go on.
RunsOnStream ==
    /\ active \in Commands => Usable
    /\ \A k \in Commands : status[k] = "resumed" =>
        Usable /\ dial.pc = "none" /\ queue # <<>> /\ k = Head(queue)

SessionOK ==
    /\ ReadyHasStream
    /\ WrittenIsActive
    /\ ClosedPlansNothing
    /\ DialIsKnown
    /\ InitialHasStream
    /\ RunsOnStream

\* The parts of TypeOK.
SessionTypes ==
    /\ state \in State
    /\ client \in Conns \cup {NULL}
    /\ stream \in Conns \cup {NULL}
    /\ closing \in BOOLEAN /\ timer \in BOOLEAN /\ prompt \in BOOLEAN /\ started \in BOOLEAN

AttemptTypes ==
    /\ dial \in {NoDial} \cup [pc : DialPc \ {"none"}, conn : Conns]
    /\ active \in Commands \cup {Initial, NULL}

WorkTypes == queue \in Seq(Commands) /\ status \in [Commands -> Progress]

RouterTypes ==
    /\ shell \in [Conns -> Shell]
    /\ owed \in [Conns -> SUBSET (Commands \cup {Initial, Banner})]

-----------------------------------------------------------------------------
(* It is kept                                                               *)

\* Nothing is on the wire, nor to go on, once the first command is over, or when
\* none was running.
NothingRuns == \A k \in Commands : status[k] \notin {"written", "resumed"}

-----------------------------------------------------------------------------
(* The theorems                                                             *)

LEMMA SessionHolds == Spec => [](TypeOK /\ SessionOK)
\* One step per action: the types of what it stores, and the invariant.
<1>SessionNext. TypeOK /\ SessionOK /\ [Next]_vars => TypeOK' /\ SessionOK'
    <2>Finishes. ASSUME WorkTypes, WrittenIsActive, RunsOnStream, Quiet, NEW st \in Over,
                 \/ queue # <<>> /\ Finish(st)
                 \/ active \notin Commands /\ UNCHANGED work
          PROVE  WorkTypes' /\ NothingRuns'
        <3> USE <2>Finishes
        <3>1. CASE queue # <<>> /\ Finish(st)
            <4>1. Head(queue) \in Commands /\ Tail(queue) \in Seq(Commands)
                BY <3>1, HeadTailProperties DEF WorkTypes
            <4>. QED BY <3>1, <4>1 DEF Finish, WorkTypes, NothingRuns, WrittenIsActive,
                                       RunsOnStream,
                        Quiet, Running, Over, Progress
        <3>2. CASE active \notin Commands /\ UNCHANGED work
            BY <3>2 DEF work, WorkTypes, NothingRuns, WrittenIsActive, RunsOnStream, Quiet, Running
        <3>. QED BY <3>1, <3>2
    <2>1. TypeOK <=> SessionTypes /\ AttemptTypes /\ WorkTypes /\ RouterTypes
        BY DEF TypeOK, SessionTypes, AttemptTypes, WorkTypes, RouterTypes
    <2> SUFFICES ASSUME SessionTypes, AttemptTypes, WorkTypes, RouterTypes, SessionOK, [Next]_vars
                 PROVE  SessionTypes' /\ AttemptTypes' /\ WorkTypes' /\ RouterTypes' /\ SessionOK'
        BY <2>1 DEF TypeOK, SessionTypes, AttemptTypes, WorkTypes, RouterTypes
    <2> USE SessionAssumption, HeadTailProperties, AppendProperties
        DEF SessionTypes, AttemptTypes, State, DialPc, NoDial, WorkTypes, Progress,
            RouterTypes, Shell,
            ReadyHasStream, WrittenIsActive, ClosedPlansNothing, DialIsKnown, InitialHasStream,
            RunsOnStream, SessionOK, Usable, Running, Quiet, FinishIf
    <2>2. CASE StartTask
        <3> USE DEF StartTask, Connect, Dial, Write, Forgotten, session, router
        <3>1. SessionTypes'
            <4>1. CASE Usable
                BY <2>2, <4>1
            <4>2. CASE ~Usable /\ dial.pc # "none"
                BY <2>2, <4>2
            <4>3. CASE ~Usable /\ dial.pc = "none"
                <5>1. PICK c \in Conns : Dial(c) /\ UNCHANGED <<stream, timer, started>>
                    BY <2>2, <4>3
                <5>. QED BY <5>1 DEF Dial
            <4>. QED BY <4>1, <4>2, <4>3
        <3>2. AttemptTypes'
            BY <2>2
        <3>3. RouterTypes'
            BY <2>2
        <3>4. WorkTypes'
            BY <2>2
        <3>5. ReadyHasStream' /\ ClosedPlansNothing' /\ DialIsKnown' /\ InitialHasStream'
            BY <2>2
        <3>6. WrittenIsActive' /\ RunsOnStream'
            BY <2>2
        <3>. QED BY <3>1, <3>2, <3>3, <3>4, <3>5, <3>6
    <2>3. CASE ResumeTask
        <3> USE DEF ResumeTask, Write, Finish
        <3>1. SessionTypes'
            BY <2>3
        <3>2. AttemptTypes'
            BY <2>3
        <3>3. RouterTypes'
            BY <2>3
        <3>4. WorkTypes'
            BY <2>3
        <3>5. ReadyHasStream' /\ ClosedPlansNothing' /\ DialIsKnown' /\ InitialHasStream'
            BY <2>3
        <3>6. WrittenIsActive' /\ RunsOnStream'
            BY <2>3
        <3>. QED BY <3>1, <3>2, <3>3, <3>4, <3>5, <3>6
    <2>4. CASE CommandTimeout
        <3> USE DEF CommandTimeout, DialFails, ScheduleReconnect, router
        <3>1. /\ Quiet
              /\ \/ queue # <<>> /\ Finish("failed")
                 \/ active \notin Commands /\ UNCHANGED work
            BY <2>4
        <3>2. WorkTypes' /\ NothingRuns'
            BY <3>1, <2>Finishes DEF Over
        <3>3. SessionTypes'
            BY <2>4
        <3>4. AttemptTypes'
            BY <2>4
        <3>5. RouterTypes'
            BY <2>4
        <3>6. ReadyHasStream' /\ ClosedPlansNothing' /\ DialIsKnown' /\ InitialHasStream'
            BY <2>4
        <3>7. WrittenIsActive' /\ RunsOnStream'
            BY <2>4, <3>2 DEF NothingRuns
        <3>. QED BY <3>2, <3>3, <3>4, <3>5, <3>6, <3>7
    <2>5. CASE PromptTimeout
        <3> USE DEF PromptTimeout, DialFails, ScheduleReconnect, router
        <3>1. /\ Quiet
              /\ \/ queue # <<>> /\ Finish("failed")
                 \/ active \notin Commands /\ UNCHANGED work
            BY <2>5
        <3>2. WorkTypes' /\ NothingRuns'
            BY <3>1, <2>Finishes DEF Over
        <3>3. SessionTypes'
            BY <2>5
        <3>4. AttemptTypes'
            BY <2>5
        <3>5. RouterTypes'
            BY <2>5
        <3>6. ReadyHasStream' /\ ClosedPlansNothing' /\ DialIsKnown' /\ InitialHasStream'
            BY <2>5
        <3>7. WrittenIsActive' /\ RunsOnStream'
            BY <2>5, <3>2 DEF NothingRuns
        <3>. QED BY <3>2, <3>3, <3>4, <3>5, <3>6, <3>7
    <2>6. CASE ReconnectTimer
        <3> USE DEF ReconnectTimer, DialFails, ScheduleReconnect, Dial, Forgotten, router
        <3>1. /\ Quiet
              /\ \/ queue # <<>> /\ Finish("failed")
                 \/ active \notin Commands /\ UNCHANGED work
            BY <2>6
        <3>2. WorkTypes' /\ NothingRuns'
            BY <3>1, <2>Finishes DEF Over
        <3>3. SessionTypes'
            BY <2>6
        <3>4. AttemptTypes'
            BY <2>6
        <3>5. RouterTypes'
            BY <2>6
        <3>6. ReadyHasStream' /\ ClosedPlansNothing' /\ DialIsKnown' /\ InitialHasStream'
            BY <2>6
        <3>7. WrittenIsActive' /\ RunsOnStream'
            BY <2>6, <3>2 DEF NothingRuns
        <3>. QED BY <3>2, <3>3, <3>4, <3>5, <3>6, <3>7
    <2>7. CASE WorkerStart
        <3> USE DEF WorkerStart, Connect, Dial, Forgotten, session, router, work
        <3>1. SessionTypes'
            <4>1. CASE UNCHANGED session
                BY <2>7, <4>1
            <4>2. CASE \E c \in Conns : Dial(c) /\ UNCHANGED <<stream, timer>>
                BY <2>7, <4>2
            <4>. QED BY <2>7, <4>1, <4>2
        <3>2. AttemptTypes'
            BY <2>7
        <3>3. RouterTypes'
            BY <2>7
        <3>4. WorkTypes'
            BY <2>7
        <3>5. ReadyHasStream' /\ ClosedPlansNothing' /\ DialIsKnown' /\ InitialHasStream'
            BY <2>7
        <3>6. WrittenIsActive' /\ RunsOnStream'
            BY <2>7
        <3>. QED BY <3>1, <3>2, <3>3, <3>4, <3>5, <3>6
    <2>8. CASE WorkerStop
        <3>1. /\ Quiet
              /\ \/ queue # <<>> /\ Finish("failed")
                 \/ active \notin Commands /\ UNCHANGED work
            BY <2>8 DEF WorkerStop, router
        <3>2. WorkTypes' /\ NothingRuns'
            BY <3>1, <2>Finishes DEF Over
        <3>3. SessionTypes'
            BY <2>8 DEF WorkerStop, router
        <3>4. AttemptTypes'
            BY <2>8 DEF WorkerStop, router
        <3>5. RouterTypes'
            BY <2>8 DEF WorkerStop, router
        <3>6. ReadyHasStream' /\ ClosedPlansNothing' /\ DialIsKnown' /\ InitialHasStream'
            BY <2>8 DEF WorkerStop, router
        <3>7. WrittenIsActive' /\ RunsOnStream'
            BY <2>8, <3>2 DEF WorkerStop, router, NothingRuns
        <3>. QED BY <3>2, <3>3, <3>4, <3>5, <3>6, <3>7
    <2>9. ASSUME NEW k \in Commands, Execute(k)
          PROVE  SessionTypes' /\ AttemptTypes' /\ WorkTypes' /\ RouterTypes' /\ SessionOK'
        <3> USE DEF Execute, session, router
        <3>1. SessionTypes'
            BY <2>9
        <3>2. AttemptTypes'
            BY <2>9
        <3>3. RouterTypes'
            BY <2>9
        <3>4. WorkTypes'
            BY <2>9
        <3>5. ReadyHasStream' /\ ClosedPlansNothing' /\ DialIsKnown' /\ InitialHasStream'
            BY <2>9
        <3>6. WrittenIsActive' /\ RunsOnStream'
            BY <2>9
        <3>. QED BY <3>1, <3>2, <3>3, <3>4, <3>5, <3>6
    <2>10. ASSUME NEW c \in Conns, ConnReady(c)
          PROVE  SessionTypes' /\ AttemptTypes' /\ WorkTypes' /\ RouterTypes' /\ SessionOK'
        <3>1. SessionTypes'
            BY <2>10 DEF ConnReady, work
        <3>2. AttemptTypes'
            BY <2>10 DEF ConnReady, work
        <3>3. RouterTypes'
            BY <2>10 DEF ConnReady, work
        <3>4. WorkTypes'
            BY <2>10 DEF ConnReady, work
        <3>5. ReadyHasStream' /\ ClosedPlansNothing' /\ DialIsKnown' /\ InitialHasStream'
            BY <2>10 DEF ConnReady, work
        <3>6. WrittenIsActive' /\ RunsOnStream'
            BY <2>10 DEF ConnReady, work
        <3>. QED BY <3>1, <3>2, <3>3, <3>4, <3>5, <3>6
    <2>11. ASSUME NEW c \in Conns, ConnLost(c)
          PROVE  SessionTypes' /\ AttemptTypes' /\ WorkTypes' /\ RouterTypes' /\ SessionOK'
        <3> USE DEF ConnLost, SessionGone, DialFails, UnexpectedDisconnect, Disconnect,
                    ScheduleReconnect, session, work
        <3>1. CASE UNCHANGED <<session, work>>
            <4>1. SessionTypes' /\ AttemptTypes' /\ WorkTypes'
                BY <2>11, <3>1
            <4>2. RouterTypes'
                BY <2>11, <3>1
            <4>3. SessionOK'
                BY <2>11, <3>1
            <4>. QED BY <4>1, <4>2, <4>3
        <3>2. CASE ~UNCHANGED <<session, work>>
            <4>1. /\ Quiet
                  /\ \/ queue # <<>> /\ Finish("failed")
                     \/ active \notin Commands /\ UNCHANGED work
                BY <2>11, <3>2
            <4>2. WorkTypes' /\ NothingRuns'
                BY <4>1, <2>Finishes DEF Over
            <4>3. SessionTypes'
                BY <2>11, <3>2
            <4>4. AttemptTypes'
                BY <2>11, <3>2
            <4>5. RouterTypes'
                BY <2>11, <3>2
            <4>6. ReadyHasStream' /\ ClosedPlansNothing' /\ DialIsKnown' /\ InitialHasStream'
                BY <2>11, <3>2
            <4>7. WrittenIsActive' /\ RunsOnStream'
                BY <2>11, <3>2, <4>2 DEF NothingRuns
            <4>. QED BY <4>2, <4>3, <4>4, <4>5, <4>6, <4>7
        <3>. QED BY <3>1, <3>2
    <2>12. ASSUME NEW c \in Conns, ShellOpened(c)
          PROVE  SessionTypes' /\ AttemptTypes' /\ WorkTypes' /\ RouterTypes' /\ SessionOK'
        <3> USE DEF ShellOpened, RunInitial, Write, DialFails, ScheduleReconnect, work
        <3>1. SessionTypes'
            BY <2>12
        <3>2. AttemptTypes'
            BY <2>12
        <3>3. RouterTypes'
            BY <2>12
        <3>4. WorkTypes'
            BY <2>12
        <3>5. ReadyHasStream' /\ ClosedPlansNothing' /\ DialIsKnown' /\ InitialHasStream'
            BY <2>12
        <3>6. WrittenIsActive' /\ RunsOnStream'
            BY <2>12
        <3>. QED BY <3>1, <3>2, <3>3, <3>4, <3>5, <3>6
    <2>13. ASSUME NEW c \in Conns, ShellRefused(c)
          PROVE  SessionTypes' /\ AttemptTypes' /\ WorkTypes' /\ RouterTypes' /\ SessionOK'
        <3> USE DEF ShellRefused, DialFails, ScheduleReconnect
        <3>1. /\ Quiet
              /\ \/ queue # <<>> /\ Finish("failed")
                 \/ active \notin Commands /\ UNCHANGED work
            BY <2>13
        <3>2. WorkTypes' /\ NothingRuns'
            BY <3>1, <2>Finishes DEF Over
        <3>3. SessionTypes'
            BY <2>13
        <3>4. AttemptTypes'
            BY <2>13
        <3>5. RouterTypes'
            BY <2>13
        <3>6. ReadyHasStream' /\ ClosedPlansNothing' /\ DialIsKnown' /\ InitialHasStream'
            BY <2>13
        <3>7. WrittenIsActive' /\ RunsOnStream'
            BY <2>13, <3>2 DEF NothingRuns
        <3>. QED BY <3>2, <3>3, <3>4, <3>5, <3>6, <3>7
    <2>14. ASSUME NEW c \in Conns, StreamClosed(c)
          PROVE  SessionTypes' /\ AttemptTypes' /\ WorkTypes' /\ RouterTypes' /\ SessionOK'
        <3> USE DEF StreamClosed, SessionGone, DialFails, UnexpectedDisconnect, Disconnect,
                    ScheduleReconnect, session, work
        <3>1. CASE UNCHANGED <<session, work>>
            <4>1. SessionTypes' /\ AttemptTypes' /\ WorkTypes'
                BY <2>14, <3>1
            <4>2. RouterTypes'
                BY <2>14, <3>1
            <4>3. SessionOK'
                BY <2>14, <3>1
            <4>. QED BY <4>1, <4>2, <4>3
        <3>2. CASE ~UNCHANGED <<session, work>>
            <4>1. /\ Quiet
                  /\ \/ queue # <<>> /\ Finish("failed")
                     \/ active \notin Commands /\ UNCHANGED work
                BY <2>14, <3>2
            <4>2. WorkTypes' /\ NothingRuns'
                BY <4>1, <2>Finishes DEF Over
            <4>3. SessionTypes'
                BY <2>14, <3>2
            <4>4. AttemptTypes'
                BY <2>14, <3>2
            <4>5. RouterTypes'
                BY <2>14, <3>2
            <4>6. ReadyHasStream' /\ ClosedPlansNothing' /\ DialIsKnown' /\ InitialHasStream'
                BY <2>14, <3>2
            <4>7. WrittenIsActive' /\ RunsOnStream'
                BY <2>14, <3>2, <4>2 DEF NothingRuns
            <4>. QED BY <4>2, <4>3, <4>4, <4>5, <4>6, <4>7
        <3>. QED BY <3>1, <3>2
    <2>15. ASSUME NEW c \in Conns, NEW text \in Commands \cup {Initial, Banner},
                 Prints(c, text)
          PROVE  SessionTypes' /\ AttemptTypes' /\ WorkTypes' /\ RouterTypes' /\ SessionOK'
        <3> USE DEF Prints, RunInitial, Write, Answer, DialFails, ScheduleReconnect, work,
                    Finish
        <3>1. SessionTypes'
            BY <2>15
        <3>2. AttemptTypes'
            BY <2>15
        <3>3. RouterTypes'
            BY <2>15
        <3>4. WorkTypes'
            <4>1. \/ UNCHANGED work
                  \/ /\ queue # <<>> /\ queue' \in {queue, Tail(queue)}
                     /\ \E st \in Progress : status' = [status EXCEPT ![Head(queue)] = st]
                BY <2>15
            <4>2. CASE queue # <<>>
                <5>1. Head(queue) \in Commands /\ Tail(queue) \in Seq(Commands)
                    BY <4>2
                <5>2. queue' \in Seq(Commands)
                    BY <4>1, <5>1
                <5>3. status' \in [Commands -> Progress]
                    BY <4>1, <5>1
                <5>. QED BY <5>2, <5>3
            <4>. QED BY <4>1, <4>2 DEF work
        <3>5. ReadyHasStream' /\ ClosedPlansNothing' /\ DialIsKnown' /\ InitialHasStream'
            BY <2>15
        <3>6. WrittenIsActive' /\ RunsOnStream'
            BY <2>15
        <3>. QED BY <3>1, <3>2, <3>3, <3>4, <3>5, <3>6
    <2>16. CASE UNCHANGED vars
        BY <2>16 DEF vars, session, work, router
    <2>. QED BY <2>2, <2>3, <2>4, <2>5, <2>6, <2>7, <2>8, <2>9,
              <2>10, <2>11, <2>12, <2>13, <2>14, <2>15, <2>16 DEF Next
<1>1. Init => TypeOK /\ SessionOK
    <2> USE SessionAssumption DEF Init
    <2>1. Init => SessionTypes /\ RouterTypes
        BY DEF SessionTypes, RouterTypes, State, Shell
    <2>2. Init => AttemptTypes /\ WorkTypes
        BY EmptySeq DEF AttemptTypes, WorkTypes, Progress
    <2>3. Init => ReadyHasStream /\ ClosedPlansNothing /\ InitialHasStream
        BY DEF ReadyHasStream, ClosedPlansNothing, InitialHasStream, NoDial
    <2>4. Init => DialIsKnown
        BY DEF DialIsKnown, NoDial
    <2>5. Init => WrittenIsActive /\ RunsOnStream
        BY DEF WrittenIsActive, RunsOnStream
    <2>. QED BY <2>1, <2>2, <2>3, <2>4, <2>5 DEF SessionOK, TypeOK, SessionTypes,
                                                 AttemptTypes,
                WorkTypes, RouterTypes
<1>2. TypeOK /\ SessionOK /\ [Next]_vars => (TypeOK /\ SessionOK)'
    BY <1>SessionNext
<1>. QED BY <1>1, <1>2, PTL DEF Spec

\* Every variable of the session, of its queue and of the router keeps its type,
\* whatever connections and shells are opened, lost and forgotten.
THEOREM SessionTypesHold == Spec => []TypeOK
BY SessionHolds, PTL

\* What connect() returns early on: a session that says READY has a stream and no login under way, for
\* any number of connections, commands, reconnections and late events. Whether
\* that stream still works is not said.
THEOREM ReadyNamesAStream == Spec => []ReadyHasStream
<1>1. SessionOK => ReadyHasStream
    BY DEF SessionOK
<1>. QED BY SessionHolds, <1>1, PTL

\* A command on the wire is the first of the queue and the active one, and only
\* the initial command of an attempt is ever active besides: a timeout or a
\* lost session always rejects the command that waits for the answer.
THEOREM OnWireIsActive == Spec => []WrittenIsActive
<1>1. SessionOK => WrittenIsActive
    BY DEF SessionOK
<1>. QED BY SessionHolds, <1>1, PTL

\* After close() no reconnection is planned, whatever fails afterwards.
THEOREM ClosePlansNothing == Spec => []ClosedPlansNothing
<1>1. SessionOK => ClosedPlansNothing
    BY DEF SessionOK
<1>. QED BY SessionHolds, <1>1, PTL
=============================================================================
