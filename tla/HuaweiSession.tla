---------------------------- MODULE HuaweiSession ----------------------------
(***************************************************************************)
(* The persistent read-only SSH session of the mitigation worker:          *)
(* PersistentHuaweiSession and the MitigationWorker that owns it           *)
(* (apps/api/src/worker/mitigation).                                       *)
(*                                                                         *)
(* JavaScript runs a callback to its end, and the promise continuations    *)
(* it releases, before the next event. A callback is one action; what the  *)
(* command queue does next is a microtask, and no event fires while one    *)
(* is pending (Quiet).                                                     *)
(*                                                                         *)
(* The session registers its handlers on every stream it opens and never   *)
(* removes them. What a forgotten SSH connection does is ignored, what a   *)
(* forgotten shell prints or reports is not: shells keep their identity    *)
(* here until they are closed.                                             *)
(***************************************************************************)
EXTENDS Naturals, Sequences, FiniteSets

CONSTANTS
    Conns,      \* SSH connections; one that is forgotten and has no open shell
                \* may stand for a new one
    Commands,   \* executeReadOnly calls, each made at most once
    Initial,    \* the command that turns paging off
    Banner,     \* what a shell prints when it opens
    NULL

ASSUME SessionAssumption ==
    /\ NULL \notin Conns \cup Commands
    /\ Initial \notin Commands \cup {NULL, Banner}
    /\ Banner \notin Commands

VARIABLES
    state,      \* this.state
    client,     \* this.client
    stream,     \* this.stream, named after its connection
    closing,    \* this.intentionalClose
    timer,      \* this.reconnectTimer is armed
    dial,       \* the doConnect() in flight and where it waits
    active,     \* this.activeCommand, whose own timer is armed
    prompt,     \* this.stdout ends in a prompt
    queue,      \* this.queue: commands not over, the first of them running
    status,     \* how far each command is
    started,    \* MitigationWorker.started
    shell,      \* the shell of each connection, as the router sees it
    owed        \* what the router has still to print on it

session == <<state, client, stream, closing, timer, dial, active, prompt>>
work == <<queue, status>>
router == <<shell, owed>>
vars == <<session, work, started, router>>

State == {"DISCONNECTED", "CONNECTING", "READY", "RECONNECTING", "FAILED"}
DialPc == {"none", "ready", "shell", "prompt", "initial"}
Progress == {"new", "queued", "connecting", "resumed", "written", "answered", "failed"}
Over == {"answered", "failed"}

\* "doomed" and "dead": the transport is gone, and the callback or the close
\* event that says so has still to come.
Shell == {"none", "opening", "doomed", "open", "dead"}

NoDial == [pc |-> "none", conn |-> NULL]

TypeOK ==
    /\ state \in State
    /\ client \in Conns \cup {NULL}
    /\ stream \in Conns \cup {NULL}
    /\ closing \in BOOLEAN
    /\ timer \in BOOLEAN
    /\ dial \in {NoDial} \cup [pc : DialPc \ {"none"}, conn : Conns]
    /\ active \in Commands \cup {Initial, NULL}
    /\ prompt \in BOOLEAN
    /\ queue \in Seq(Commands)
    /\ status \in [Commands -> Progress]
    /\ started \in BOOLEAN
    /\ shell \in [Conns -> Shell]
    /\ owed \in [Conns -> SUBSET (Commands \cup {Initial, Banner})]

Init ==
    /\ state = "DISCONNECTED"
    /\ client = NULL
    /\ stream = NULL
    /\ closing = FALSE
    /\ timer = FALSE
    /\ dial = NoDial
    /\ active = NULL
    /\ prompt = FALSE
    /\ queue = <<>>
    /\ status = [k \in Commands |-> "new"]
    /\ started = FALSE
    /\ shell = [c \in Conns |-> "none"]
    /\ owed = [c \in Conns |-> {}]

-----------------------------------------------------------------------------
(* The command queue                                                        *)

Running(st) == queue # <<>> /\ status[Head(queue)] = st

\* The running command is over; the next one becomes the first.
Finish(st) ==
    /\ status' = [status EXCEPT ![Head(queue)] = st]
    /\ queue' = Tail(queue)

FinishIf(cond, st) == IF cond THEN Finish(st) ELSE UNCHANGED work

\* No continuation of the command queue is pending.
Quiet == ~Running("queued") /\ ~Running("resumed")

-----------------------------------------------------------------------------
(* Parts of the handlers                                                    *)

\* Mutants: only a session that was up is tried again; close() is not looked at.
ScheduleIfWasUp == timer' = (timer \/ (~closing /\ state # "CONNECTING"))
ScheduleAlways == timer' = TRUE

\* scheduleReconnect, with intentionalClose as it is.
ScheduleReconnect == timer' = (timer \/ ~closing)

\* Mutant: the error is swallowed, and who waits for the connection goes on.
DialFailsSilently ==
    /\ client' = NULL /\ stream' = NULL /\ prompt' = FALSE
    /\ state' = "FAILED"
    /\ ScheduleReconnect
    /\ dial' = NoDial
    /\ UNCHANGED work

\* The catch of doConnect: whoever waits for the connection gets the error.
DialFails ==
    /\ client' = NULL /\ stream' = NULL /\ prompt' = FALSE
    /\ state' = "FAILED"
    /\ ScheduleReconnect
    /\ dial' = NoDial
    /\ FinishIf(Running("connecting"), "failed")

\* handleUnexpectedDisconnect without what it does to the running command.
Disconnect(st) ==
    /\ client' = NULL /\ stream' = NULL /\ active' = NULL
    /\ state' = st
    /\ ScheduleReconnect
    /\ UNCHANGED <<closing, dial, prompt>>

\* Mutants: the state stays as it was; the running command is not rejected.
UnexpectedDisconnectUnseen ==
    IF closing THEN UNCHANGED <<session, work>>
    ELSE Disconnect(state) /\ FinishIf(active # NULL, "failed")

UnexpectedDisconnectKept ==
    IF closing THEN UNCHANGED <<session, work>>
    ELSE Disconnect("FAILED") /\ UNCHANGED work

\* handleUnexpectedDisconnect: the running command is rejected.
UnexpectedDisconnect ==
    IF closing THEN UNCHANGED <<session, work>>
    ELSE Disconnect("FAILED") /\ FinishIf(active # NULL, "failed")

\* An event that means the session is gone, for handlers that look at
\* connectSettlement first: its reject has no effect once "ready" was seen.
SessionGone ==
    CASE dial.pc = "ready" -> DialFails /\ UNCHANGED <<closing, active>>
      [] dial.pc = "none" -> UnexpectedDisconnect
      [] OTHER -> UNCHANGED <<session, work>>

\* A connection nobody refers to and that has no shell to be heard of.
Forgotten(c) ==
    /\ c \notin {client, stream, dial.conn}
    /\ shell[c] = "none"

\* Mutant: the attempt takes this.client before it is assigned.
DialTooEarly(c) ==
    /\ Forgotten(c)
    /\ client' = c /\ closing' = FALSE /\ prompt' = FALSE
    /\ state' = "CONNECTING"
    /\ dial' = [pc |-> "ready", conn |-> client]
    /\ UNCHANGED router

\* doConnect up to its first await.
Dial(c) ==
    /\ Forgotten(c)
    /\ client' = c /\ closing' = FALSE /\ prompt' = FALSE
    /\ state' = "CONNECTING"
    /\ dial' = [pc |-> "ready", conn |-> c]
    /\ UNCHANGED router

\* The early return of connect().
Usable == state = "READY" /\ stream # NULL

\* connect() otherwise: an attempt in flight is joined.
Connect ==
    IF dial.pc # "none" THEN UNCHANGED <<session, router>>
    ELSE (\E c \in Conns : Dial(c)) /\ UNCHANGED <<stream, timer, active>>

\* stream.write of runCommand, which starts with an empty stdout; o is what the
\* router owes apart from that.
Write(c, k, o) ==
    /\ prompt' = FALSE
    /\ active' = k
    /\ owed' = IF shell'[c] = "open" THEN [o EXCEPT ![c] = @ \cup {k}] ELSE o

-----------------------------------------------------------------------------
(* Microtasks: the running command                                          *)

\* ensureReady, then runCommand.
StartTask ==
    /\ Running("queued")
    /\ LET k == Head(queue) IN
       IF Usable
       THEN /\ status' = [status EXCEPT ![k] = "written"]
            /\ UNCHANGED <<state, client, stream, closing, timer, dial, shell>>
            /\ Write(stream, k, owed)
       ELSE status' = [status EXCEPT ![k] = "connecting"] /\ Connect
    /\ UNCHANGED <<queue, started>>

\* The connection it waited for is there.
ResumeTask ==
    /\ Running("resumed")
    /\ UNCHANGED shell
    /\ IF stream = NULL
       THEN Finish("failed") /\ UNCHANGED <<active, prompt, owed>>
       ELSE /\ status' = [status EXCEPT ![Head(queue)] = "written"]
            /\ Write(stream, Head(queue), owed)
            /\ UNCHANGED queue
    /\ UNCHANGED <<state, client, stream, closing, timer, dial, started>>

-----------------------------------------------------------------------------
(* Events of the SSH connection                                             *)

\* 'ready': the shell is requested.
ConnReady(c) ==
    /\ Quiet
    /\ client = c
    /\ dial.pc = "ready"
    /\ dial' = [dial EXCEPT !.pc = "shell"]
    /\ shell' = [shell EXCEPT ![c] = "opening"]
    /\ UNCHANGED <<state, client, stream, closing, timer, active, prompt, work,
                   started, owed>>

\* 'error' (also readyTimeout), 'close', 'end', 'timeout': ignored unless it is
\* the current connection.
ConnLost(c) ==
    /\ Quiet
    /\ client = c
    /\ shell' = [shell EXCEPT ![c] = CASE @ = "opening" -> "doomed"
                                      [] @ = "open" -> "dead"
                                      [] OTHER -> @]
    /\ owed' = [owed EXCEPT ![c] = {}]
    /\ SessionGone
    /\ UNCHANGED started

\* handshake once its prompt is there: the initial command goes to stream s.
RunInitial(s, o) ==
    IF s = NULL
    THEN DialFails /\ owed' = o /\ UNCHANGED active
    ELSE /\ dial' = [dial EXCEPT !.pc = "initial"]
         /\ stream' = s
         /\ Write(s, Initial, o)
         /\ UNCHANGED <<state, client, timer, work>>

\* The callback of shell(). It does not ask whether its connection is still the
\* current one. The lines of a router are bounded: some connection has none.
ShellOpened(c) ==
    /\ Quiet
    /\ shell[c] = "opening"
    /\ \E d \in Conns \ {c} : shell[d] \notin {"open", "dead"}
    /\ shell' = [shell EXCEPT ![c] = "open"]
    /\ LET o == [owed EXCEPT ![c] = {Banner}] IN
       IF prompt THEN RunInitial(c, o)
       ELSE /\ stream' = c
            /\ dial' = [dial EXCEPT !.pc = "prompt"]
            /\ owed' = o
            /\ UNCHANGED <<state, client, timer, active, prompt, work>>
    /\ UNCHANGED <<closing, started>>

ShellRefused(c) ==
    /\ Quiet
    /\ shell[c] \in {"opening", "doomed"}
    /\ shell' = [shell EXCEPT ![c] = "none"]
    /\ DialFails
    /\ UNCHANGED <<closing, active, started, owed>>

\* The active command gets what stdout holds.
Answer ==
    /\ active' = NULL
    /\ prompt' = TRUE
    /\ IF active = Initial
       THEN /\ state' = "READY"
            /\ dial' = NoDial
            /\ status' = IF Running("connecting")
                         THEN [status EXCEPT ![Head(queue)] = "resumed"] ELSE status
            /\ UNCHANGED queue
       ELSE Finish("answered") /\ UNCHANGED <<state, dial>>
    /\ UNCHANGED <<client, stream, timer>>

\* handleStdout of a chunk that ends in a prompt, of whichever shell.
Prints(c, text) ==
    /\ Quiet
    /\ shell[c] = "open"
    /\ text \in owed[c]
    /\ text # Banner => Banner \notin owed[c]
    /\ UNCHANGED shell
    /\ LET o == [owed EXCEPT ![c] = @ \ {text}] IN
       \/ /\ dial.pc = "prompt"
          /\ RunInitial(stream, o)
       \/ /\ dial.pc # "prompt" /\ active # NULL
          /\ Answer
          /\ owed' = o
       \/ /\ dial.pc # "prompt" /\ active = NULL
          /\ prompt' = TRUE
          /\ owed' = o
          /\ UNCHANGED <<state, client, stream, timer, dial, active, work>>
    /\ UNCHANGED <<closing, started>>

\* 'end' and 'close' of a stream, of whichever session it was.
StreamClosed(c) ==
    /\ Quiet
    /\ shell[c] \in {"open", "dead"}
    /\ shell' = [shell EXCEPT ![c] = "none"]
    /\ owed' = [owed EXCEPT ![c] = {}]
    /\ IF closing THEN UNCHANGED <<session, work>> ELSE SessionGone
    /\ UNCHANGED started

-----------------------------------------------------------------------------
(* Timers                                                                   *)

\* The timer of the active command; the session is dropped, not ended.
CommandTimeout ==
    /\ Quiet
    /\ active # NULL
    /\ active' = NULL
    /\ IF active = Initial THEN DialFails
       ELSE /\ client' = NULL
            /\ stream' = NULL
            /\ state' = "FAILED"
            /\ ScheduleReconnect
            /\ Finish("failed")
            /\ UNCHANGED <<dial, prompt>>
    /\ UNCHANGED <<closing, started, router>>

\* The timer of waitForInitialPrompt.
PromptTimeout ==
    /\ Quiet
    /\ dial.pc = "prompt"
    /\ DialFails
    /\ UNCHANGED <<closing, active, started, router>>

\* reconnect(), which only its timer calls. An initial command it rejects takes
\* doConnect to its catch; an attempt that is not that far loses its connection
\* and is joined.
ReconnectTimer ==
    /\ Quiet
    /\ timer
    /\ active' = NULL
    /\ IF active = Initial THEN DialFails /\ UNCHANGED <<closing, router>>
       ELSE /\ stream' = NULL
            /\ timer' = FALSE
            /\ FinishIf(active # NULL, "failed")
            /\ IF dial.pc = "none" THEN \E c \in Conns : Dial(c)
               ELSE /\ client' = NULL /\ closing' = FALSE /\ prompt' = FALSE
                    /\ state' = "RECONNECTING"
                    /\ UNCHANGED <<dial, router>>
    /\ UNCHANGED started

-----------------------------------------------------------------------------
(* The worker and its callers                                               *)

\* MitigationWorker.start.
WorkerStart ==
    /\ Quiet
    /\ ~started
    /\ started' = TRUE
    /\ IF Usable THEN UNCHANGED <<session, router>> ELSE Connect
    /\ UNCHANGED work

\* MitigationWorker.stop: close(). An initial command it rejects takes doConnect
\* to its catch, which says FAILED last.
WorkerStop ==
    /\ Quiet
    /\ started
    /\ started' = FALSE
    /\ closing' = TRUE /\ timer' = FALSE
    /\ active' = NULL /\ client' = NULL /\ stream' = NULL /\ prompt' = FALSE
    /\ state' = IF active = Initial THEN "FAILED" ELSE "DISCONNECTED"
    /\ dial' = IF active = Initial THEN NoDial ELSE dial
    /\ FinishIf(active # NULL /\ queue # <<>>, "failed")
    /\ UNCHANGED router

\* executeReadOnly of an allowed command; the others never get here.
Execute(k) ==
    /\ Quiet
    /\ status[k] = "new"
    /\ status' = [status EXCEPT ![k] = "queued"]
    /\ queue' = Append(queue, k)
    /\ UNCHANGED <<session, started, router>>

Next ==
    \/ StartTask \/ ResumeTask
    \/ CommandTimeout \/ PromptTimeout \/ ReconnectTimer
    \/ WorkerStart \/ WorkerStop
    \/ \E k \in Commands : Execute(k)
    \/ \E c \in Conns :
        \/ ConnReady(c) \/ ConnLost(c)
        \/ ShellOpened(c) \/ ShellRefused(c) \/ StreamClosed(c)
        \/ \E text \in Commands \cup {Initial, Banner} : Prints(c, text)

\* The event loop runs microtasks and timers, and ssh2 answers a connect, whose
\* readyTimeout sees to it. Nothing times a shell request: callers, the router and
\* the network are not fair.
Fairness ==
    /\ WF_vars(StartTask \/ ResumeTask)
    /\ WF_vars(CommandTimeout)
    /\ WF_vars(PromptTimeout)
    /\ WF_vars(ReconnectTimer)
    /\ \A c \in Conns : WF_vars(dial.pc = "ready" /\ (ConnReady(c) \/ ConnLost(c)))

Spec == Init /\ [][Next]_vars /\ Fairness

-----------------------------------------------------------------------------
(* Properties                                                               *)

\* The attempt in flight waits for a connection whose events are ignored.
Abandoned == dial.pc = "ready" /\ client # dial.conn

\* The attempt in flight waits for the router's answer to a shell request, which
\* openShell gives no time.
AwaitsShell == dial.pc = "shell"

\* What connect() returns early on: a session that says READY has a
\* stream and no second login under way, whichever stale timer, callback or event
\* of an older connection came last. No more than that: the stream may be that of
\* an older connection, or dead with its close still to come, and the client NULL.
ReadyHasStream == state = "READY" => stream # NULL /\ dial.pc = "none"

\* A command on the wire is the first of the queue and the active one, so that
\* its timer is armed and every loss of the session rejects it; nothing else
\* is ever active but the initial command of an attempt.
WrittenIsActive ==
    /\ \A k \in Commands :
        status[k] = "written" <=> active = k
    /\ active \in Commands => Running("written") /\ dial.pc = "none"
    /\ active = Initial => dial.pc = "initial"

\* close() plans no reconnection, and neither does what fails afterwards; only a
\* new connect() opens a session again.
ClosedPlansNothing == closing => ~timer

\* Every command ends, answered or rejected: timeouts, lost transports and
\* reconnections do not strand it. What may is one attempt that never ends: it
\* was abandoned, or the router does not answer its shell request, for ever.
CommandsEnd ==
    \A k \in Commands :
        status[k] = "queued" ~> status[k] \in Over \/ [](Abandoned \/ AwaitsShell)

\* A session that failed does not stay so: the backoff tries again.
FailureIsRetried == state = "FAILED" /\ ~closing ~> state # "FAILED" \/ closing

\* Claimed of the backoff, which goes on "indefinidamente": a reconnection ends,
\* in a session or in the next failure, if it is not the router's shell it waits for.
ReconnectionEnds == state = "RECONNECTING" ~> state # "RECONNECTING" \/ AwaitsShell
=============================================================================
