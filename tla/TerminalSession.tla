-------------------------- MODULE TerminalSession --------------------------
(***************************************************************************)
(* internal/runtimeapi/terminal_manager.go: terminal sessions of one task. *)
(* A session is a child process on a PTY, a goroutine that reads its       *)
(* output, one that waits for its end, and the commands of the clients,    *)
(* which the server runs one at a time.  They share the mutex of the       *)
(* session; an input holds it while it writes to the PTY and records that. *)
(*                                                                         *)
(* Bytes are counted, not kept.  The sanitizer may drop bytes of a chunk,  *)
(* or hold some back for the next one.  The reason that an exit is recorded*)
(* with is left out.  The end of the runtime's process is not modelled: its*)
(* sessions end with it and stay open in the log.                          *)
(***************************************************************************)
EXTENDS TaskAuthority, Sequences, FiniteSets

CONSTANTS Sessions,     \* session ids
          OutputLimit,  \* the output bytes a session may have
          Typed,        \* bytes of one input
          InputRoom,    \* bytes the PTY holds for the process
          OutputRoom,   \* bytes the PTY holds for the reader
          Faults,       \* how a commit may fail: "refused" leaves no event,
                        \* "unsynced" leaves its event and returns an error
          MaxFaults,    \* bound on the failed commits
          MaxOutput,    \* bound on the bytes a process writes by itself
          MaxInputs     \* bound on the inputs of a session

ASSUME TerminalAssumptions ==
  /\ Faults \subseteq {"refused", "unsynced"}
  /\ {OutputLimit, Typed, InputRoom, OutputRoom} \subseteq Nat \ {0}
  /\ {MaxFaults, MaxOutput, MaxInputs} \subseteq Nat

Smaller(a, b) == IF a < b THEN a ELSE b

\* managedTerminal; "gone" is an id that was used and has no session any more.
Session == [place : {"none", "managed", "gone"}, closed : BOOLEAN,
            nextInput : Nat, nextOutput : Nat, received : 0..OutputLimit,
            held : 0..OutputLimit, owner : Clients \cup {None}, scope : ScopeIDs \cup {None}, revision : Nat]

NoSession == [place |-> "none", closed |-> FALSE,
              nextInput |-> 1, nextOutput |-> 1, received |-> 0, held |-> 0,
              owner |-> None, scope |-> None, revision |-> 0]

\* The child: unread is what it was sent, pipe what the reader has not read,
\* and fed counts the inputs written to it before it is killed.
Process == [state : {"none", "alive", "killed", "ended", "reaped"},
            unread : Nat, pipe : Nat, made : Nat, fed : Nat]

NoProcess == [state |-> "none", unread |-> 0, pipe |-> 0, made |-> 0, fed |-> 0]

\* The session as the log projects it.
Record == [status : {"absent", "open", "exited"}, nextInput : Nat, nextOutput : Nat,
           bytes : Nat]

NoRecord == [status |-> "absent", nextInput |-> 1, nextOutput |-> 1, bytes |-> 0]

Idle == [op |-> "none"]

\* The terminal command in progress, after its check.
Command == {Idle}
  \cup [op : {"input", "locked", "written"}, session : Sessions, sequence : Nat, left : Nat]
  \cup [op : {"resize", "cancel"}, session : Sessions]

VARIABLES
  record,   \* record[s]: what the log says of session s
  session,  \* session[s]: what the manager holds of it
  process,
  reader,   \* reader[s]: the phase of readOutput, and the bytes of its buffer
  waiter,   \* waiter[s]: the phase of wait
  command,
  closing,  \* Close: its phase, whom it has still to kill, whom it waits for
  faults    \* commits that failed so far

vars == <<authorityVars, record, session, process, reader, waiter, command, closing, faults>>

TypeOK ==
  /\ AuthorityTypeOK
  /\ record \in [Sessions -> Record]
  /\ session \in [Sessions -> Session]
  /\ process \in [Sessions -> Process]
  /\ reader \in [Sessions -> [phase : {"off", "reading", "holding", "ended"}, bytes : Nat]]
  /\ waiter \in [Sessions -> {"off", "waiting", "returned", "closed", "recorded", "done"}]
  /\ command \in Command
  /\ closing \in [phase : {"no", "yes", "done"}, kill : SUBSET Sessions, await : SUBSET Sessions]
  /\ faults \in 0..MaxFaults

Init ==
  /\ AuthorityInit
  /\ record = [s \in Sessions |-> NoRecord]
  /\ session = [s \in Sessions |-> NoSession]
  /\ process = [s \in Sessions |-> NoProcess]
  /\ reader = [s \in Sessions |-> [phase |-> "off", bytes |-> 0]]
  /\ waiter = [s \in Sessions |-> "off"]
  /\ command = Idle
  /\ closing = [phase |-> "no", kill |-> {}, await |-> {}]
  /\ faults = 0

-----------------------------------------------------------------------------
(* The pieces of the actions.                                               *)

Outcomes == {"committed", "refused", "unsynced"}

\* Service.emit of an event about session s: the reducer refuses it unless
\* accepted holds, and then the record becomes after.
Emit(s, accepted, after, outcome) ==
  \/ /\ ~accepted
     /\ outcome = "refused"
     /\ UNCHANGED <<record, faults>>
  \/ /\ accepted
     /\ outcome = "committed" \/ (outcome \in Faults /\ faults < MaxFaults)
     /\ faults' = IF outcome = "committed" THEN faults ELSE faults + 1
     /\ record' = IF outcome = "refused" THEN record ELSE [record EXCEPT ![s] = after]

Killed(p) == IF p.state = "alive" THEN [p EXCEPT !.state = "killed"] ELSE p

Kill(s) == process' = [process EXCEPT ![s] = Killed(@)]

\* What the manager does when an event of a running session is not committed.
AuditFailed_Tolerated(s) == UNCHANGED process

AuditFailed(s) == Kill(s)

Open(s) == record[s].status = "open"

\* The mutex of the session is held by an input.
Locked(s) == command.op \in {"locked", "written"} /\ command.session = s

Free == command = Idle /\ closing.phase = "no"

-----------------------------------------------------------------------------
(* Commands.  The other commands of the server change who may give them.    *)

Authority ==
  /\ Free
  /\ ChangeAuthority
  /\ UNCHANGED <<record, session, process, reader, waiter, command, closing, faults>>

Opened(c) == [NoSession EXCEPT !.place = "managed", !.owner = c, !.scope = scope,
                               !.revision = revision]

\* The process whose opening was not recorded; nobody waits for it.
Discarded_Running == [NoProcess EXCEPT !.state = "alive"]

Discarded == [NoProcess EXCEPT !.state = "killed"]

\* authorizeTerminalOpen and Open.  No goroutine of the session exists before
\* the opening is recorded.
OpenSession(s, c) ==
  /\ Free
  /\ session[s].place = "none"
  /\ Authorized(scope, c, revision)
  /\ \E outcome \in Outcomes :
       /\ Emit(s, record[s].status = "absent", [NoRecord EXCEPT !.status = "open"], outcome)
       /\ IF outcome = "committed"
            THEN /\ session' = [session EXCEPT ![s] = Opened(c)]
                 /\ process' = [process EXCEPT ![s] = [NoProcess EXCEPT !.state = "alive"]]
                 /\ reader' = [reader EXCEPT ![s].phase = "reading"]
                 /\ waiter' = [waiter EXCEPT ![s] = "waiting"]
            ELSE /\ process' = [process EXCEPT ![s] = Discarded]
                 /\ UNCHANGED <<session, reader, waiter>>
  /\ UNCHANGED <<authorityVars, command, closing>>

Granted_AnyRevision(s, c, r) ==
  confirmed /\ scope = session[s].scope /\ holder = c /\ session[s].owner = c

\* TerminalManager.session: the scope and the control of the session are still
\* those of the task, and the client and its lease those of the session.
Granted(s, c, r) ==
  /\ Authorized(session[s].scope, c, r)
  /\ session[s].owner = c
  /\ session[s].revision = r

\* revokeTerminal
Revoke(s, c, r) ==
  /\ Free
  /\ session[s].place = "managed"
  /\ ~Granted(s, c, r)
  /\ ~session[s].closed
  /\ Kill(s)
  /\ UNCHANGED <<authorityVars, record, session, reader, waiter, command, closing, faults>>

Check(s, c, r, next) ==
  /\ Free
  /\ session[s].place = "managed"
  /\ Granted(s, c, r)
  /\ command' = next
  /\ UNCHANGED <<authorityVars, record, session, process, reader, waiter, closing, faults>>

Input(s, c, r, n) ==
  Check(s, c, r, [op |-> "input", session |-> s, sequence |-> n, left |-> Typed])

Resize(s, c, r) == Check(s, c, r, [op |-> "resize", session |-> s])

Cancel(s, c, r) == Check(s, c, r, [op |-> "cancel", session |-> s])

\* The input takes the mutex, and goes on if its number is the next one.
LockInput(s) ==
  /\ command.op = "input" /\ command.session = s
  /\ command' = IF session[s].closed \/ command.sequence # session[s].nextInput
                  THEN Idle ELSE [command EXCEPT !.op = "locked"]
  /\ UNCHANGED <<authorityVars, record, session, process, reader, waiter, closing, faults>>

\* A write to a PTY whose other end was left open in this process.
WriteInput_NoError(s) ==
  /\ command.op = "locked" /\ command.session = s
  /\ process[s].unread < InputRoom
  /\ process' = [process EXCEPT ![s].unread = @ + 1,
                                ![s].fed = IF process[s].state = "alive" THEN @ + 1 ELSE @]
  /\ command' = [command EXCEPT !.left = 0, !.op = "written"]
  /\ UNCHANGED <<authorityVars, record, session, reader, waiter, closing, faults>>

\* process.Write waits for room, and fails at the latest when the process is over.
WriteInput(s) ==
  /\ command.op = "locked" /\ command.session = s
  /\ \/ /\ process[s].unread < InputRoom
        /\ process' = [process EXCEPT ![s].unread = @ + 1,
                                      ![s].fed =
                        IF command.left = 1 /\ process[s].state = "alive" THEN @ + 1 ELSE @]
        /\ command' = [command EXCEPT !.left = @ - 1,
                                      !.op = IF command.left = 1 THEN "written" ELSE @]
     \/ /\ process[s].state \in {"ended", "reaped"}
        /\ command' = Idle
        /\ UNCHANGED process
  /\ UNCHANGED <<authorityVars, record, session, reader, waiter, closing, faults>>

RecordInput(s) ==
  /\ command.op = "written" /\ command.session = s
  /\ \E outcome \in Outcomes :
       /\ Emit(s, Open(s) /\ record[s].nextInput = command.sequence,
               [record[s] EXCEPT !.nextInput = @ + 1], outcome)
       /\ IF outcome = "committed"
            THEN /\ session' = [session EXCEPT ![s].nextInput = @ + 1]
                 /\ UNCHANGED process
            ELSE AuditFailed(s) /\ UNCHANGED session
  /\ command' = Idle
  /\ UNCHANGED <<authorityVars, reader, waiter, closing>>

RunResize(s) ==
  /\ command.op = "resize" /\ command.session = s
  /\ IF session[s].closed
       THEN UNCHANGED <<record, process, faults>>
       ELSE \E outcome \in Outcomes :
              /\ Emit(s, Open(s), record[s], outcome)
              /\ IF outcome = "committed" THEN UNCHANGED process ELSE AuditFailed(s)
  /\ command' = Idle
  /\ UNCHANGED <<authorityVars, session, reader, waiter, closing>>

RunCancel(s) ==
  /\ command.op = "cancel" /\ command.session = s
  /\ IF session[s].closed THEN UNCHANGED process ELSE Kill(s)
  /\ command' = Idle
  /\ UNCHANGED <<authorityVars, record, session, reader, waiter, closing, faults>>

-----------------------------------------------------------------------------
(* readOutput.                                                              *)

Read(s) ==
  /\ reader[s].phase = "reading"
  /\ \/ /\ process[s].pipe > 0 /\ waiter[s] # "done"
        /\ reader' = [reader EXCEPT ![s] = [phase |-> "holding", bytes |-> process[s].pipe]]
        /\ process' = [process EXCEPT ![s].pipe = 0]
     \/ /\ waiter[s] = "done" \/ (process[s].pipe = 0 /\ process[s].state \in {"ended", "reaped"})
        /\ reader' = [reader EXCEPT ![s].phase = "ended"]
        /\ UNCHANGED process
  /\ UNCHANGED <<authorityVars, record, session, waiter, command, closing, faults>>

\* emitOutputLocked of clean bytes, if there are any.
RecordOutput(s, clean, outcome) ==
  IF clean = 0
    THEN outcome = "committed" /\ UNCHANGED <<record, faults>>
    ELSE Emit(s, /\ Open(s)
                 /\ record[s].nextOutput = session[s].nextOutput
                 /\ record[s].bytes + clean <= OutputLimit,
              [record[s] EXCEPT !.nextOutput = @ + 1, !.bytes = @ + clean], outcome)

\* The bytes of a chunk that count: what goes beyond the limit is cut off.
Kept_All(s) == reader[s].bytes

Kept(s) == Smaller(reader[s].bytes, OutputLimit - session[s].received)

\* The session after a chunk of which the sanitizer let clean bytes through.
Received(s, clean, held) ==
  [session[s] EXCEPT !.received = @ + Kept(s), !.held = held,
                     !.nextOutput = IF clean = 0 THEN @ ELSE @ + 1]

CommitOutput(s) ==
  /\ reader[s].phase = "holding"
  /\ ~Locked(s)
  /\ reader' = [reader EXCEPT ![s] = [phase |-> "reading", bytes |-> 0]]
  /\ \/ session[s].closed /\ UNCHANGED <<record, session, process, faults>>
     \/ /\ ~session[s].closed
        /\ session[s].received >= OutputLimit
        /\ Kill(s)
        /\ UNCHANGED <<record, session, faults>>
     \/ /\ ~session[s].closed
        /\ session[s].received < OutputLimit
        /\ \E clean \in 0..(session[s].held + Kept(s)), outcome \in Outcomes :
           \E held \in 0..(session[s].held + Kept(s) - clean) :
             LET next == Received(s, clean, held)
                 full == next.received >= OutputLimit
             IN /\ RecordOutput(s, clean, outcome)
                /\ session' = [session EXCEPT ![s] =
                     IF outcome = "committed" THEN next
                     ELSE [next EXCEPT !.nextOutput = session[s].nextOutput]]
                /\ process' = [process EXCEPT ![s] =
                     IF outcome # "committed" \/ full THEN Killed(@) ELSE @]
  /\ UNCHANGED <<authorityVars, waiter, command, closing>>

\* flushOutput, after the last read.
Flush(s) ==
  /\ reader[s].phase = "ended"
  /\ ~Locked(s)
  /\ reader' = [reader EXCEPT ![s] = [phase |-> "off", bytes |-> 0]]
  /\ \/ session[s].closed /\ UNCHANGED <<record, session, process, faults>>
     \/ /\ ~session[s].closed
        /\ \E clean \in 0..session[s].held, outcome \in Outcomes :
             /\ RecordOutput(s, clean, outcome)
             /\ IF outcome = "committed"
                  THEN /\ session' = [session EXCEPT ![s].held = 0, ![s].nextOutput =
                                        IF clean = 0 THEN @ ELSE @ + 1]
                       /\ UNCHANGED process
                  ELSE /\ session' = [session EXCEPT ![s].held = 0]
                       /\ AuditFailed(s)
  /\ UNCHANGED <<authorityVars, waiter, command, closing>>

-----------------------------------------------------------------------------
(* wait: the end of the process, then of the session.                       *)

WaitReturns(s) ==
  /\ waiter[s] = "waiting"
  /\ process[s].state = "ended"
  /\ waiter' = [waiter EXCEPT ![s] = "returned"]
  /\ process' = [process EXCEPT ![s].state = "reaped"]
  /\ UNCHANGED <<authorityVars, record, session, reader, command, closing, faults>>

CloseSession(s) ==
  /\ waiter[s] = "returned"
  /\ ~Locked(s)
  /\ waiter' = [waiter EXCEPT ![s] = "closed"]
  /\ session' = [session EXCEPT ![s].closed = TRUE]
  /\ UNCHANGED <<authorityVars, record, process, reader, command, closing, faults>>

\* The error of this commit is dropped.
RecordExit(s) ==
  /\ waiter[s] = "closed"
  /\ waiter' = [waiter EXCEPT ![s] = "recorded"]
  /\ \E outcome \in Outcomes :
       Emit(s, Open(s), [record[s] EXCEPT !.status = "exited"], outcome)
  /\ UNCHANGED <<authorityVars, session, process, reader, command, closing>>

\* The PTY is closed, the session removed, and done closed.
Leave(s) ==
  /\ waiter[s] = "recorded"
  /\ waiter' = [waiter EXCEPT ![s] = "done"]
  /\ session' = [session EXCEPT ![s] = [NoSession EXCEPT !.place = "gone", !.closed = TRUE]]
  /\ process' = [process EXCEPT ![s] = [NoProcess EXCEPT !.state = "reaped"]]
  /\ UNCHANGED <<authorityVars, record, reader, command, closing, faults>>

-----------------------------------------------------------------------------
(* Close, the last request of a server; its context does not expire.        *)

BeginClose ==
  /\ Free
  /\ LET managed == {s \in Sessions : session[s].place = "managed"}
     IN closing' = [phase |-> "yes", kill |-> managed, await |-> managed]
  /\ UNCHANGED <<authorityVars, record, session, process, reader, waiter, command, faults>>

CloseKills_NoKill(s) ==
  /\ s \in closing.kill
  /\ closing' = [closing EXCEPT !.kill = @ \ {s}]
  /\ UNCHANGED <<authorityVars, record, session, process, reader, waiter, command, faults>>

CloseKills(s) ==
  /\ s \in closing.kill
  /\ ~Locked(s)
  /\ closing' = [closing EXCEPT !.kill = @ \ {s}]
  /\ IF session[s].closed THEN UNCHANGED process ELSE Kill(s)
  /\ UNCHANGED <<authorityVars, record, session, reader, waiter, command, faults>>

CloseReturns ==
  /\ closing.phase = "yes"
  /\ closing.kill = {}
  /\ \A s \in closing.await : waiter[s] = "done"
  /\ closing' = [closing EXCEPT !.phase = "done"]
  /\ UNCHANGED <<authorityVars, record, session, process, reader, waiter, command, faults>>

-----------------------------------------------------------------------------
(* The process: it writes by itself, echoes what it reads, and ends.        *)

Lives(s) == process[s].state \in {"alive", "killed"}

Produce(s) ==
  /\ Lives(s) /\ process[s].pipe < OutputRoom /\ process[s].made < MaxOutput
  /\ process' = [process EXCEPT ![s].pipe = @ + 1, ![s].made = @ + 1]
  /\ UNCHANGED <<authorityVars, record, session, reader, waiter, command, closing, faults>>

Echo(s) ==
  /\ Lives(s) /\ process[s].unread > 0 /\ process[s].pipe < OutputRoom
  /\ process' = [process EXCEPT ![s].unread = @ - 1, ![s].pipe = @ + 1]
  /\ UNCHANGED <<authorityVars, record, session, reader, waiter, command, closing, faults>>

Finish(s) ==
  /\ Lives(s)
  /\ process' = [process EXCEPT ![s].state = "ended"]
  /\ UNCHANGED <<authorityVars, record, session, reader, waiter, command, closing, faults>>

-----------------------------------------------------------------------------
RunCommand(s) == LockInput(s) \/ WriteInput(s) \/ RecordInput(s) \/ RunResize(s) \/ RunCancel(s)

Reader(s) == Read(s) \/ CommitOutput(s) \/ Flush(s)

Waiter(s) == WaitReturns(s) \/ CloseSession(s) \/ RecordExit(s) \/ Leave(s)

Close == CloseReturns \/ \E s \in Sessions : CloseKills(s)

Next ==
  \/ Authority
  \/ BeginClose
  \/ Close
  \/ \E s \in Sessions :
       \/ \E c \in Clients : OpenSession(s, c)
       \/ \E c \in Clients, r \in 1..MaxRevision :
            \/ Revoke(s, c, r)
            \/ \E n \in 1..MaxInputs : Input(s, c, r, n)
            \/ Resize(s, c, r)
            \/ Cancel(s, c, r)
       \/ RunCommand(s)
       \/ Reader(s)
       \/ Waiter(s)
       \/ Produce(s)
       \/ Echo(s)
       \/ Finish(s)

\* Goroutines and commands go on when they can, and sync.Mutex passes over no
\* goroutine forever, whence SF.  A process that reads its input reads it
\* whenever it is not stopped by its own output, and one that was killed ends.
Fairness ==
  /\ WF_vars(Close)
  /\ \A s \in Sessions :
       /\ WF_vars(RunCommand(s))
       /\ SF_vars(Reader(s))
       /\ SF_vars(Waiter(s))
       /\ WF_vars(Echo(s))
       /\ WF_vars(process[s].state = "killed" /\ Finish(s))

Spec == Init /\ [][Next]_vars /\ Fairness

-----------------------------------------------------------------------------
(* Properties.                                                              *)

\* The inputs a process was sent and the log does not have yet.
Unrecorded(s) ==
  IF command.op = "written" /\ command.session = s THEN 1 ELSE 0

\* As long as the process of an open session has not been killed, manager and
\* log agree on it: the log has every input the process was sent, the next
\* event of the session is one the reducer accepts, and there is room for what
\* the sanitizer holds back.  A commit that fails on either side ends the
\* session before the two can drift apart.
LogFollowsSession ==
  \A s \in Sessions :
    session[s].place = "managed" /\ process[s].state = "alive" =>
      /\ Open(s)
      /\ record[s].nextInput = session[s].nextInput
      /\ record[s].nextOutput = session[s].nextOutput
      /\ process[s].fed = record[s].nextInput - 1 + Unrecorded(s)
      /\ record[s].bytes + session[s].held <= session[s].received
      /\ session[s].received < OutputLimit

\* No process runs unnoticed: one that was not killed and has not ended is in
\* the table of the manager, where Close finds it.
NoOrphans ==
  \A s \in Sessions : process[s].state = "alive" => session[s].place = "managed"

\* An input is recorded only under the scope, the owner and the lease under
\* which its session was opened, though both are compared before the mutex is
\* taken and the PTY written.
InputUnderAuthority ==
  [][\A s \in Sessions :
       record'[s].nextInput > record[s].nextInput =>
         Authorized(session[s].scope, session[s].owner, session[s].revision)]_vars

\* Every session whose process is over is closed and leaves the table, even
\* when an input holds its mutex at that time: no session stays in it for ever.
EndedSessionsLeave ==
  \A s \in Sessions :
    []<>~(session[s].place = "managed" /\ process[s].state \in {"ended", "reaped"})

\* Close kills every session and returns.
CloseTerminates == []<>(closing.phase # "yes")

\* Every command comes to an end.
CommandsEnd == command # Idle ~> command = Idle
=============================================================================
