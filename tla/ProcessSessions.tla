--------------------------- MODULE ProcessSessions ---------------------------
(* The ProcessManager of one Thread (src/agent/tools/process.py): sessions that *)
(* exec_command starts and write_stdin polls, the tasks of each session (the    *)
(* watcher of its process, its readers, its timeouts), the cancellation of a    *)
(* Turn and the close of the manager.                                           *)
(*                                                                              *)
(* One event loop runs everything, so a step is what happens between two        *)
(* awaits.  A Turn executes one tool call at a time (tool_coordinator.py:98).   *)
(* A process is free to write, to exit, and to ignore SIGTERM; SIGKILL ends it. *)
(* Output is counted in chunks: chunk n of a session is the n-th it writes.     *)
(* The two readers of stdout and stderr are one, the timeout and the idle       *)
(* timeout are one timer that may fire at any time, and the bounded tombstones  *)
(* of dead sessions are left out, for a dead and an unknown id are both refused.*)
EXTENDS Naturals, Sequences, FiniteSets, SequencesExt

CONSTANTS
    MaxSessions,    \* bound: exec_command calls that start a process
    MaxChunks,      \* bound: chunks one process writes
    MaxTurns,       \* bound: Turns of the Thread
    MaxStops,       \* bound: cancellations of one Turn (deadline, Stop, shutdown)
    MaxActive,      \* max_sessions of the manager
    Retention       \* max_completed_sessions of the manager

ASSUME SessionLimits ==
    /\ {MaxSessions, MaxChunks} \subseteq Nat
    /\ {MaxTurns, MaxStops, MaxActive, Retention} \subseteq Nat \ {0}

Session == 1 .. MaxSessions
Turn == 1 .. MaxTurns
NoSession == 0

VARIABLES
    session,    \* per id: the process, its output, and the tasks of ProcessSession
    delivered,  \* per id: the chunks the model was given, in order
    active,     \* ProcessManager._sessions
    exited,     \* ProcessManager._exited_sessions, oldest first
    closed,     \* ProcessManager._closed
    closing,    \* sessions whose close() runs in a cleanup task or in aclose
    aclose,     \* progress of aclose, with the sessions it waits for
    call,       \* the tool call in progress: where it awaits and for which session
    turn,       \* the current Turn: its number, whether it runs, its cancellations
    abandoned   \* ghost: processes whose owner was cancelled before they were killed

vars == <<session, delivered, active, exited, closed, closing, aclose, call, turn, abandoned>>

Chunks == 0 .. MaxChunks

SessionRecord ==
    [process : {"none", "alive", "dead"}, written : Chunks, read : Chunks, taken : Chunks,
     final : Chunks, watcher : {"none", "waiting", "draining", "done"},
     reader : BOOLEAN, timer : BOOLEAN, owner : 0 .. MaxTurns]

CallRecord ==
    [pc : {"idle", "spawning", "attaching", "reading", "terminating", "returning", "unwinding"},
     id : Session \cup {NoSession}, exec : BOOLEAN, tty : BOOLEAN, out : Seq(Nat)]

(* Every variable has its type: sessions, the two registries, the call and the *)
(* Turn of ProcessManager stay well formed.                                    *)
TypeOK ==
    /\ session \in [Session -> SessionRecord]
    /\ \A s \in Session : delivered[s] \in Seq(1 .. MaxChunks)
    /\ active \subseteq {s \in Session : session[s].watcher # "none"}
    /\ Range(exited) \subseteq {s \in Session : session[s].watcher = "done"}
    /\ IsInjective(exited) /\ Len(exited) <= Retention
    /\ closed \in BOOLEAN
    /\ closing \subseteq Session
    /\ aclose \in [phase : {"none", "closing", "draining", "returned"}, waits : SUBSET Session]
    /\ call \in CallRecord
    /\ turn \in [number : Turn, open : BOOLEAN, stops : 0 .. MaxStops, pending : 0 .. MaxStops]
    /\ abandoned \subseteq Session

Unborn == [process |-> "none", written |-> 0, read |-> 0, taken |-> 0, final |-> 0,
           watcher |-> "none", reader |-> FALSE, timer |-> FALSE, owner |-> 0]

Idle == [pc |-> "idle", id |-> NoSession, exec |-> FALSE, tty |-> FALSE, out |-> <<>>]

Init ==
    /\ session = [s \in Session |-> Unborn]
    /\ delivered = [s \in Session |-> <<>>]
    /\ active = {} /\ exited = <<>> /\ closed = FALSE /\ closing = {}
    /\ aclose = [phase |-> "none", waits |-> {}]
    /\ call = Idle
    /\ turn = [number |-> 1, open |-> TRUE, stops |-> 0, pending |-> 0]
    /\ abandoned = {}

-----------------------------------------------------------------------------
(* Operators over one session record. *)

(* ProcessSession.running: the loop has not been told of the exit. *)
Running(s) == session[s].watcher = "waiting"

(* SIGKILL to the process group. *)
Killed(r) == [r EXCEPT !.process = IF @ = "alive" THEN "dead" ELSE @]

(* The part of close() after the process ended: transports and tasks are gone. *)
Stopped(r) == [r EXCEPT !.reader = FALSE, !.timer = FALSE]

(* _result: the frozen final result, or what was read since the last one. *)
Output(s) ==
    LET r == session[s]
        first == IF r.watcher = "done" THEN r.final ELSE r.taken
        last == IF r.watcher = "done" THEN r.taken ELSE r.read
    IN  [i \in 1 .. last - first |-> first + i]

(* The completed sessions but s. *)
Without(s) ==
    IF s \in Range(exited)
      THEN RemoveAt(exited, CHOOSE i \in DOMAIN exited : exited[i] = s) ELSE exited

Deliver(s, out) == delivered' = [delivered EXCEPT ![s] = @ \o out]

(* Fault: the completed result of a retired session stays. *)
DropActive(s) == active' = active \ {s} /\ UNCHANGED exited

(* _drop_session *)
Drop(s) == active' = active \ {s} /\ exited' = Without(s)

(* Fault: the owner filter is lost. *)
AnyOwner(t) == {s \in active : session[s].owner <= t}

(* cancel_active(owner): kill, forget, and clean up in a task. *)
OwnedBy(t) == {s \in active : session[s].owner = t}

CancelActive ==
    LET mine == OwnedBy(turn.number)
    IN  /\ session' = [s \in Session |->
                          IF s \in mine /\ Running(s) THEN Killed(session[s]) ELSE session[s]]
        /\ active' = active \ mine
        /\ closing' = closing \cup mine

-----------------------------------------------------------------------------
(* exec_command *)

CanCall == call.pc = "idle" /\ turn.open /\ turn.pending = 0 /\ ~closed

(* The limit is looked at before the await of the spawn. *)
ExecStarts(s, tty) ==
    /\ CanCall
    /\ Cardinality({a \in active : Running(a)}) < MaxActive
    /\ session[s].process = "none" /\ \A o \in 1 .. s - 1 : session[o].process # "none"
    /\ call' = [Idle EXCEPT !.pc = "spawning", !.id = s, !.exec = TRUE, !.tty = tty]
    /\ UNCHANGED <<session, delivered, active, exited, closed, closing, aclose, turn, abandoned>>

(* create_subprocess_exec or the attachment of the PTY fails: the call returns *)
(* an error, and a process that had started is killed.                         *)
ExecFails ==
    /\ call.pc \in {"spawning", "attaching"}
    /\ session' = [session EXCEPT ![call.id] = Killed(@)]
    /\ call' = Idle
    /\ UNCHANGED <<delivered, active, exited, closed, closing, aclose, turn, abandoned>>

(* The session with its tasks, owned by the Turn. *)
Watched(r) == [r EXCEPT !.process = IF @ = "none" THEN "alive" ELSE @, !.watcher = "waiting",
                        !.reader = TRUE, !.timer = TRUE, !.owner = turn.number]

(* The session is built and registered, even if the manager was closed meanwhile. *)
Register(s) ==
    /\ session' = [session EXCEPT ![s] = Watched(@)]
    /\ active' = active \cup {s}
    /\ call' = [call EXCEPT !.pc = "reading"]

Spawned ==
    /\ call.pc = "spawning"
    /\ \/ ~call.tty /\ Register(call.id)
       \/ /\ call.tty
          /\ session' = [session EXCEPT ![call.id].process = "alive"]
          /\ call' = [call EXCEPT !.pc = "attaching"]
          /\ UNCHANGED active
    /\ UNCHANGED <<delivered, exited, closed, closing, aclose, turn, abandoned>>

Attached ==
    /\ call.pc = "attaching"
    /\ Register(call.id)
    /\ UNCHANGED <<delivered, exited, closed, closing, aclose, turn, abandoned>>

-----------------------------------------------------------------------------
(* write_stdin; on a dead or unknown session, and a write to a session that is *)
(* known to have exited but still drains, it only returns an error.            *)

StdinStarts(s) ==
    /\ CanCall
    /\ s \in active
    /\ call' = [Idle EXCEPT !.pc = "reading", !.id = s]
    /\ UNCHANGED <<session, delivered, active, exited, closed, closing, aclose, turn, abandoned>>

(* The one final poll of a completed session, answered without an await. *)
FinalPoll(s) ==
    /\ CanCall
    /\ s \in Range(exited)
    /\ Deliver(s, Output(s))
    /\ exited' = Without(s)
    /\ UNCHANGED <<session, active, closed, closing, aclose, call, turn, abandoned>>

(* A write to a completed session drops its result and answers SESSION_DEAD. *)
LateWrite(s) ==
    /\ CanCall
    /\ s \in Range(exited)
    /\ exited' = Without(s)
    /\ UNCHANGED <<session, delivered, active, closed, closing, aclose, call, turn, abandoned>>

(* _read_unlocked returns, at its yield time, on output, at the exit, or 0.05 s *)
(* after the exit when the watcher still drains.  A result that says "exited"   *)
(* retires the session: drop it, close it, then return.                         *)
ReadReturns ==
    LET s == call.id
        took == [session[s] EXCEPT !.taken = IF session[s].watcher = "done" THEN @ ELSE session[s].read]
    IN  /\ call.pc = "reading"
        /\ \/ /\ Running(s)
              /\ session' = [session EXCEPT ![s] = took]
              /\ Deliver(s, Output(s))
              /\ call' = Idle
              /\ UNCHANGED <<active, exited>>
           \/ /\ ~Running(s)
              /\ session' = [session EXCEPT ![s] = Stopped(took)]
              /\ Drop(s)
              /\ call' = [call EXCEPT !.pc = "returning", !.out = Output(s)]
              /\ UNCHANGED delivered
        /\ UNCHANGED <<closed, closing, aclose, turn, abandoned>>

Returns ==
    /\ call.pc = "returning"
    /\ Deliver(call.id, call.out)
    /\ call' = Idle
    /\ UNCHANGED <<session, active, exited, closed, closing, aclose, turn, abandoned>>

-----------------------------------------------------------------------------
(* Cancellation of the Turn, and of the call it awaits. *)

RequestStop ==
    /\ turn.open /\ turn.stops < MaxStops
    /\ turn' = [turn EXCEPT !.stops = @ + 1, !.pending = @ + 1]
    /\ UNCHANGED <<session, delivered, active, exited, closed, closing, aclose, call, abandoned>>

(* Fault: the session is dropped and nobody closes it. *)
RetireOnly(s) ==
    /\ Drop(s)
    /\ call' = [call EXCEPT !.pc = "unwinding"]
    /\ UNCHANGED session

(* Fault: close() cancels its tasks before it ends the process. *)
RetireTasksFirst(s) ==
    /\ Drop(s)
    /\ session' = [session EXCEPT ![s] = Stopped(@)]
    /\ call' = [call EXCEPT !.pc = IF Running(s) THEN "terminating" ELSE "unwinding"]

(* _drop_session and close(): SIGTERM and a wait before SIGKILL, unless the    *)
(* process is known to have exited.                                            *)
Retire(s) ==
    /\ Drop(s)
    /\ session' = [session EXCEPT ![s] = IF Running(s) THEN @ ELSE Stopped(@)]
    /\ call' = [call EXCEPT !.pc = IF Running(s) THEN "terminating" ELSE "unwinding"]

(* The CancelledError reaches a read: the call retires the session it started, *)
(* or that its own Turn created, and only unwinds from another Turn's.         *)
CancelRead(s) ==
    \/ (call.exec \/ session[s].owner = turn.number) /\ Retire(s)
    \/ /\ ~call.exec /\ session[s].owner # turn.number
       /\ call' = [call EXCEPT !.pc = "unwinding"]
       /\ UNCHANGED <<session, active, exited>>

(* The CancelledError reaches the await the call is at. *)
DeliverCancel ==
    /\ turn.pending > 0 /\ call.pc # "idle"
    /\ turn' = [turn EXCEPT !.pending = @ - 1]
    /\ \/ call.pc = "reading" /\ CancelRead(call.id) /\ UNCHANGED abandoned
       \/ /\ call.pc # "reading"
          /\ call' = [call EXCEPT !.pc = "unwinding"]
          (* start_session's handler catches Exception, and a second cancellation *)
          (* leaves close() between its two signals.                              *)
          /\ abandoned' = IF call.pc \in {"attaching", "terminating"}
                          THEN abandoned \cup {call.id} ELSE abandoned
          /\ UNCHANGED <<session, active, exited>>
    /\ UNCHANGED <<delivered, closed, closing, aclose>>

(* close() of a cancelled call goes on after the process had its time. *)
Terminated ==
    /\ call.pc = "terminating"
    /\ session' = [session EXCEPT ![call.id] = Stopped(Killed(@))]
    /\ call' = [call EXCEPT !.pc = "unwinding"]
    /\ UNCHANGED <<delivered, active, exited, closed, closing, aclose, turn, abandoned>>

(* The Turn's task sees the cancellation: it reaps every session it owns, ends. *)
Unwind ==
    /\ call.pc = "unwinding" \/ (call.pc = "idle" /\ turn.pending > 0)
    /\ CancelActive
    /\ call' = Idle
    /\ turn' = [turn EXCEPT !.open = FALSE, !.pending = 0]
    /\ UNCHANGED <<delivered, exited, closed, aclose, abandoned>>

(* A Turn that ends by itself leaves its sessions running. *)
EndTurn ==
    /\ turn.open /\ turn.pending = 0 /\ call.pc = "idle"
    /\ turn' = [turn EXCEPT !.open = FALSE]
    /\ UNCHANGED <<session, delivered, active, exited, closed, closing, aclose, call, abandoned>>

NextTurn ==
    /\ ~turn.open /\ turn.number < MaxTurns /\ ~closed
    /\ turn' = [number |-> turn.number + 1, open |-> TRUE, stops |-> 0, pending |-> 0]
    /\ UNCHANGED <<session, delivered, active, exited, closed, closing, aclose, call, abandoned>>

-----------------------------------------------------------------------------
(* Close of the manager: close_thread on an idle Thread, aclose at shutdown. *)

Close ==
    /\ ~turn.open /\ ~closed
    /\ closed' = TRUE
    /\ session' = [s \in Session |->
                      IF s \in active /\ Running(s) THEN Killed(session[s]) ELSE session[s]]
    /\ closing' = closing \cup active
    /\ active' = {} /\ exited' = <<>>
    /\ UNCHANGED <<delivered, aclose, call, turn, abandoned>>

(* ThreadRuntime.aclose cancels the active Turn, then closes the manager. *)
AcloseStarts ==
    /\ aclose.phase = "none"
    /\ closed' = TRUE
    /\ aclose' = [phase |-> "closing", waits |-> active]
    /\ closing' = closing \cup active
    /\ active' = {} /\ exited' = <<>>
    /\ turn' = IF turn.open /\ turn.stops = 0
               THEN [turn EXCEPT !.stops = 1, !.pending = 1] ELSE turn
    /\ UNCHANGED <<session, delivered, call, abandoned>>

(* It gathers its own closes, then the cleanup tasks there are at that moment. *)
AcloseGoesOn ==
    /\ aclose.phase \in {"closing", "draining"}
    /\ aclose.waits \cap closing = {}
    /\ aclose' = IF aclose.phase = "closing"
                 THEN [phase |-> "draining", waits |-> closing]
                 ELSE [phase |-> "returned", waits |-> {}]
    /\ UNCHANGED <<session, delivered, active, exited, closed, closing, call, turn, abandoned>>

(* A close() nobody cancels: SIGTERM, 0.1 s, SIGKILL, the tasks. *)
TaskCloses(s) ==
    /\ s \in closing
    /\ closing' = closing \ {s}
    /\ session' = [session EXCEPT ![s] = Stopped(IF Running(s) THEN Killed(@) ELSE @)]
    /\ UNCHANGED <<delivered, active, exited, closed, aclose, call, turn, abandoned>>

-----------------------------------------------------------------------------
(* The process and the tasks of its session. *)

SessionStep(s, r) ==
    /\ session' = [session EXCEPT ![s] = r]
    /\ UNCHANGED <<delivered, closed, closing, aclose, call, turn, abandoned>>

Writes(s) ==
    /\ session[s].process = "alive" /\ session[s].written < MaxChunks
    /\ SessionStep(s, [session[s] EXCEPT !.written = @ + 1])
    /\ UNCHANGED <<active, exited>>

Exits(s) ==
    /\ session[s].process = "alive"
    /\ SessionStep(s, [session[s] EXCEPT !.process = "dead"])
    /\ UNCHANGED <<active, exited>>

ReaderReads(s) ==
    /\ session[s].reader /\ session[s].read < session[s].written
    /\ SessionStep(s, [session[s] EXCEPT !.read = @ + 1])
    /\ UNCHANGED <<active, exited>>

(* _watch_timeout, _watch_idle: both end the process unless it has ended. *)
TimerFires(s) ==
    /\ session[s].timer /\ Running(s)
    /\ SessionStep(s, [Killed(session[s]) EXCEPT !.timer = FALSE])
    /\ UNCHANGED <<active, exited>>

(* _watch_process: wait() returns, the readers get 0.25 s, then the final      *)
(* result is frozen and the manager takes it over (_on_terminal).              *)
Observes(s) ==
    /\ Running(s) /\ session[s].process = "dead"
    /\ SessionStep(s, [session[s] EXCEPT !.watcher = "draining"])
    /\ UNCHANGED <<active, exited>>

(* _remember_completed: the newest last, the oldest evicted beyond the limit. *)
Remember(s) ==
    LET kept == Append(Without(s), s)
    IN  exited' = IF Len(kept) > Retention THEN Tail(kept) ELSE kept

Drained(s) ==
    /\ session[s].watcher = "draining"
    /\ SessionStep(s, [Stopped(session[s]) EXCEPT !.watcher = "done",
                          !.final = session[s].taken, !.taken = session[s].read])
    /\ active' = active \ {s}
    /\ IF s \in active /\ ~closed THEN Remember(s) ELSE UNCHANGED exited

-----------------------------------------------------------------------------
ProcessStep(s) ==
    Writes(s) \/ Exits(s) \/ ReaderReads(s) \/ TimerFires(s) \/ Observes(s) \/ Drained(s)

CallStep ==
    \/ ExecFails \/ Spawned \/ Attached \/ ReadReturns \/ Returns
    \/ \E s \in Session :
          \/ \E tty \in BOOLEAN : ExecStarts(s, tty)
          \/ StdinStarts(s) \/ FinalPoll(s) \/ LateWrite(s)

CancelStep == RequestStop \/ DeliverCancel \/ Terminated \/ Unwind \/ EndTurn \/ NextTurn

CloseStep == Close \/ AcloseStarts \/ AcloseGoesOn \/ \E s \in Session : TaskCloses(s)

Next == CallStep \/ CancelStep \/ CloseStep \/ \E s \in Session : ProcessStep(s)

Spec == Init /\ [][Next]_vars

(* The spawn and the attachment of a process return, and an armed timer fires. *)
(* Nothing else is needed to end a process: no call, cancellation or close is  *)
(* taken to happen.                                                            *)
FairSpec ==
    /\ Spec
    /\ WF_vars(Spawned \/ Attached \/ ExecFails)
    /\ \A s \in Session : WF_vars(TimerFires(s))

-----------------------------------------------------------------------------
(* Properties. *)

(* The model is given every chunk of output at most once and in order, whether *)
(* a poll, the exit, the final poll or the retirement of the session brings it *)
(* (_take_pending, _terminal_result, _drop_session).                           *)
CollectedOnce ==
    \A s \in Session : \A i, j \in DOMAIN delivered[s] :
        i < j => delivered[s][i] < delivered[s][j]

Quiet == aclose.phase = "returned" /\ ~turn.open /\ call.pc = "idle" /\ closing = {}

Alive == {s \in Session : session[s].process = "alive"}

(* When aclose has returned, the Turn has unwound and the cleanup tasks are     *)
(* done, no process runs, even one that was being spawned while the manager     *)
(* closed, except those abandoned by a cancellation inside start_session's PTY  *)
(* attachment or inside close().                                                *)
NoOrphan == Quiet => Alive \subseteq abandoned

(* A session of another Turn leaves the registry only because its process was  *)
(* seen to exit or because the manager closes: no cancellation of a later Turn *)
(* that polls it, nor that Turn's own cleanup, ends it (cancel_active,          *)
(* write_stdin's CancelledError handler).                                       *)
SurvivesOtherTurns ==
    [][\A s \in active : session[s].owner # turn.number /\ s \notin active'
           => closed' \/ ~Running(s)]_vars

(* Every process ends, even one whose close() was cancelled half-way: its      *)
(* timeout is still armed.  Only a PTY process abandoned before it had a        *)
(* session has no timer.                                                        *)
EveryProcessEnds ==
    \A s \in Session :
        session[s].process = "alive"
            ~> \/ session[s].process = "dead"
               \/ session[s].watcher = "none" /\ s \in abandoned

=============================================================================
