---------------------------- MODULE EventStream ----------------------------
(* The events of one Thread on their way to one browser page: the EventBuffer  *)
(* with its durable sink and its reserved sequences, the SSE connection        *)
(* (EventSubscription and EventStreamAdapter._stream_realtime), and the page   *)
(* (ThreadEventClient and the event reducer).                                  *)
(*                                                                             *)
(* What a Snapshot shows is the set of semantic events the Runtime has         *)
(* applied; transient model deltas are events that no Snapshot and no restart  *)
(* brings back.  Event ids are uuid4 in the code; here they count up, so       *)
(* that a cursor can be compared with an event.  A null cursor is 0.           *)
EXTENDS Naturals, Sequences, SequencesExt, FiniteSetsExt

CONSTANTS Capacity,         \* event_buffer_capacity
          Reservation,      \* sequence_reservation_size
          MaxEvents,        \* bound: events ever emitted
          MaxLost,          \* bound: semantic events whose commit fails
          MaxCrashes,       \* bound: restarts of the Host
          MaxFailures,      \* bound: host failures that TurnTaskManager records
          MaxDrops,         \* bound: connections that break
          MaxToggles,       \* bound: submissions that begin or end
          Window            \* bound: frames on their way to the page

ASSUME StreamBounds ==
    /\ {Capacity, Reservation, Window} \subseteq Nat \ {0}
    /\ {MaxEvents, MaxLost, MaxCrashes, MaxFailures, MaxDrops, MaxToggles} \subseteq Nat

VARIABLES up,               \* the Host runs
          log,              \* events this process knows, in append order
          durable,          \* thread_events in the store
          sequence,         \* _thread_sequence
          watermark,        \* _sequence_watermark
          stored,           \* event_sequence in the store
          highest,          \* the greatest sequence any event ever had
          failure,          \* the last host failure of the Thread
          conn,             \* the server's side of the SSE connection
          frames,           \* SSE frames on their way
          link,             \* the page's side of it
          cursor,           \* ThreadEventClient.cursor
          mounted,          \* initialCursor of the view
          shown, seen,      \* the reducer's state: events displayed, seen_event_ids
          repeated,         \* events displayed twice
          answer,           \* the Thread view that recover() brings
          used              \* how much of each bound is used up

server == <<up, log, durable, sequence, watermark, stored, highest, failure>>
page == <<link, cursor, mounted, shown, seen, repeated, answer>>
eventVars == <<server, conn, frames, page, used>>

Null == 0
Ids(events) == {e.id : e \in events}
Semantic(events) == {e.id : e \in {x \in ToSet(events) : x.semantic}}
NoView == [cursor |-> Null, shown |-> {}]
NoFailure == 0
Closed == [pc |-> "closed", cursor |-> Null, sub |-> Null, arg |-> Null, task |-> "none",
           batch |-> <<>>, expired |-> FALSE, reported |-> NoFailure]
Unused == [events |-> 0, lost |-> 0, crashes |-> 0, failures |-> 0, drops |-> 0, toggles |-> 0]

(* The page is mounted on a Thread that is new or has one event. *)
EventsInit ==
    /\ \E old \in {<<>>, <<[id |-> 1, seq |-> 1, semantic |-> TRUE]>>} :
         /\ log = old /\ durable = old
         /\ sequence = Len(old) /\ watermark = Len(old) /\ stored = Len(old)
         /\ highest = Len(old) /\ mounted = Len(old) /\ cursor = Len(old)
         /\ shown = Semantic(old) /\ used = [Unused EXCEPT !.events = Len(old)]
    /\ up = TRUE /\ failure = NoFailure /\ conn = Closed /\ frames = <<>>
    /\ link = "opening" /\ seen = {} /\ repeated = {} /\ answer = NoView
-----------------------------------------------------------------------------
(* EventBuffer. *)
Buffer == SubSeq(log, Max({1, Len(log) - Capacity + 1}), Len(log))

Read(after) ==
    IF after # Null /\ after \notin Ids(ToSet(Buffer))
      THEN [events |-> <<>>, expired |-> TRUE]
      ELSE [events |-> SelectSeq(Buffer, LAMBDA e : e.id > after), expired |-> FALSE]

(* Fault: the watermark is raised in memory only. *)
ReserveInMemory ==
    /\ sequence' = sequence + 1
    /\ watermark' = IF sequence >= watermark THEN sequence + Reservation ELSE watermark
    /\ UNCHANGED stored

(* next_sequence: a range is reserved durably before its first use; when the  *)
(* checkpoint fails nothing changes.                                         *)
Reserve ==
    /\ sequence' = sequence + 1
    /\ watermark' = IF sequence >= watermark THEN sequence + Reservation ELSE watermark
    /\ stored' = IF sequence >= watermark THEN watermark' ELSE stored

(* Fault: only the first event of a Thread wakes its subscribers. *)
WakeOnce ==
    conn' = IF conn.task = "asleep" /\ log = <<>> THEN [conn EXCEPT !.task = "woken"] ELSE conn

(* _notify wakes the subscribers that wait; a read that has not begun looks at *)
(* the buffer first.                                                          *)
Wake == conn' = IF conn.task = "asleep" THEN [conn EXCEPT !.task = "woken"] ELSE conn

(* append: the event is in the buffer before the sink commits it, and the      *)
(* subscribers are woken after that.                                          *)
Emit(semantic) ==
    /\ up /\ used.events < MaxEvents /\ Reserve
    /\ LET event == [id |-> used.events + 1, seq |-> sequence', semantic |-> semantic] IN
         /\ log' = Append(log, event)
         /\ highest' = Max({highest, event.seq})
         /\ \/ /\ durable' = IF semantic THEN Append(durable, event) ELSE durable
               /\ used' = [used EXCEPT !.events = @ + 1]
               /\ Wake
            \/ /\ semantic /\ used.lost < MaxLost
               /\ used' = [used EXCEPT !.events = @ + 1, !.lost = @ + 1]
               /\ UNCHANGED <<durable, conn>>
    /\ UNCHANGED <<up, failure, frames, page>>

(* TurnTaskManager records a failure, and forgets it at the next start. *)
HostFails ==
    /\ up /\ used.failures < MaxFailures
    /\ used' = [used EXCEPT !.failures = @ + 1] /\ failure' = used.failures + 1
    /\ UNCHANGED <<up, log, durable, sequence, watermark, stored, highest, conn, frames, page>>

FailureCleared ==
    /\ up /\ failure # NoFailure /\ failure' = NoFailure
    /\ UNCHANGED <<up, log, durable, sequence, watermark, stored, highest, conn, frames, page, used>>

Crash ==
    /\ up /\ used.crashes < MaxCrashes /\ up' = FALSE
    /\ used' = [used EXCEPT !.crashes = @ + 1]
    /\ conn' = Closed /\ failure' = NoFailure
    /\ UNCHANGED <<log, durable, sequence, watermark, stored, highest, frames, page>>

(* The buffer is rebuilt from the durable events and the stored watermark. *)
Restart ==
    /\ ~up /\ up' = TRUE
    /\ log' = durable
    /\ sequence' = Max({stored} \cup {e.seq : e \in ToSet(durable)})
    /\ watermark' = sequence'
    /\ UNCHANGED <<durable, stored, highest, failure, conn, frames, page, used>>
-----------------------------------------------------------------------------
(* The Thread view: Snapshot and cursor are read without an await between.     *)
View == [cursor |-> IF log = <<>> THEN Null ELSE Last(log).id, shown |-> Semantic(log)]

SnapshotFrame == [kind |-> "snapshot", id |-> View.cursor, semantic |-> FALSE, shown |-> View.shown]
EventFrame(e) == [kind |-> "event", id |-> e.id, semantic |-> e.semantic, shown |-> {}]

(* The generator yields a frame once the connection takes it. *)
Put(frame) == Len(frames) < Window /\ frames' = Append(frames, frame)

(* EventSubscription.read: a null cursor leaves the last one in place. *)
TaskReads ==
    /\ conn.task \in {"created", "woken"}
    /\ LET after == IF conn.task = "created" /\ conn.arg # Null THEN conn.arg ELSE conn.sub
           batch == Read(after) IN
         conn' = [conn EXCEPT !.sub = after, !.batch = batch.events, !.expired = batch.expired,
                    !.task = IF batch.events # <<>> \/ batch.expired THEN "done" ELSE "asleep"]
    /\ UNCHANGED <<server, frames, page, used>>

(* The generator meets an expired cursor. *)
RecoverInStream ==
    /\ conn.pc = "waiting" /\ conn.task = "done" /\ conn.expired
    /\ Put(SnapshotFrame)
    /\ conn' = [conn EXCEPT !.pc = "sending", !.cursor = View.cursor, !.reported = failure,
                            !.batch = <<>>]
    /\ UNCHANGED <<server, page, used>>

(* It yields the events of a batch one by one; others run in between. *)
SendEvent ==
    /\ \/ conn.pc = "waiting" /\ conn.task = "done" /\ ~conn.expired
       \/ conn.pc = "sending"
    /\ conn.batch # <<>>
    /\ Put(EventFrame(Head(conn.batch)))
    /\ conn' = [conn EXCEPT !.pc = "sending", !.cursor = Head(conn.batch).id, !.batch = Tail(@)]
    /\ UNCHANGED <<server, page, used>>

(* Then it starts the next read and looks for a new host failure.              *)
NextBatch ==
    /\ conn.pc = "sending" /\ conn.batch = <<>>
    /\ IF failure # NoFailure /\ failure # conn.reported
         THEN /\ Put(SnapshotFrame)
              /\ conn' = [conn EXCEPT !.pc = "waiting", !.task = "created", !.arg = conn.cursor,
                                      !.cursor = View.cursor, !.reported = failure]
         ELSE /\ conn' = [conn EXCEPT !.pc = "waiting", !.task = "created", !.arg = conn.cursor,
                            !.reported = IF failure = NoFailure THEN NoFailure ELSE @]
              /\ UNCHANGED frames
    /\ UNCHANGED <<server, page, used>>
-----------------------------------------------------------------------------

(* The page. Opening an EventSource: the server subscribes after its cursor.  *)
Open ==
    /\ link = "opening"
    /\ IF up
         THEN /\ link' = "open"
              /\ conn' = [Closed EXCEPT !.pc = "waiting", !.task = "created",
                                        !.cursor = cursor, !.sub = cursor, !.arg = cursor]
         ELSE link' = "recovering" /\ UNCHANGED conn
    /\ frames' = <<>>
    /\ UNCHANGED <<server, cursor, mounted, shown, seen, repeated, answer, used>>

(* hydrateThread. *)
Hydrate(view) == cursor' = view.cursor /\ shown' = view.shown /\ seen' = {} /\ repeated' = {}

(* applyAgentEvent drops an event id it has seen since the last Snapshot.      *)
ApplyEvent(frame) ==
    /\ cursor' = frame.id /\ seen' = seen \cup {frame.id}
    /\ IF frame.semantic /\ frame.id \notin seen
         THEN /\ shown' = shown \cup {frame.id}
              /\ repeated' = repeated \cup (shown \cap {frame.id})
         ELSE UNCHANGED <<shown, repeated>>

Receive ==
    /\ link = "open" /\ frames # <<>> /\ frames' = Tail(frames)
    /\ LET frame == Head(frames) IN
         IF frame.kind = "snapshot" THEN Hydrate([cursor |-> frame.id, shown |-> frame.shown])
                                    ELSE ApplyEvent(frame)
    /\ UNCHANGED <<server, conn, link, mounted, answer, used>>

(* onerror: the source is closed, and what it still delivers is ignored. *)
Disconnect ==
    /\ link' = "recovering" /\ frames' = <<>> /\ conn' = Closed
    /\ UNCHANGED <<server, cursor, mounted, shown, seen, repeated, answer>>

ConnectionDrops ==
    /\ link = "open" /\ used.drops < MaxDrops
    /\ used' = [used EXCEPT !.drops = @ + 1] /\ Disconnect

ConnectionDies == link = "open" /\ conn = Closed /\ UNCHANGED used /\ Disconnect

(* recoverThenReconnect: the view is read, and arrives later; then the timer.  *)
RecoverAnswers ==
    /\ link = "recovering"
    /\ IF up THEN link' = "answered" /\ answer' = View
             ELSE link' = "opening" /\ UNCHANGED answer
    /\ UNCHANGED <<server, conn, frames, cursor, mounted, shown, seen, repeated, used>>

Recovered ==
    /\ link = "answered" /\ link' = "opening" /\ answer' = NoView /\ Hydrate(answer)
    /\ UNCHANGED <<server, conn, frames, mounted, used>>

(* The effect runs again when a submission begins or ends: a new client takes  *)
(* the cursor the view was mounted with, the reducer's state stays.           *)
Resubscribe ==
    /\ used.toggles < MaxToggles /\ used' = [used EXCEPT !.toggles = @ + 1]
    /\ link' = "opening" /\ cursor' = mounted /\ conn' = Closed /\ frames' = <<>>
    /\ answer' = NoView
    /\ UNCHANGED <<server, mounted, shown, seen, repeated>>

StreamStep == TaskReads \/ RecoverInStream \/ SendEvent \/ NextBatch
PageStep == Open \/ Receive \/ ConnectionDies \/ RecoverAnswers \/ Recovered

EventsNext ==
    \/ \E semantic \in BOOLEAN : Emit(semantic)
    \/ HostFails \/ FailureCleared \/ Crash \/ Restart
    \/ StreamStep \/ PageStep
    \/ ConnectionDrops \/ Resubscribe

EventsSpec == EventsInit /\ [][EventsNext]_eventVars

(* The event loop and the browser run what is ready, and a Host that crashed   *)
(* is started again.  Nothing else is forced.                                 *)
FairSpec == EventsSpec /\ WF_eventVars(StreamStep) /\ WF_eventVars(PageStep) /\ WF_eventVars(Restart)
-----------------------------------------------------------------------------
BufferedEvent == [id : 1..MaxEvents, seq : Nat, semantic : BOOLEAN]
Cursor == 0..MaxEvents

(* The state is well typed, and buffered frames stay within their window. *)
EventsTypeOK ==
    /\ up \in BOOLEAN /\ log \in Seq(BufferedEvent) /\ durable \in Seq(BufferedEvent)
    /\ {sequence, watermark, stored, highest} \subseteq Nat /\ failure \in 0..MaxFailures
    /\ conn \in [pc : {"closed", "waiting", "sending"}, cursor : Cursor, sub : Cursor,
                 arg : Cursor, task : {"none", "created", "asleep", "woken", "done"},
                 batch : Seq(BufferedEvent), expired : BOOLEAN, reported : 0..MaxFailures]
    /\ frames \in Seq([kind : {"snapshot", "event"}, id : Cursor, semantic : BOOLEAN,
                       shown : SUBSET (1..MaxEvents)])
    /\ Len(frames) <= Window
    /\ link \in {"opening", "open", "recovering", "answered"}
    /\ {cursor, mounted} \subseteq Cursor
    /\ shown \subseteq 1..MaxEvents /\ seen \subseteq 1..MaxEvents /\ repeated \subseteq shown
    /\ answer \in [cursor : Cursor, shown : SUBSET (1..MaxEvents)]
    /\ used \in [events : 0..MaxEvents, lost : 0..MaxLost, crashes : 0..MaxCrashes,
                 failures : 0..MaxFailures, drops : 0..MaxDrops, toggles : 0..MaxToggles]

(* A page that was mounted on an empty Thread has no cursor that could expire: *)
(* the code promises it only what the buffer retains.                         *)
Covered == mounted # Null \/ used.events <= Capacity

(* Comment in the code: "a crash after a transient delta cannot cause sequence *)
(* reuse". Every new event has a greater sequence than any earlier one.       *)
SequencesGrow == [][used'.events > used.events => Last(log').seq > highest]_eventVars

(* In the end the page shows every event that was committed.                   *)
CatchesUp == <>[](Covered => Semantic(durable) \subseteq shown)

(* Docs: "recovery races do not duplicate messages or tool cards".             *)
NothingRepeated == repeated = {}
=============================================================================
