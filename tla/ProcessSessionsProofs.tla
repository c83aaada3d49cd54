------------------------ MODULE ProcessSessionsProofs ------------------------
(***************************************************************************)
(* The sessions of a ProcessManager (ProcessSessions), for any number of     *)
(* sessions, Turns, cancellations and chunks: output is given to the model   *)
(* at most once and in order, a later Turn cannot take a session away, and a *)
(* close leaves no process but those whose owner was cancelled.             *)
(***************************************************************************)
EXTENDS ProcessSessions, SequenceTheorems, TLAPS

(* The counters of a session are in order; who has seen the exit is right.     *)
Sound(r) ==
    /\ r \in SessionRecord
    /\ r.final <= r.taken /\ r.taken <= r.read /\ r.read <= r.written
    /\ r.watcher \in {"draining", "done"} => r.process = "dead"
    /\ r.watcher = "waiting" => r.process # "none"

(* What the steps of a process and of its tasks, or a kill, make of a session. *)
Advances(r, q) ==
    /\ Sound(q)
    /\ q.taken = r.taken /\ q.final = r.final /\ q.owner = r.owner
    /\ q.watcher = r.watcher \/ (r.watcher = "waiting" /\ q.watcher = "draining")
    /\ q.process = r.process \/ (r.process = "alive" /\ q.process = "dead")

Increasing(q) == \A i, j \in DOMAIN q : i < j => q[i] < q[j]
Below(q, n) == \A i \in DOMAIN q : q[i] <= n
Before(q, p) == \A i \in DOMAIN q, j \in DOMAIN p : q[i] < p[j]

SessionsInv ==
    /\ session \in [Session -> SessionRecord]
    /\ \A s \in Session : Sound(session[s])

(* Both registries and the cleanup tasks name sessions of their stage. *)
RegistryInv ==
    /\ exited \in Seq(Session) /\ IsInjective(exited) /\ Len(exited) <= Retention
    /\ active \subseteq Session /\ closing \subseteq Session /\ closed \in BOOLEAN
    /\ \A s \in active : session[s].watcher \in {"waiting", "draining"}
    /\ \A s \in Range(exited) : session[s].watcher = "done"
    /\ \A s \in closing : session[s].watcher # "none"

(* The session of the call in progress is as far as the call is. *)
CallInv ==
    /\ call \in CallRecord /\ abandoned \subseteq Session
    /\ call.pc # "idle" => call.id \in Session
    /\ call.pc = "spawning" => session[call.id].process = "none"
    /\ call.pc \in {"spawning", "attaching"} => session[call.id].watcher = "none"
    /\ call.pc = "reading" => /\ session[call.id].watcher # "none"
                              /\ call.exec => session[call.id].owner = turn.number
    /\ call.pc = "returning" => /\ call.id \notin active \cup Range(exited)
                                /\ session[call.id].watcher \in {"draining", "done"}

(* Whoever can still deliver output of a session goes on after what the model   *)
(* has been given of it.                                                      *)
GivenInv ==
    /\ DOMAIN delivered = Session
    /\ \A s \in Session : /\ delivered[s] \in Seq(1 .. MaxChunks)
                          /\ Increasing(delivered[s])
                          /\ Below(delivered[s], session[s].taken)
FinalInv == \A s \in Range(exited) : Below(delivered[s], session[s].final)
ReadingInv ==
    call.pc = "reading" /\ session[call.id].watcher = "done" =>
        Below(delivered[call.id], session[call.id].final)
ReturningInv ==
    call.pc = "returning" =>
        /\ call.out \in Seq(1 .. MaxChunks) /\ Increasing(call.out)
        /\ Before(delivered[call.id], call.out) /\ Below(call.out, session[call.id].taken)
OutputInv == GivenInv /\ FinalInv /\ ReadingInv /\ ReturningInv

(* A cancellation is on its way until the call unwinds; a closed manager has    *)
(* only sessions of a Turn that will unwind.                                  *)
TurnInv ==
    /\ turn \in [number : Turn, open : BOOLEAN, stops : 0 .. MaxStops, pending : 0 .. MaxStops]
    /\ turn.pending <= turn.stops
    /\ ~turn.open => call.pc = "idle"
    /\ turn.open /\ turn.stops > 0 => turn.pending > 0 \/ call.pc \in {"unwinding", "terminating"}
    /\ closed => /\ \A s \in active : session[s].owner = turn.number
                 /\ turn.open => turn.stops > 0
                 /\ ~turn.open => active = {}
    /\ aclose \in [phase : {"none", "closing", "draining", "returned"}, waits : SUBSET Session]
    /\ aclose.phase # "none" => closed

(* Somebody will kill, or has given up, every process that runs. *)
Kept(s) == s \in active \cup closing
           \/ (call.pc \in {"attaching", "terminating"} /\ call.id = s)
AliveInv == \A s \in Session : session[s].process = "alive" => s \in abandoned \/ Kept(s)

Inv == SessionsInv /\ RegistryInv /\ CallInv /\ OutputInv /\ TurnInv /\ AliveInv
-----------------------------------------------------------------------------
(* A kill and the end of the tasks advance a session. *)
LEMMA KilledAdvances ==
    ASSUME NEW r, Sound(r)
    PROVE  /\ Advances(r, r) /\ Advances(r, Killed(r)) /\ Killed(r).process # "alive"
           /\ Advances(r, Stopped(r)) /\ Advances(r, Stopped(Killed(r)))
           /\ Stopped(r).process = r.process /\ Stopped(Killed(r)).process # "alive"
           /\ Stopped(r).watcher = r.watcher /\ Stopped(Killed(r)).watcher = r.watcher
<1>1. \A q : Sound(q) => /\ Advances(q, q) /\ Advances(q, Killed(q)) /\ Killed(q).process # "alive"
                         /\ Killed(q).watcher = q.watcher
  BY DEF Sound, Advances, Killed, SessionRecord
<1>2. \A q : Sound(q) => /\ Advances(q, Stopped(q)) /\ Stopped(q).process = q.process
                         /\ Stopped(q).watcher = q.watcher
  BY DEF Sound, Advances, Stopped, SessionRecord
<1>3. Sound(Killed(r)) /\ Killed(r).watcher = r.watcher
  BY <1>1 DEF Advances
<1>4. Advances(r, Stopped(Killed(r)))
  BY <1>1, <1>2, <1>3 DEF Advances
<1>5. QED
  BY <1>1, <1>2, <1>3, <1>4

(* Removing a session from the completed ones. *)
LEMMA WithoutOne ==
    ASSUME exited \in Seq(Session), IsInjective(exited), NEW s
    PROVE  /\ Without(s) \in Seq(Session) /\ IsInjective(Without(s))
           /\ Range(Without(s)) = Range(exited) \ {s} /\ Len(Without(s)) <= Len(exited)
<1> DEFINE n == Len(exited)
<1>1. n \in Nat /\ DOMAIN exited = 1 .. n
  OBVIOUS
<1>2. CASE s \notin Range(exited)
  BY <1>1, <1>2 DEF Without
<1>3. CASE s \in Range(exited)
  <2> DEFINE k == CHOOSE i \in DOMAIN exited : exited[i] = s
             q == RemoveAt(exited, k)
  <2>1. k \in 1 .. n /\ exited[k] = s
    BY <1>1, <1>3 DEF Range
  <2>2. Without(s) = q
    BY <1>3 DEF Without
  <2> HIDE DEF k
  <2>3. q \in Seq(Session) /\ Len(q) = n - 1
        /\ \A j \in 1 .. n - 1 : q[j] = IF j < k THEN exited[j] ELSE exited[j + 1]
    <3> DEFINE front == SubSeq(exited, 1, k - 1)
               back == SubSeq(exited, k + 1, n)
    <3>1. front \in Seq(Session) /\ Len(front) = k - 1 /\ \A j \in 1 .. k - 1 : front[j] = exited[j]
      BY <1>1, <2>1
    <3>2. back \in Seq(Session) /\ Len(back) = n - k
          /\ \A j \in 1 .. n - k : back[j] = exited[k + j]
      <4>1. k + 1 \in Int /\ n \in Int /\ \A i \in k + 1 .. n : exited[i] \in Session
        BY <1>1, <2>1
      <4>2. /\ back \in Seq(Session) /\ Len(back) = IF k + 1 <= n THEN n - (k + 1) + 1 ELSE 0
            /\ \A j \in 1 .. n - (k + 1) + 1 : back[j] = exited[(k + 1) + j - 1]
        BY <4>1, SubSeqProperties
      <4>3. n - (k + 1) + 1 = n - k /\ \A j \in 1 .. n - k : (k + 1) + j - 1 = k + j
        BY <1>1, <2>1
      <4> HIDE DEF back
      <4>4. ASSUME NEW j \in 1 .. n - k PROVE back[j] = exited[k + j]
        BY <4>2, <4>3
      <4>5. Len(back) = n - k
        BY <1>1, <2>1, <4>2
      <4>6. QED
        BY <4>2, <4>4, <4>5
    <3>3. q = front \o back
      BY DEF RemoveAt
    <3> HIDE DEF front, back, q
    <3>4. front \o back \in Seq(Session) /\ Len(front \o back) = n - 1
          /\ \A j \in 1 .. n - 1 :
                (front \o back)[j] = IF j <= k - 1 THEN front[j] ELSE back[j - (k - 1)]
      <4>1. /\ front \o back \in Seq(Session) /\ Len(front \o back) = Len(front) + Len(back)
            /\ \A j \in 1 .. Len(front) + Len(back) :
                  (front \o back)[j] = IF j <= Len(front) THEN front[j] ELSE back[j - Len(front)]
        BY <3>1, <3>2, ConcatProperties
      <4>2. Len(front) + Len(back) = n - 1 /\ Len(front) = k - 1
        BY <1>1, <2>1, <3>1, <3>2
      <4>3. QED
        BY <4>1, <4>2
    <3>5. ASSUME NEW j \in 1 .. n - 1, ~(j <= k - 1) PROVE back[j - (k - 1)] = exited[j + 1]
      <4>1. j - (k - 1) \in 1 .. n - k /\ k + (j - (k - 1)) = j + 1
        BY <1>1, <2>1, <3>5
      <4>2. QED
        BY <3>2, <4>1
    <3>6. ASSUME NEW j \in 1 .. n - 1 PROVE q[j] = IF j < k THEN exited[j] ELSE exited[j + 1]
      <4>1. CASE j <= k - 1
        BY <1>1, <2>1, <3>1, <3>3, <3>4, <4>1
      <4>2. CASE ~(j <= k - 1)
        BY <1>1, <2>1, <3>3, <3>4, <3>5, <4>2
      <4>3. QED
        BY <4>1, <4>2
    <3>7. QED
      BY <3>3, <3>4, <3>6
  <2> HIDE DEF q
  <2>4. DOMAIN q = 1 .. n - 1
    BY <1>1, <2>3
  <2>5. \A i, j \in 1 .. n : exited[i] = exited[j] => i = j
    BY <1>1 DEF IsInjective
  <2>6. IsInjective(q)
    <3> SUFFICES ASSUME NEW i \in 1 .. n - 1, NEW j \in 1 .. n - 1, q[i] = q[j] PROVE i = j
      BY <2>4 DEF IsInjective
    <3>1. QED
      BY <1>1, <2>1, <2>3, <2>5
  <2>7. Range(q) = Range(exited) \ {s}
    <3>1. Range(q) = {q[j] : j \in 1 .. n - 1} /\ Range(exited) = {exited[j] : j \in 1 .. n}
      BY <1>1, <2>4 DEF Range
    <3>2. ASSUME NEW j \in 1 .. n - 1 PROVE q[j] \in {exited[i] : i \in 1 .. n} \ {s}
      BY <1>1, <2>1, <2>3, <2>5
    <3>3. ASSUME NEW i \in 1 .. n, exited[i] # s PROVE \E j \in 1 .. n - 1 : q[j] = exited[i]
      <4>1. CASE i < k
        BY <1>1, <2>1, <2>3, <4>1
      <4>2. CASE i > k
        <5>1. i - 1 \in 1 .. n - 1 /\ ~(i - 1 < k) /\ (i - 1) + 1 = i
          BY <1>1, <2>1, <4>2
        <5>2. q[i - 1] = exited[i]
          BY <2>3, <5>1
        <5>3. QED
          BY <5>1, <5>2
      <4>3. QED
        BY <2>1, <3>3, <4>1, <4>2
    <3>4. QED
      BY <3>1, <3>2, <3>3
  <2>8. QED
    BY <1>1, <2>2, <2>3, <2>6, <2>7
<1>4. QED
  BY <1>2, <1>3

(* Remembering a session evicts at most the oldest. *)
LEMMA Remembered ==
    ASSUME exited \in Seq(Session), IsInjective(exited), Len(exited) <= Retention,
           NEW s \in Session, Remember(s)
    PROVE  /\ exited' \in Seq(Session) /\ IsInjective(exited') /\ Len(exited') <= Retention
           /\ Range(exited') \subseteq Range(exited) \cup {s}
<1> DEFINE w == Without(s)
           kept == Append(w, s)
           n == Len(w)
<1>1. w \in Seq(Session) /\ IsInjective(w) /\ Range(w) = Range(exited) \ {s} /\ n <= Len(exited)
      /\ n \in Nat /\ DOMAIN w = 1 .. n /\ Len(exited) \in Nat /\ Retention \in Nat \ {0}
  BY WithoutOne, SessionLimits
<1>2. exited' = IF Len(kept) > Retention THEN Tail(kept) ELSE kept
  BY DEF Remember
<1> HIDE DEF w
<1>3. kept \in Seq(Session) /\ Len(kept) = n + 1 /\ DOMAIN kept = 1 .. n + 1
      /\ (\A j \in 1 .. n : kept[j] = w[j]) /\ kept[n + 1] = s
  BY <1>1
<1>4. \A i, j \in 1 .. n + 1 : kept[i] = kept[j] => i = j
  <2>1. \A i, j \in 1 .. n : w[i] = w[j] => i = j
    BY <1>1 DEF IsInjective
  <2>2. \A i \in 1 .. n : w[i] # s
    BY <1>1 DEF Range
  <2>3. \A i \in 1 .. n + 1 : i \in 1 .. n \/ i = n + 1
    BY <1>1
  <2> HIDE DEF kept
  <2>4. QED
    BY <1>3, <2>1, <2>2, <2>3
<1>5. \A i \in 1 .. n + 1 : kept[i] \in Range(exited) \cup {s}
  <2>1. \A i \in 1 .. n : w[i] \in Range(exited)
    BY <1>1 DEF Range
  <2>2. \A i \in 1 .. n + 1 : i \in 1 .. n \/ i = n + 1
    BY <1>1
  <2> HIDE DEF kept
  <2>3. QED
    BY <1>3, <2>1, <2>2
<1> HIDE DEF kept
<1>6. CASE Len(kept) > Retention
  <2>1. exited' \in Seq(Session) /\ Len(exited') = n /\ DOMAIN exited' = 1 .. n
        /\ \A j \in 1 .. n : exited'[j] = kept[j + 1]
    BY <1>1, <1>2, <1>3, <1>6
  <2>2. \A j \in 1 .. n : j + 1 \in 1 .. n + 1
    BY <1>1
  <2>3. \A i, j \in 1 .. n : i + 1 = j + 1 => i = j
    BY <1>1
  <2>4. IsInjective(exited')
    <3> SUFFICES ASSUME NEW i \in 1 .. n, NEW j \in 1 .. n, exited'[i] = exited'[j] PROVE i = j
      BY <2>1 DEF IsInjective
    <3>1. QED
      BY <1>4, <2>1, <2>2, <2>3
  <2>5. Range(exited') \subseteq Range(exited) \cup {s}
    BY <1>5, <2>1, <2>2 DEF Range
  <2>6. QED
    BY <1>1, <2>1, <2>4, <2>5
<1>7. CASE ~(Len(kept) > Retention)
  <2>1. exited' = kept /\ Len(kept) <= Retention
    BY <1>1, <1>2, <1>3, <1>7
  <2>2. IsInjective(exited') /\ Range(exited') \subseteq Range(exited) \cup {s}
    BY <1>3, <1>4, <1>5, <2>1 DEF IsInjective, Range
  <2>3. QED
    BY <1>3, <2>1, <2>2
<1>8. QED
  BY <1>6, <1>7
-----------------------------------------------------------------------------
(* A sequence of chunks consists of numbers. *)
LEMMA Elements ==
    ASSUME NEW q \in Seq(1 .. MaxChunks)
    PROVE  \A i \in DOMAIN q : q[i] \in 1 .. MaxChunks /\ q[i] \in Nat
<1>1. q \in [1 .. Len(q) -> 1 .. MaxChunks] /\ DOMAIN q = 1 .. Len(q)
  BY LenProperties
<1>2. MaxChunks \in Nat
  BY SessionLimits
<1>3. QED
  BY <1>1, <1>2

(* What is below a bound is below a larger one. *)
LEMMA BelowMore ==
    ASSUME NEW q \in Seq(1 .. MaxChunks), NEW m \in Nat, NEW n \in Nat, Below(q, m), m <= n
    PROVE  Below(q, n)
BY Elements DEF Below

(* Output joined to earlier output. *)
LEMMA Joined ==
    ASSUME NEW q \in Seq(1 .. MaxChunks), NEW p \in Seq(1 .. MaxChunks), NEW n \in Nat,
           Increasing(q), Increasing(p), Before(q, p), Below(q, n), Below(p, n)
    PROVE  q \o p \in Seq(1 .. MaxChunks) /\ Increasing(q \o p) /\ Below(q \o p, n)
<1> DEFINE r == q \o p
           k == Len(q)
           l == Len(p)
<1>1. k \in Nat /\ l \in Nat /\ DOMAIN q = 1 .. k /\ DOMAIN p = 1 .. l
  OBVIOUS
<1>2. r \in Seq(1 .. MaxChunks) /\ Len(r) = k + l
      /\ \A i \in 1 .. k + l : r[i] = IF i <= k THEN q[i] ELSE p[i - k]
  BY ConcatProperties
<1> HIDE DEF r
<1>3. DOMAIN r = 1 .. k + l
  BY <1>1, <1>2
<1>4. ASSUME NEW i \in 1 .. k + l
      PROVE  \/ i <= k /\ i \in DOMAIN q /\ r[i] = q[i]
             \/ ~(i <= k) /\ i - k \in DOMAIN p /\ r[i] = p[i - k]
  BY <1>1, <1>2
<1>5. Increasing(r)
  <2> SUFFICES ASSUME NEW i \in 1 .. k + l, NEW j \in 1 .. k + l, i < j PROVE r[i] < r[j]
    BY <1>3 DEF Increasing
  <2>1. CASE j <= k
    BY <1>1, <1>4, <2>1 DEF Increasing
  <2>2. CASE i <= k /\ ~(j <= k)
    BY <1>4, <2>2 DEF Before
  <2>3. CASE ~(i <= k)
    <3>1. ~(j <= k) /\ i - k < j - k
      BY <1>1, <2>3
    <3>2. QED
      BY <1>4, <2>3, <3>1 DEF Increasing
  <2>4. QED
    BY <2>1, <2>2, <2>3
<1>6. Below(r, n)
  BY <1>3, <1>4 DEF Below
<1>7. QED
  BY <1>2, <1>5, <1>6 DEF r

(* The output of a session follows what was taken before. *)
LEMMA OutputNext ==
    ASSUME NEW s \in Session, Sound(session[s])
    PROVE  LET r == session[s]
               first == IF r.watcher = "done" THEN r.final ELSE r.taken
               last == IF r.watcher = "done" THEN r.taken ELSE r.read
           IN  /\ Output(s) \in Seq(1 .. MaxChunks) /\ Increasing(Output(s))
               /\ Below(Output(s), last) /\ first \in Nat /\ last \in Nat /\ first <= last
               /\ \A q \in Seq(1 .. MaxChunks) : Below(q, first) => Before(q, Output(s))
<1> DEFINE r == session[s]
           first == IF r.watcher = "done" THEN r.final ELSE r.taken
           last == IF r.watcher = "done" THEN r.taken ELSE r.read
<1>1. first \in Nat /\ last \in 0 .. MaxChunks /\ first <= last /\ MaxChunks \in Nat
  BY SessionLimits DEF Sound, SessionRecord, Chunks
<1>2. Output(s) = [i \in 1 .. last - first |-> first + i]
  BY DEF Output
<1> HIDE DEF first, last
<1> DEFINE out == [i \in 1 .. last - first |-> first + i]
<1>3. out \in Seq(1 .. MaxChunks)
  <2>1. last - first \in Nat /\ \A i \in 1 .. last - first : first + i \in 1 .. MaxChunks
    BY <1>1
  <2> DEFINE n == last - first
  <2>2. out \in [1 .. n -> 1 .. MaxChunks]
    BY <2>1
  <2>3. n \in Nat
    BY <2>1
  <2> HIDE DEF n, out
  <2>4. QED
    BY <2>2, <2>3, SeqDef
<1>4. Increasing(out) /\ Below(out, last)
  BY <1>1 DEF Increasing, Below
<1>5. ASSUME NEW q \in Seq(1 .. MaxChunks), Below(q, first) PROVE Before(q, out)
  <2>1. \A i \in DOMAIN q : q[i] \in 1 .. MaxChunks /\ q[i] <= first
    BY <1>5, Elements DEF Below
  <2>2. QED
    BY <1>1, <2>1 DEF Before
<1>6. QED
  BY <1>1, <1>2, <1>3, <1>4, <1>5 DEF first, last

(* Nothing is delivered, and nobody starts to read what is complete.           *)
LEMMA OutputKept ==
    ASSUME SessionsInv, SessionsInv', OutputInv, delivered' = delivered,
           Range(exited) \subseteq Session, Range(exited') \subseteq Range(exited),
           \A s \in Session : /\ session'[s].taken >= session[s].taken
                              /\ session'[s].final = session[s].final
                              /\ session'[s].watcher = "done" => session[s].watcher = "done",
           call'.pc = "reading" =>
               /\ call'.id \in Session
               /\ \/ call.pc = "reading" /\ call'.id = call.id
                  \/ session'[call'.id].watcher # "done",
           call'.pc = "returning" => call' = call /\ call.id \in Session
    PROVE  OutputInv'
<1>1. \A s \in Session : session[s].taken \in Nat /\ session'[s].taken \in Nat
  BY SessionLimits DEF SessionsInv, SessionRecord, Chunks
<1>2. \A q \in Seq(1 .. MaxChunks), m, n \in Nat : Below(q, m) /\ m <= n => Below(q, n)
  BY BelowMore
<1>3. ASSUME NEW s \in Session
      PROVE  /\ delivered[s] \in Seq(1 .. MaxChunks) /\ Increasing(delivered[s])
             /\ Below(delivered[s], session'[s].taken)
  <2>1. delivered[s] \in Seq(1 .. MaxChunks) /\ Increasing(delivered[s])
        /\ Below(delivered[s], session[s].taken)
    BY DEF OutputInv, GivenInv, FinalInv, ReadingInv, ReturningInv
  <2>2. session[s].taken \in Nat /\ session'[s].taken \in Nat
        /\ session[s].taken <= session'[s].taken
    BY <1>1
  <2>3. QED
    BY <1>2, <2>1, <2>2
<1>4. \A s \in Range(exited') : Below(delivered[s], session'[s].final)
  BY DEF OutputInv, GivenInv, FinalInv, ReadingInv, ReturningInv
<1>5. ASSUME call'.pc = "reading", session'[call'.id].watcher = "done"
      PROVE  Below(delivered[call'.id], session'[call'.id].final)
  BY <1>5 DEF OutputInv, GivenInv, FinalInv, ReadingInv, ReturningInv
<1>6. ASSUME call'.pc = "returning"
      PROVE  /\ call'.out \in Seq(1 .. MaxChunks) /\ Increasing(call'.out)
             /\ Before(delivered[call'.id], call'.out) /\ Below(call'.out, session'[call'.id].taken)
  <2>1. call' = call /\ call.id \in Session
    BY <1>6
  <2>2. /\ call.out \in Seq(1 .. MaxChunks) /\ Increasing(call.out)
        /\ Before(delivered[call.id], call.out) /\ Below(call.out, session[call.id].taken)
    BY <1>6, <2>1 DEF OutputInv, GivenInv, FinalInv, ReadingInv, ReturningInv
  <2>3. session[call.id].taken \in Nat /\ session'[call.id].taken \in Nat
        /\ session[call.id].taken <= session'[call.id].taken
    BY <1>1, <2>1
  <2>4. Below(call.out, session'[call.id].taken)
    BY <1>2, <2>2, <2>3
  <2>5. QED
    BY <2>1, <2>2, <2>4
<1>7. GivenInv'
  <2>1. DOMAIN delivered' = Session
    BY DEF OutputInv, GivenInv
  <2>2. ASSUME NEW s \in Session
        PROVE  (/\ delivered[s] \in Seq(1 .. MaxChunks)
                /\ Increasing(delivered[s])
                /\ Below(delivered[s], session[s].taken))'
    BY <1>3 DEF Increasing, Below
  <2>3. QED
    BY <2>1, <2>2 DEF GivenInv
<1>8. FinalInv'
  BY <1>4 DEF FinalInv, Below
<1>9. ReadingInv'
  BY <1>5 DEF ReadingInv, Below
<1>10. ReturningInv'
  BY <1>6 DEF ReturningInv, Increasing, Below, Before
<1>11. QED
  BY <1>7, <1>8, <1>9, <1>10 DEF OutputInv

(* Sessions advance or are forgotten, and the call goes on, stops or ends: the  *)
(* registries, the call and the output stay right.                            *)
LEMMA Advanced ==
    ASSUME Inv, session' \in [Session -> SessionRecord],
           \A s \in Session : Advances(session[s], session'[s]),
           delivered' = delivered,
           exited' \in Seq(Session), IsInjective(exited'), Len(exited') <= Retention,
           Range(exited') \subseteq Range(exited),
           active' \subseteq active, closing' \subseteq closing \cup active, closed' \in BOOLEAN,
           call' \in CallRecord, abandoned' \subseteq Session,
           \/ call' = call \/ call'.pc = "idle"
           \/ call.pc # "idle" /\ call'.pc \in {"unwinding", "terminating"} /\ call'.id = call.id,
           turn'.number = turn.number \/ call'.pc = "idle"
    PROVE  SessionsInv' /\ RegistryInv' /\ CallInv' /\ OutputInv'
<1>1. SessionsInv'
  BY DEF Advances, SessionsInv
<1>2. RegistryInv'
  <2>1. active' \subseteq Session /\ closing' \subseteq Session
    BY DEF Inv, RegistryInv
  <2>2. \A s \in active' : session'[s].watcher \in {"waiting", "draining"}
    BY <2>1 DEF Inv, RegistryInv, Advances
  <2>3. Range(exited) \subseteq Session
    BY DEF Inv, RegistryInv, Range
  <2>4. \A s \in Range(exited') : session'[s].watcher = "done"
    BY <2>3 DEF Inv, RegistryInv, Advances
  <2>5. \A s \in closing' : session'[s].watcher # "none"
    BY <2>1 DEF Inv, RegistryInv, Advances
  <2>6. QED
    BY <2>1, <2>2, <2>4, <2>5 DEF RegistryInv
<1>3. CallInv'
  <2>1. CASE call' = call
    <3>1. ASSUME call.pc # "idle" PROVE call.id \in Session /\ turn'.number = turn.number
      BY <2>1, <3>1 DEF Inv, CallInv
    <3>2. QED
      BY <2>1, <3>1 DEF Inv, CallInv, Advances
  <2>2. CASE call' # call
    BY <2>2 DEF Inv, CallInv
  <2>3. QED
    BY <2>1, <2>2
<1>4. OutputInv'
  <2>1. Range(exited) \subseteq Session
    BY DEF Inv, RegistryInv, Range
  <2>2. ASSUME NEW s \in Session
        PROVE  /\ session'[s].taken >= session[s].taken
               /\ session'[s].final = session[s].final
               /\ session'[s].watcher = "done" => session[s].watcher = "done"
    <3>1. session[s].taken \in Nat
      BY SessionLimits DEF Inv, SessionsInv, SessionRecord, Chunks
    <3>2. Advances(session[s], session'[s])
      OBVIOUS
    <3>3. QED
      BY <3>1, <3>2 DEF Advances
  <2>3. call'.pc = "reading" =>
            /\ call'.id \in Session
            /\ \/ call.pc = "reading" /\ call'.id = call.id
               \/ session'[call'.id].watcher # "done"
    BY DEF Inv, CallInv
  <2>4. call'.pc = "returning" => call' = call /\ call.id \in Session
    BY DEF Inv, CallInv
  <2>5. SessionsInv /\ OutputInv
    BY DEF Inv
  <2>6. QED
    BY <1>1, <2>1, <2>2, <2>3, <2>4, <2>5, OutputKept
<1>5. QED
  BY <1>1, <1>2, <1>3, <1>4

(* One session advances. *)
LEMMA OneAdvances ==
    ASSUME SessionsInv, NEW s \in Session, NEW q, Advances(session[s], q),
           session' = [session EXCEPT ![s] = q]
    PROVE  /\ session' \in [Session -> SessionRecord]
           /\ \A t \in Session : Advances(session[t], session'[t])
           /\ session'[s] = q /\ \A t \in Session : t # s => session'[t] = session[t]
<1>1. q \in SessionRecord /\ session \in [Session -> SessionRecord]
  BY DEF Advances, Sound, SessionsInv
<1>2. session'[s] = q /\ (\A t \in Session : t # s => session'[t] = session[t])
      /\ session' \in [Session -> SessionRecord]
  BY <1>1
<1>3. \A t \in Session : Advances(session[t], session[t])
  BY KilledAdvances DEF SessionsInv
<1>4. QED
  BY <1>2, <1>3

(* Some running sessions are killed. *)
LEMMA SomeKilled ==
    ASSUME SessionsInv, NEW K,
           session' = [t \in Session |->
                          IF t \in K /\ Running(t) THEN Killed(session[t]) ELSE session[t]]
    PROVE  /\ session' \in [Session -> SessionRecord]
           /\ \A t \in Session : Advances(session[t], session'[t])
<1>1. \A t \in Session : session'[t] \in {session[t], Killed(session[t])}
  OBVIOUS
<1>2. \A t \in Session : Advances(session[t], session[t]) /\ Advances(session[t], Killed(session[t]))
  BY KilledAdvances DEF SessionsInv
<1>3. \A t \in Session : Advances(session[t], session'[t])
  BY <1>1, <1>2
<1>4. \A t \in Session : session'[t] \in SessionRecord
  BY <1>3 DEF Advances, Sound
<1>5. QED
  BY <1>3, <1>4

(* The steps of a process, its readers and its timers, and of a cleanup task. *)
LEMMA ProcessInv ==
    ASSUME Inv, NEW s \in Session,
           Writes(s) \/ Exits(s) \/ ReaderReads(s) \/ TimerFires(s) \/ Observes(s) \/ TaskCloses(s)
    PROVE  Inv'
<1> DEFINE r == session[s]
<1>1. Sound(r) /\ MaxChunks \in Nat
  BY SessionLimits DEF Inv, SessionsInv
<1>2. PICK q : /\ Advances(r, q) /\ session' = [session EXCEPT ![s] = q]
               /\ s \in closing /\ s \notin closing' => q.process # "alive"
  <2>1. CASE Writes(s)
    <3> DEFINE q == [r EXCEPT !.written = @ + 1]
    <3>1. \A x : Sound(x) /\ x.process = "alive" /\ x.written < MaxChunks
                    => Advances(x, [x EXCEPT !.written = @ + 1])
      BY <1>1 DEF Advances, Sound, SessionRecord, Chunks
    <3>2. Advances(r, q)
      BY <1>1, <2>1, <3>1 DEF Writes
    <3>3. session' = [session EXCEPT ![s] = q] /\ closing' = closing
      BY <2>1 DEF Writes, SessionStep
    <3>4. QED
      BY <3>2, <3>3
  <2>2. CASE Exits(s)
    <3> DEFINE q == [r EXCEPT !.process = "dead"]
    <3>1. \A x : Sound(x) /\ x.process = "alive" => Advances(x, [x EXCEPT !.process = "dead"])
      BY DEF Advances, Sound, SessionRecord
    <3>2. Advances(r, q)
      BY <1>1, <2>2, <3>1 DEF Exits
    <3>3. session' = [session EXCEPT ![s] = q] /\ closing' = closing
      BY <2>2 DEF Exits, SessionStep
    <3>4. QED
      BY <3>2, <3>3
  <2>3. CASE ReaderReads(s)
    <3> DEFINE q == [r EXCEPT !.read = @ + 1]
    <3>1. \A x : Sound(x) /\ x.read < x.written => Advances(x, [x EXCEPT !.read = @ + 1])
      BY <1>1 DEF Advances, Sound, SessionRecord, Chunks
    <3>2. Advances(r, q)
      BY <1>1, <2>3, <3>1 DEF ReaderReads
    <3>3. session' = [session EXCEPT ![s] = q] /\ closing' = closing
      BY <2>3 DEF ReaderReads, SessionStep
    <3>4. QED
      BY <3>2, <3>3
  <2>4. CASE TimerFires(s)
    <3> DEFINE k == Killed(r)
               q == [k EXCEPT !.timer = FALSE]
    <3>1. \A x : Sound(x) => /\ Sound([x EXCEPT !.timer = FALSE])
                             /\ [x EXCEPT !.timer = FALSE].taken = x.taken
                             /\ [x EXCEPT !.timer = FALSE].final = x.final
                             /\ [x EXCEPT !.timer = FALSE].owner = x.owner
                             /\ [x EXCEPT !.timer = FALSE].watcher = x.watcher
                             /\ [x EXCEPT !.timer = FALSE].process = x.process
      BY DEF Sound, SessionRecord
    <3>2. Advances(r, k) /\ Sound(k)
      BY <1>1, KilledAdvances DEF Advances
    <3> HIDE DEF k
    <3>3. Advances(r, q)
      BY <3>1, <3>2 DEF Advances
    <3>4. session' = [session EXCEPT ![s] = q] /\ closing' = closing
      BY <2>4 DEF TimerFires, SessionStep, k
    <3>5. QED
      BY <3>3, <3>4
  <2>5. CASE Observes(s)
    <3> DEFINE q == [r EXCEPT !.watcher = "draining"]
    <3>1. \A x : Sound(x) /\ x.watcher = "waiting" /\ x.process = "dead"
                    => Advances(x, [x EXCEPT !.watcher = "draining"])
      BY DEF Advances, Sound, SessionRecord
    <3>2. Advances(r, q)
      BY <1>1, <2>5, <3>1 DEF Observes, Running
    <3>3. session' = [session EXCEPT ![s] = q] /\ closing' = closing
      BY <2>5 DEF Observes, SessionStep
    <3>4. QED
      BY <3>2, <3>3
  <2>6. CASE TaskCloses(s)
    <3> DEFINE q == Stopped(IF Running(s) THEN Killed(r) ELSE r)
    <3>1. session' = [session EXCEPT ![s] = q]
      BY <2>6 DEF TaskCloses
    <3>2. r.watcher \in {"waiting", "draining", "done"}
      BY <1>1, <2>6 DEF TaskCloses, Inv, RegistryInv, Sound, SessionRecord
    <3>3. CASE Running(s)
      <4>1. q = Stopped(Killed(r))
        BY <3>3
      <4>2. QED
        BY <1>1, <3>1, <4>1, KilledAdvances
    <3>4. CASE ~Running(s)
      <4>1. q = Stopped(r) /\ r.process = "dead"
        BY <1>1, <3>2, <3>4 DEF Running, Sound
      <4>2. QED
        BY <1>1, <3>1, <4>1, KilledAdvances
    <3>5. QED
      BY <3>3, <3>4
  <2>7. QED
    BY <2>1, <2>2, <2>3, <2>4, <2>5, <2>6
<1>3. /\ session' \in [Session -> SessionRecord]
      /\ \A t \in Session : Advances(session[t], session'[t])
      /\ session'[s] = q /\ \A t \in Session : t # s => session'[t] = session[t]
  <2>1. SessionsInv /\ Advances(session[s], q) /\ session' = [session EXCEPT ![s] = q]
    BY <1>2 DEF Inv
  <2>2. QED
    BY <2>1, OneAdvances
<1>4. /\ UNCHANGED <<delivered, active, exited, closed, aclose, call, turn, abandoned>>
      /\ closing' \subseteq closing /\ closing \subseteq closing' \cup {s}
  BY DEF Writes, Exits, ReaderReads, TimerFires, Observes, TaskCloses, SessionStep
<1>5. SessionsInv' /\ RegistryInv' /\ CallInv' /\ OutputInv'
  <2>1. exited' \in Seq(Session) /\ IsInjective(exited') /\ Len(exited') <= Retention
        /\ Range(exited') \subseteq Range(exited) /\ active' \subseteq active
        /\ closing' \subseteq closing \cup active /\ closed' \in BOOLEAN
        /\ call' \in CallRecord /\ abandoned' \subseteq Session
    BY <1>4 DEF Inv, RegistryInv, CallInv
  <2>2. QED
    BY <1>3, <1>4, <2>1, Advanced
<1>6. TurnInv'
  <2>1. \A t \in active : session'[t].owner = session[t].owner
    BY <1>3 DEF Inv, RegistryInv, Advances
  <2>2. QED
    BY <1>4, <2>1 DEF Inv, TurnInv
<1>7. AliveInv'
  <2> SUFFICES ASSUME NEW t \in Session, session'[t].process = "alive"
               PROVE  t \in abandoned \/ t \in active \cup closing'
                      \/ (call.pc \in {"attaching", "terminating"} /\ call.id = t)
    BY <1>4 DEF AliveInv, Kept
  <2>1. session[t].process = "alive"
    BY <1>3 DEF Advances
  <2>2. t \in closing => t \in closing'
    <3>1. CASE t = s
      BY <1>2, <1>3, <3>1
    <3>2. CASE t # s
      BY <1>4, <3>2
    <3>3. QED
      BY <3>1, <3>2
  <2>3. QED
    BY <2>1, <2>2 DEF Inv, AliveInv, Kept
<1>8. QED
  BY <1>5, <1>6, <1>7 DEF Inv

(* The close of the manager, by close_thread or by aclose. *)
LEMMA CloseInv == ASSUME Inv, Close \/ AcloseStarts \/ AcloseGoesOn PROVE Inv'
<1>1. SessionsInv /\ \A t \in Session : Advances(session[t], session[t])
  BY KilledAdvances DEF Inv, SessionsInv
<1>2. /\ session' \in [Session -> SessionRecord]
      /\ \A t \in Session : Advances(session[t], session'[t])
  <2>1. CASE Close
    BY <1>1, <2>1, SomeKilled DEF Close
  <2>2. CASE AcloseStarts \/ AcloseGoesOn
    BY <1>1, <2>2 DEF AcloseStarts, AcloseGoesOn, SessionsInv
  <2>3. QED
    BY <2>1, <2>2
<1>3. /\ delivered' = delivered /\ call' = call /\ abandoned' = abandoned
      /\ active' \cup closing' = active \cup closing /\ closing' \subseteq closing \cup active
      /\ active' \subseteq active
      /\ exited' = exited \/ exited' = <<>>
      /\ closed' \in BOOLEAN /\ turn'.number = turn.number
  <2>1. CASE Close
    BY <2>1 DEF Close
  <2>2. CASE AcloseStarts
    BY <2>2 DEF AcloseStarts, Inv, TurnInv
  <2>3. CASE AcloseGoesOn
    BY <2>3 DEF AcloseGoesOn, Inv, RegistryInv
  <2>4. QED
    BY <2>1, <2>2, <2>3
<1>4. SessionsInv' /\ RegistryInv' /\ CallInv' /\ OutputInv'
  <2>1. Retention \in Nat
    BY SessionLimits
  <2>2. exited' \in Seq(Session) /\ IsInjective(exited') /\ Len(exited') <= Retention
        /\ Range(exited') \subseteq Range(exited)
    <3>1. CASE exited' = exited
      BY <3>1 DEF Inv, RegistryInv
    <3>2. CASE exited' = <<>>
      <4>1. exited' \in Seq(Session) /\ Len(exited') = 0 /\ DOMAIN exited' = {}
        BY <3>2
      <4>2. IsInjective(exited') /\ Range(exited') = {}
        BY <4>1 DEF IsInjective, Range
      <4>3. QED
        BY <2>1, <4>1, <4>2
    <3>3. QED
      BY <1>3, <3>1, <3>2
  <2>3. call' \in CallRecord /\ abandoned' \subseteq Session
    BY <1>3 DEF Inv, CallInv
  <2>4. QED
    BY <1>2, <1>3, <2>2, <2>3, Advanced
<1>5. TurnInv'
  <2>1. closing \subseteq Session /\ active \subseteq Session
    BY DEF Inv, RegistryInv
  <2>2. CASE Close
    BY <2>2 DEF Close, Inv, TurnInv
  <2>3. CASE AcloseStarts
    <3>1. /\ turn' \in [number : Turn, open : BOOLEAN, stops : 0 .. MaxStops, pending : 0 .. MaxStops]
          /\ turn'.pending <= turn'.stops /\ turn'.open = turn.open
          /\ turn.open => turn'.stops > 0
          /\ turn' = turn \/ turn'.pending > 0
      <4>1. MaxStops \in Nat \ {0} /\ MaxTurns \in Nat
        BY SessionLimits
      <4>2. turn \in [number : Turn, open : BOOLEAN, stops : 0 .. MaxStops, pending : 0 .. MaxStops]
            /\ turn.pending <= turn.stops
        BY DEF Inv, TurnInv
      <4>3. CASE turn.open /\ turn.stops = 0
        <5>1. turn' = [turn EXCEPT !.stops = 1, !.pending = 1]
          BY <2>3, <4>3 DEF AcloseStarts
        <5>2. turn' = [number |-> turn.number, open |-> turn.open, stops |-> 1, pending |-> 1]
          BY <4>2, <5>1
        <5>3. 1 \in 0 .. MaxStops
          BY <4>1
        <5>4. QED
          BY <4>2, <5>2, <5>3
      <4>4. CASE ~(turn.open /\ turn.stops = 0)
        <5>1. turn' = turn
          BY <2>3, <4>4 DEF AcloseStarts
        <5>2. QED
          BY <4>1, <4>2, <4>4, <5>1
      <4>5. QED
        BY <4>3, <4>4
    <3>2. /\ aclose' \in [phase : {"none", "closing", "draining", "returned"}, waits : SUBSET Session]
          /\ closed' = TRUE /\ active' = {} /\ call' = call
      BY <2>1, <2>3 DEF AcloseStarts
    <3>3. turn'.open /\ turn'.stops > 0 =>
              turn'.pending > 0 \/ call'.pc \in {"unwinding", "terminating"}
      BY <3>1, <3>2 DEF Inv, TurnInv
    <3>4. ~turn'.open => call'.pc = "idle"
      BY <3>1, <3>2 DEF Inv, TurnInv
    <3>5. QED
      BY <3>1, <3>2, <3>3, <3>4 DEF TurnInv
  <2>4. CASE AcloseGoesOn
    BY <2>1, <2>4 DEF AcloseGoesOn, Inv, TurnInv
  <2>5. QED
    BY <2>2, <2>3, <2>4
<1>6. AliveInv'
  <2> SUFFICES ASSUME NEW t \in Session, session'[t].process = "alive"
               PROVE  t \in abandoned \/ t \in active \cup closing
                      \/ (call.pc \in {"attaching", "terminating"} /\ call.id = t)
    BY <1>3 DEF AliveInv, Kept
  <2>1. session[t].process = "alive"
    BY <1>2 DEF Advances
  <2>2. QED
    BY <2>1 DEF Inv, AliveInv, Kept
<1>7. QED
  BY <1>4, <1>5, <1>6 DEF Inv

(* The call goes on to another await, or it is over. *)
LEMMA CallGoes ==
    ASSUME call \in CallRecord
    PROVE  /\ Idle \in CallRecord /\ Idle.pc = "idle"
           /\ \A p \in {"attaching", "reading", "terminating", "unwinding"} :
                 LET c == [call EXCEPT !.pc = p]
                 IN  c \in CallRecord /\ c.pc = p /\ c.id = call.id /\ c.exec = call.exec
<1>1. <<>> \in Seq(Nat)
  OBVIOUS
<1>2. QED
  BY <1>1 DEF CallRecord, Idle

(* A Turn is asked to stop, ends by itself, or follows another. *)
LEMMA TurnSteps == ASSUME Inv, RequestStop \/ EndTurn \/ NextTurn PROVE Inv'
<1>1. SessionsInv /\ \A t \in Session : Advances(session[t], session[t])
  BY KilledAdvances DEF Inv, SessionsInv
<1>2. /\ UNCHANGED <<session, delivered, active, exited, closed, closing, aclose, call, abandoned>>
      /\ turn'.number = turn.number \/ call'.pc = "idle"
  BY DEF RequestStop, EndTurn, NextTurn, Inv, TurnInv
<1>3. SessionsInv' /\ RegistryInv' /\ CallInv' /\ OutputInv'
  <2>1. /\ exited' \in Seq(Session) /\ IsInjective(exited') /\ Len(exited') <= Retention
        /\ Range(exited') \subseteq Range(exited) /\ active' \subseteq active
        /\ closing' \subseteq closing \cup active /\ closed' \in BOOLEAN
        /\ call' \in CallRecord /\ abandoned' \subseteq Session
    BY <1>2 DEF Inv, RegistryInv, CallInv
  <2>2. session' \in [Session -> SessionRecord]
        /\ \A t \in Session : Advances(session[t], session'[t])
    BY <1>1, <1>2 DEF SessionsInv
  <2>3. QED
    BY <1>2, <2>1, <2>2, Advanced
<1>4. TurnInv'
  <2>1. MaxStops \in Nat \ {0} /\ MaxTurns \in Nat \ {0}
    BY SessionLimits
  <2>2. turn \in [number : Turn, open : BOOLEAN, stops : 0 .. MaxStops, pending : 0 .. MaxStops]
        /\ turn.pending <= turn.stops
    BY DEF Inv, TurnInv
  <2>3. CASE RequestStop
    <3>1. turn' = [number |-> turn.number, open |-> TRUE,
                   stops |-> turn.stops + 1, pending |-> turn.pending + 1]
      BY <2>2, <2>3 DEF RequestStop
    <3>2. turn.stops + 1 \in 0 .. MaxStops /\ turn.pending + 1 \in 0 .. MaxStops
          /\ turn.pending + 1 <= turn.stops + 1 /\ turn.pending + 1 > 0
      BY <2>1, <2>2, <2>3 DEF RequestStop
    <3>3. /\ turn' \in [number : Turn, open : BOOLEAN, stops : 0 .. MaxStops, pending : 0 .. MaxStops]
          /\ turn'.pending <= turn'.stops /\ turn'.open /\ turn'.pending > 0
          /\ turn'.stops > 0 /\ turn'.number = turn.number
      BY <2>1, <2>2, <3>1, <3>2
    <3>4. closed => \A s \in active : session[s].owner = turn.number
      BY DEF Inv, TurnInv
    <3>5. aclose \in [phase : {"none", "closing", "draining", "returned"}, waits : SUBSET Session]
          /\ (aclose.phase # "none" => closed)
      BY DEF Inv, TurnInv
    <3>6. QED
      BY <1>2, <3>3, <3>4, <3>5 DEF TurnInv
  <2>4. CASE EndTurn
    <3>1. turn' = [number |-> turn.number, open |-> FALSE,
                   stops |-> turn.stops, pending |-> turn.pending]
      BY <2>2, <2>4 DEF EndTurn
    <3>2. ~closed /\ call.pc = "idle"
      BY <2>4 DEF Inv, TurnInv, EndTurn
    <3>3. QED
      BY <1>2, <2>2, <3>1, <3>2 DEF Inv, TurnInv
  <2>5. CASE NextTurn
    <3>1. turn' = [number |-> turn.number + 1, open |-> TRUE, stops |-> 0, pending |-> 0]
      BY <2>5 DEF NextTurn
    <3>2. turn.number + 1 \in Turn /\ 0 \in 0 .. MaxStops
      BY <2>1, <2>2, <2>5 DEF NextTurn, Turn
    <3>3. ~closed
      BY <2>5 DEF NextTurn
    <3>4. QED
      BY <1>2, <3>1, <3>2, <3>3 DEF Inv, TurnInv
  <2>6. QED
    BY <2>3, <2>4, <2>5
<1>5. AliveInv'
  BY <1>2 DEF Inv, AliveInv, Kept
<1>6. QED
  BY <1>3, <1>4, <1>5 DEF Inv

(* The cancellation reaches the call, which ends its session or unwinds. *)
LEMMA DeliverCancelInv == ASSUME Inv, DeliverCancel PROVE Inv'
<1> DEFINE s == call.id
<1>1. /\ s \in Session /\ Sound(session[s]) /\ turn.open /\ call \in CallRecord
      /\ exited \in Seq(Session) /\ IsInjective(exited)
      /\ turn.pending > 0 /\ call.pc # "idle"
  BY DEF DeliverCancel, Inv, CallInv, SessionsInv, TurnInv, RegistryInv
<1>2. turn' = [turn EXCEPT !.pending = @ - 1]
      /\ UNCHANGED <<delivered, closed, closing, aclose>>
  BY DEF DeliverCancel
<1>3. /\ Len(exited) \in Nat /\ Len(exited) <= Retention /\ Retention \in Nat
      /\ Without(s) \in Seq(Session) /\ IsInjective(Without(s))
      /\ Range(Without(s)) \subseteq Range(exited) /\ Len(Without(s)) <= Retention
  <2>1. Len(exited) \in Nat /\ Len(exited) <= Retention /\ Retention \in Nat
    BY <1>1, SessionLimits DEF Inv, RegistryInv
  <2>2. /\ Without(s) \in Seq(Session) /\ IsInjective(Without(s))
        /\ Range(Without(s)) = Range(exited) \ {s} /\ Len(Without(s)) <= Len(exited)
    BY <1>1, WithoutOne
  <2>3. Len(Without(s)) \in Nat
    BY <2>2
  <2>4. QED
    BY <2>1, <2>2, <2>3
<1>4. /\ session' \in {session, [session EXCEPT ![s] = Stopped(session[s])]}
      /\ active' \in {active, active \ {s}} /\ exited' \in {exited, Without(s)}
      /\ call' = [call EXCEPT !.pc = "unwinding"] \/ call' = [call EXCEPT !.pc = "terminating"]
      /\ abandoned \subseteq abandoned' /\ abandoned' \subseteq abandoned \cup {s}
      /\ s \in active /\ s \notin active' =>
             session[s].process # "alive" \/ call'.pc = "terminating"
      /\ call.pc \in {"attaching", "terminating"} => s \in abandoned'
  <2>1. CASE call.pc = "reading" /\ CancelRead(s) /\ UNCHANGED abandoned
    <3>1. CASE Retire(s)
      <4>1. session' = [session EXCEPT ![s] = IF Running(s) THEN session[s] ELSE Stopped(session[s])]
            /\ active' = active \ {s} /\ exited' = Without(s)
            /\ call' = [call EXCEPT !.pc = IF Running(s) THEN "terminating" ELSE "unwinding"]
        BY <3>1 DEF Retire, Drop
      <4>2. CASE Running(s)
        <5>1. session' = session
          BY <4>1, <4>2 DEF Inv, SessionsInv
        <5>2. call' = [call EXCEPT !.pc = "terminating"] /\ call'.pc = "terminating"
          BY <1>1, <4>1, <4>2, CallGoes
        <5>3. QED
          BY <2>1, <4>1, <5>1, <5>2
      <4>3. CASE ~Running(s)
        <5>1. session[s].process # "alive"
          BY <1>1, <2>1, <4>3 DEF Inv, CallInv, Running, Sound, SessionRecord
        <5>2. QED
          BY <2>1, <4>1, <4>3, <5>1
      <4>4. QED
        BY <4>2, <4>3
    <3>2. CASE /\ call' = [call EXCEPT !.pc = "unwinding"]
               /\ UNCHANGED <<session, active, exited>>
      BY <2>1, <3>2
    <3>3. QED
      BY <2>1, <3>1, <3>2 DEF CancelRead
  <2>2. CASE /\ call' = [call EXCEPT !.pc = "unwinding"]
             /\ abandoned' = IF call.pc \in {"attaching", "terminating"}
                             THEN abandoned \cup {s} ELSE abandoned
             /\ UNCHANGED <<session, active, exited>>
    BY <2>2
  <2>3. QED
    BY <2>1, <2>2 DEF DeliverCancel
<1>5. /\ call' \in CallRecord /\ call'.pc \in {"unwinding", "terminating"} /\ call'.id = s
  BY <1>1, <1>4, CallGoes
<1>6. /\ session' \in [Session -> SessionRecord]
      /\ \A t \in Session : Advances(session[t], session'[t])
  <2>1. CASE session' = session
    BY <2>1, KilledAdvances DEF Inv, SessionsInv
  <2>2. CASE session' = [session EXCEPT ![s] = Stopped(session[s])]
    <3>1. SessionsInv /\ Advances(session[s], Stopped(session[s]))
      BY <1>1, KilledAdvances DEF Inv
    <3>2. QED
      BY <1>1, <2>2, <3>1, OneAdvances
  <2>3. QED
    BY <1>4, <2>1, <2>2
<1>7. SessionsInv' /\ RegistryInv' /\ CallInv' /\ OutputInv'
  <2>1. /\ exited' \in Seq(Session) /\ IsInjective(exited') /\ Len(exited') <= Retention
        /\ Range(exited') \subseteq Range(exited)
    BY <1>1, <1>3, <1>4
  <2>2. /\ active' \subseteq active /\ closing' \subseteq closing \cup active
        /\ closed' \in BOOLEAN /\ abandoned' \subseteq Session
    BY <1>1, <1>2, <1>4 DEF Inv, RegistryInv, CallInv
  <2>3. turn'.number = turn.number
    BY <1>2 DEF Inv, TurnInv
  <2>4. QED
    BY <1>1, <1>2, <1>5, <1>6, <2>1, <2>2, <2>3, Advanced
<1>8. TurnInv'
  <2>1. MaxStops \in Nat
    BY SessionLimits
  <2>2. /\ turn' \in [number : Turn, open : BOOLEAN, stops : 0 .. MaxStops, pending : 0 .. MaxStops]
        /\ turn'.pending <= turn'.stops /\ turn'.open = turn.open
        /\ turn'.number = turn.number /\ turn'.stops = turn.stops
    <3>1. turn \in [number : Turn, open : BOOLEAN, stops : 0 .. MaxStops, pending : 0 .. MaxStops]
          /\ turn.pending <= turn.stops
      BY DEF Inv, TurnInv
    <3>2. turn' = [number |-> turn.number, open |-> turn.open,
                   stops |-> turn.stops, pending |-> turn.pending - 1]
      BY <1>2, <3>1
    <3>3. turn.pending - 1 \in 0 .. MaxStops /\ turn.pending - 1 <= turn.stops
      BY <1>1, <2>1, <3>1
    <3>4. QED
      BY <3>1, <3>2, <3>3
  <2>3. \A t \in active' : t \in active /\ session'[t].owner = session[t].owner
    BY <1>4, <1>6 DEF Inv, RegistryInv, Advances
  <2>4. QED
    BY <1>1, <1>2, <1>5, <2>2, <2>3 DEF Inv, TurnInv
<1>9. AliveInv'
  <2> SUFFICES ASSUME NEW t \in Session, session'[t].process = "alive"
               PROVE  t \in abandoned' \/ t \in active' \cup closing
                      \/ (call'.pc = "terminating" /\ call'.id = t)
    BY <1>2 DEF AliveInv, Kept
  <2>1. session[t].process = "alive"
    BY <1>6 DEF Advances
  <2>2. t \in abandoned \/ t \in active \cup closing
        \/ (call.pc \in {"attaching", "terminating"} /\ s = t)
    BY <2>1 DEF Inv, AliveInv, Kept
  <2>3. CASE t = s
    BY <1>4, <1>5, <2>1, <2>2, <2>3
  <2>4. CASE t # s
    BY <1>4, <2>2, <2>4
  <2>5. QED
    BY <2>3, <2>4
<1>10. QED
  BY <1>7, <1>8, <1>9 DEF Inv

(* close() of a cancelled call kills the process at the end of its time. *)
LEMMA TerminatedInv == ASSUME Inv, Terminated PROVE Inv'
<1> DEFINE s == call.id
           q == Stopped(Killed(session[s]))
<1>1. /\ s \in Session /\ Sound(session[s]) /\ call \in CallRecord /\ call.pc = "terminating"
  BY DEF Terminated, Inv, CallInv, SessionsInv
<1>2. session' = [session EXCEPT ![s] = q]
      /\ call' = [call EXCEPT !.pc = "unwinding"]
      /\ UNCHANGED <<delivered, active, exited, closed, closing, aclose, turn, abandoned>>
  BY DEF Terminated
<1>3. call' \in CallRecord /\ call'.pc = "unwinding" /\ call'.id = s
  BY <1>1, <1>2, CallGoes
<1>4. Advances(session[s], q) /\ q.process # "alive"
  BY <1>1, KilledAdvances
<1> HIDE DEF q
<1>5. /\ session' \in [Session -> SessionRecord]
      /\ \A t \in Session : Advances(session[t], session'[t])
      /\ session'[s] = q /\ \A t \in Session : t # s => session'[t] = session[t]
  <2>1. SessionsInv
    BY DEF Inv
  <2>2. QED
    BY <1>1, <1>2, <1>4, <2>1, OneAdvances
<1>6. SessionsInv' /\ RegistryInv' /\ CallInv' /\ OutputInv'
  <2>1. /\ exited' \in Seq(Session) /\ IsInjective(exited') /\ Len(exited') <= Retention
        /\ Range(exited') \subseteq Range(exited) /\ active' \subseteq active
        /\ closing' \subseteq closing \cup active /\ closed' \in BOOLEAN
        /\ abandoned' \subseteq Session
    BY <1>2 DEF Inv, RegistryInv, CallInv
  <2>2. QED
    BY <1>1, <1>2, <1>3, <1>5, <2>1, Advanced
<1>7. TurnInv'
  <2>1. \A t \in active : session'[t].owner = session[t].owner
    BY <1>5 DEF Inv, RegistryInv, Advances
  <2>2. turn.open
    BY <1>1 DEF Inv, TurnInv
  <2>3. QED
    BY <1>2, <1>3, <2>1, <2>2 DEF Inv, TurnInv
<1>8. AliveInv'
  <2> SUFFICES ASSUME NEW t \in Session, session'[t].process = "alive"
               PROVE  t \in abandoned \/ t \in active \cup closing
    BY <1>2 DEF AliveInv, Kept
  <2>1. t # s /\ session[t].process = "alive"
    BY <1>4, <1>5
  <2>2. QED
    BY <2>1 DEF Inv, AliveInv, Kept
<1>9. QED
  BY <1>6, <1>7, <1>8 DEF Inv

(* The Turn's task sees the cancellation, reaps what the Turn owns, and ends. *)
LEMMA UnwindInv == ASSUME Inv, Unwind PROVE Inv'
<1> DEFINE mine == OwnedBy(turn.number)
<1>1. /\ call.pc \in {"unwinding", "idle"} /\ call' = Idle
      /\ turn' = [turn EXCEPT !.open = FALSE, !.pending = 0]
      /\ session' = [t \in Session |->
                        IF t \in mine /\ Running(t) THEN Killed(session[t]) ELSE session[t]]
      /\ active' = active \ mine /\ closing' = closing \cup mine
      /\ UNCHANGED <<delivered, exited, closed, aclose, abandoned>>
  BY DEF Unwind, CancelActive
<1>2. mine = {t \in active : session[t].owner = turn.number}
  BY DEF OwnedBy
<1> HIDE DEF mine
<1>3. call' \in CallRecord /\ call'.pc = "idle"
  BY <1>1, CallGoes DEF Inv, CallInv
<1>4. /\ session' \in [Session -> SessionRecord]
      /\ \A t \in Session : Advances(session[t], session'[t])
  <2>1. SessionsInv
    BY DEF Inv
  <2>2. QED
    BY <1>1, <2>1, SomeKilled
<1>5. SessionsInv' /\ RegistryInv' /\ CallInv' /\ OutputInv'
  <2>1. /\ exited' \in Seq(Session) /\ IsInjective(exited') /\ Len(exited') <= Retention
        /\ Range(exited') \subseteq Range(exited) /\ active' \subseteq active
        /\ closing' \subseteq closing \cup active /\ closed' \in BOOLEAN
        /\ abandoned' \subseteq Session
    BY <1>1, <1>2 DEF Inv, RegistryInv, CallInv
  <2>2. QED
    BY <1>1, <1>3, <1>4, <2>1, Advanced
<1>6. TurnInv'
  <2>1. turn \in [number : Turn, open : BOOLEAN, stops : 0 .. MaxStops, pending : 0 .. MaxStops]
        /\ MaxStops \in Nat
    BY SessionLimits DEF Inv, TurnInv
  <2>2. turn' = [number |-> turn.number, open |-> FALSE, stops |-> turn.stops, pending |-> 0]
    BY <1>1, <2>1
  <2>3. closed => active' = {}
    BY <1>1, <1>2 DEF Inv, TurnInv
  <2>4. /\ turn' \in [number : Turn, open : BOOLEAN, stops : 0 .. MaxStops, pending : 0 .. MaxStops]
        /\ turn'.pending <= turn'.stops /\ ~turn'.open
    BY <2>1, <2>2
  <2>5. aclose' \in [phase : {"none", "closing", "draining", "returned"}, waits : SUBSET Session]
        /\ (aclose'.phase # "none" => closed')
    BY <1>1 DEF Inv, TurnInv
  <2>6. QED
    BY <1>1, <1>3, <2>3, <2>4, <2>5 DEF TurnInv
<1>7. AliveInv'
  <2> SUFFICES ASSUME NEW t \in Session, session'[t].process = "alive"
               PROVE  t \in abandoned \/ t \in active \cup closing
    BY <1>1 DEF AliveInv, Kept
  <2>1. session[t].process = "alive"
    BY <1>4 DEF Advances
  <2>2. QED
    BY <1>1, <2>1 DEF Inv, AliveInv, Kept
<1>8. QED
  BY <1>5, <1>6, <1>7 DEF Inv

(* Sessions as they are, and a Turn with no cancellation, let a call start. *)
LEMMA CanCallFacts ==
    ASSUME Inv, CanCall
    PROVE  /\ turn.open /\ turn.stops = 0 /\ ~closed /\ call.pc = "idle" /\ aclose.phase = "none"
           /\ \A t \in Session : session[t].process = "alive" =>
                  t \in abandoned \/ t \in active \cup closing
<1>1. turn.open /\ turn.pending = 0 /\ ~closed /\ call.pc = "idle" /\ turn.stops \in Nat
  BY SessionLimits DEF CanCall, Inv, TurnInv
<1>2. turn.stops = 0 /\ aclose.phase = "none"
  BY <1>1 DEF Inv, TurnInv
<1>3. QED
  BY <1>1, <1>2 DEF Inv, AliveInv, Kept

(* exec_command, or a poll of an active session, starts. *)
LEMMA StartInv ==
    ASSUME Inv, NEW s \in Session, NEW tty \in BOOLEAN, ExecStarts(s, tty) \/ StdinStarts(s)
    PROVE  Inv'
<1>1. UNCHANGED <<session, delivered, active, exited, closed, closing, aclose, turn, abandoned>>
      /\ CanCall
  BY DEF ExecStarts, StdinStarts
<1>2. /\ turn.open /\ turn.stops = 0 /\ ~closed /\ call.pc = "idle" /\ aclose.phase = "none"
      /\ \A t \in Session : session[t].process = "alive" =>
             t \in abandoned \/ t \in active \cup closing
  BY <1>1, CanCallFacts
<1>3. /\ call' \in CallRecord /\ call'.id = s
      /\ \/ call'.pc = "spawning" /\ session[s].process = "none" /\ session[s].watcher = "none"
         \/ call'.pc = "reading" /\ ~call'.exec /\ session[s].watcher \in {"waiting", "draining"}
  <2>1. <<>> \in Seq(Nat)
    OBVIOUS
  <2>2. CASE ExecStarts(s, tty)
    <3>1. call' = [pc |-> "spawning", id |-> s, exec |-> TRUE, tty |-> tty, out |-> <<>>]
          /\ session[s].process = "none"
      BY <2>2 DEF ExecStarts, Idle
    <3>2. session[s].watcher = "none"
      BY <3>1 DEF Inv, SessionsInv, Sound, SessionRecord
    <3>3. QED
      BY <2>1, <3>1, <3>2 DEF CallRecord
  <2>3. CASE StdinStarts(s)
    <3>1. call' = [pc |-> "reading", id |-> s, exec |-> FALSE, tty |-> FALSE, out |-> <<>>]
          /\ s \in active
      BY <2>3 DEF StdinStarts, Idle
    <3>2. session[s].watcher \in {"waiting", "draining"}
      BY <3>1 DEF Inv, RegistryInv
    <3>3. QED
      BY <2>1, <3>1, <3>2 DEF CallRecord
  <2>4. QED
    BY <2>2, <2>3
<1>4. SessionsInv' /\ RegistryInv'
  BY <1>1 DEF Inv, SessionsInv, RegistryInv
<1>5. CallInv'
  BY <1>1, <1>3 DEF Inv, CallInv
<1>6. OutputInv'
  <2>1. Range(exited) \subseteq Session /\ Range(exited') \subseteq Range(exited)
    BY <1>1 DEF Inv, RegistryInv, Range
  <2>2. ASSUME NEW t \in Session
        PROVE  /\ session'[t].taken >= session[t].taken
               /\ session'[t].final = session[t].final
               /\ session'[t].watcher = "done" => session[t].watcher = "done"
    <3>1. session[t].taken \in Nat
      BY SessionLimits DEF Inv, SessionsInv, SessionRecord, Chunks
    <3>2. QED
      BY <1>1, <3>1
  <2>3. call'.pc = "reading" =>
            /\ call'.id \in Session
            /\ \/ call.pc = "reading" /\ call'.id = call.id
               \/ session'[call'.id].watcher # "done"
    BY <1>1, <1>3
  <2>4. call'.pc = "returning" => call' = call /\ call.id \in Session
    BY <1>3
  <2>5. SessionsInv /\ OutputInv /\ delivered' = delivered
    BY <1>1 DEF Inv
  <2>6. QED
    BY <1>4, <2>1, <2>2, <2>3, <2>4, <2>5, OutputKept
<1>7. TurnInv'
  BY <1>1, <1>2 DEF Inv, TurnInv
<1>8. AliveInv'
  BY <1>1, <1>2 DEF AliveInv, Kept
<1>9. QED
  BY <1>4, <1>5, <1>6, <1>7, <1>8 DEF Inv

(* The spawn, or the attachment of the PTY, fails. *)
LEMMA ExecFailsInv == ASSUME Inv, ExecFails PROVE Inv'
<1> DEFINE s == call.id
           q == Killed(session[s])
<1>1. /\ s \in Session /\ Sound(session[s]) /\ call.pc \in {"spawning", "attaching"}
      /\ session' = [session EXCEPT ![s] = q] /\ call' = Idle
      /\ UNCHANGED <<delivered, active, exited, closed, closing, aclose, turn, abandoned>>
  BY DEF ExecFails, Inv, CallInv, SessionsInv
<1>2. Advances(session[s], q) /\ q.process # "alive"
  BY <1>1, KilledAdvances
<1> HIDE DEF q
<1>3. /\ session' \in [Session -> SessionRecord]
      /\ \A t \in Session : Advances(session[t], session'[t])
      /\ session'[s] = q /\ \A t \in Session : t # s => session'[t] = session[t]
  <2>1. SessionsInv
    BY DEF Inv
  <2>2. QED
    BY <1>1, <1>2, <2>1, OneAdvances
<1>4. call' \in CallRecord /\ call'.pc = "idle"
  BY <1>1, CallGoes DEF Inv, CallInv
<1>5. SessionsInv' /\ RegistryInv' /\ CallInv' /\ OutputInv'
  <2>1. /\ exited' \in Seq(Session) /\ IsInjective(exited') /\ Len(exited') <= Retention
        /\ Range(exited') \subseteq Range(exited) /\ active' \subseteq active
        /\ closing' \subseteq closing \cup active /\ closed' \in BOOLEAN
        /\ abandoned' \subseteq Session
    BY <1>1 DEF Inv, RegistryInv, CallInv
  <2>2. QED
    BY <1>1, <1>3, <1>4, <2>1, Advanced
<1>6. TurnInv'
  <2>1. \A t \in active : session'[t].owner = session[t].owner
    BY <1>3 DEF Inv, RegistryInv, Advances
  <2>2. QED
    BY <1>1, <1>4, <2>1 DEF Inv, TurnInv
<1>7. AliveInv'
  <2> SUFFICES ASSUME NEW t \in Session, session'[t].process = "alive"
               PROVE  t \in abandoned \/ t \in active \cup closing
    BY <1>1 DEF AliveInv, Kept
  <2>1. t # s /\ session[t].process = "alive"
    BY <1>2, <1>3
  <2>2. QED
    BY <1>1, <2>1 DEF Inv, AliveInv, Kept
<1>8. QED
  BY <1>5, <1>6, <1>7 DEF Inv

(* A write to a completed session drops its result. *)
LEMMA LateWriteInv == ASSUME Inv, NEW s \in Session, LateWrite(s) PROVE Inv'
<1>1. exited' = Without(s)
      /\ UNCHANGED <<session, delivered, active, closed, closing, aclose, call, turn, abandoned>>
  BY DEF LateWrite
<1>2. /\ exited' \in Seq(Session) /\ IsInjective(exited') /\ Len(exited') <= Retention
      /\ Range(exited') \subseteq Range(exited)
  <2>1. exited \in Seq(Session) /\ IsInjective(exited) /\ Len(exited) \in Nat
        /\ Len(exited) <= Retention /\ Retention \in Nat
    BY SessionLimits DEF Inv, RegistryInv
  <2>2. /\ Without(s) \in Seq(Session) /\ IsInjective(Without(s))
        /\ Range(Without(s)) = Range(exited) \ {s} /\ Len(Without(s)) <= Len(exited)
    BY <2>1, WithoutOne
  <2>3. Len(Without(s)) \in Nat
    BY <2>2
  <2>4. QED
    BY <1>1, <2>1, <2>2, <2>3
<1>3. /\ session' \in [Session -> SessionRecord]
      /\ \A t \in Session : Advances(session[t], session'[t])
  BY <1>1, KilledAdvances DEF Inv, SessionsInv
<1>4. SessionsInv' /\ RegistryInv' /\ CallInv' /\ OutputInv'
  <2>1. /\ active' \subseteq active /\ closing' \subseteq closing \cup active /\ closed' \in BOOLEAN
        /\ abandoned' \subseteq Session /\ call' \in CallRecord
    BY <1>1 DEF Inv, RegistryInv, CallInv
  <2>2. QED
    BY <1>1, <1>2, <1>3, <2>1, Advanced
<1>5. TurnInv' /\ AliveInv'
  BY <1>1 DEF Inv, TurnInv, AliveInv, Kept
<1>6. QED
  BY <1>4, <1>5 DEF Inv

(* The process has started; its session is registered, or its PTY is attached. *)
LEMMA SpawnedInv == ASSUME Inv, Spawned \/ Attached PROVE Inv'
<1> DEFINE s == call.id
<1>1. /\ s \in Session /\ Sound(session[s]) /\ call \in CallRecord
      /\ call.pc \in {"spawning", "attaching"}
      /\ session[s].watcher = "none" /\ turn.open /\ turn.number \in 0 .. MaxTurns
      /\ UNCHANGED <<delivered, exited, closed, closing, aclose, turn, abandoned>>
  <2>1. turn.number \in Turn /\ MaxTurns \in Nat
    BY SessionLimits DEF Inv, TurnInv
  <2>2. QED
    BY <2>1 DEF Spawned, Attached, Inv, CallInv, SessionsInv, TurnInv, Turn
<1>2. PICK q :
        /\ Sound(q) /\ q.taken = session[s].taken /\ q.final = session[s].final
        /\ session' = [session EXCEPT ![s] = q]
        /\ \/ /\ active' = active \cup {s} /\ call' = [call EXCEPT !.pc = "reading"]
              /\ q.watcher = "waiting" /\ q.owner = turn.number
           \/ /\ active' = active /\ call' = [call EXCEPT !.pc = "attaching"]
              /\ q.watcher = "none"
  <2>1. CASE Register(s)
    <3> DEFINE q == Watched(session[s])
    <3>1. \A x : Sound(x) => /\ Sound(Watched(x)) /\ Watched(x).taken = x.taken
                             /\ Watched(x).final = x.final /\ Watched(x).watcher = "waiting"
                             /\ Watched(x).owner = turn.number
      <4> SUFFICES ASSUME NEW x, Sound(x)
                   PROVE  /\ Sound(Watched(x)) /\ Watched(x).taken = x.taken
                          /\ Watched(x).final = x.final /\ Watched(x).watcher = "waiting"
                          /\ Watched(x).owner = turn.number
        OBVIOUS
      <4> DEFINE p == IF x.process = "none" THEN "alive" ELSE x.process
                 n == turn.number
      <4>1. Watched(x) = [process |-> p, written |-> x.written, read |-> x.read,
                          taken |-> x.taken, final |-> x.final, watcher |-> "waiting",
                          reader |-> TRUE, timer |-> TRUE, owner |-> n]
        <5>1. x \in SessionRecord
          BY DEF Sound
        <5>2. Watched(x) = [x EXCEPT !.process = p, !.watcher = "waiting", !.reader = TRUE,
                                     !.timer = TRUE, !.owner = n]
          BY DEF Watched
        <5> HIDE DEF p, n
        <5>3. QED
          BY <5>1, <5>2 DEF SessionRecord
      <4>2. p \in {"alive", "dead"} /\ n \in 0 .. MaxTurns
        BY <1>1 DEF Sound, SessionRecord
      <4> HIDE DEF p, n
      <4>3. Sound([process |-> p, written |-> x.written, read |-> x.read,
                   taken |-> x.taken, final |-> x.final, watcher |-> "waiting",
                   reader |-> TRUE, timer |-> TRUE, owner |-> n])
        BY <4>2 DEF Sound, SessionRecord
      <4>4. QED
        BY <4>1, <4>3 DEF n
    <3>2. session' = [session EXCEPT ![s] = q] /\ active' = active \cup {s}
          /\ call' = [call EXCEPT !.pc = "reading"]
      BY <2>1 DEF Register
    <3> HIDE DEF q
    <3>3. Sound(q) /\ q.taken = session[s].taken /\ q.final = session[s].final
          /\ q.watcher = "waiting" /\ q.owner = turn.number
      BY <1>1, <3>1 DEF q
    <3>4. QED
      BY <3>2, <3>3
  <2>2. CASE /\ session' = [session EXCEPT ![s].process = "alive"]
             /\ call' = [call EXCEPT !.pc = "attaching"]
             /\ UNCHANGED active
    <3> DEFINE q == [session[s] EXCEPT !.process = "alive"]
    <3>1. \A x : Sound(x) /\ x.watcher = "none" =>
                    /\ Sound([x EXCEPT !.process = "alive"])
                    /\ [x EXCEPT !.process = "alive"].taken = x.taken
                    /\ [x EXCEPT !.process = "alive"].final = x.final
                    /\ [x EXCEPT !.process = "alive"].watcher = "none"
      BY DEF Sound, SessionRecord
    <3>2. session' = [session EXCEPT ![s] = q] /\ active' = active
          /\ call' = [call EXCEPT !.pc = "attaching"]
      BY <2>2
    <3>3. Sound(q) /\ q.taken = session[s].taken /\ q.final = session[s].final
          /\ q.watcher = "none"
      BY <1>1, <3>1
    <3> HIDE DEF q
    <3>4. QED
      BY <3>2, <3>3
  <2>3. QED
    BY <2>1, <2>2 DEF Spawned, Attached
<1>3. /\ session' \in [Session -> SessionRecord] /\ session'[s] = q
      /\ \A t \in Session : t # s => session'[t] = session[t]
  BY <1>1, <1>2 DEF Inv, SessionsInv, Sound
<1>4. /\ call' \in CallRecord /\ call'.id = s /\ call'.pc \in {"attaching", "reading"}
      /\ call'.exec = call.exec
      /\ \/ call'.pc = "reading" /\ active' = active \cup {s}
            /\ q.watcher = "waiting" /\ q.owner = turn.number
         \/ call'.pc = "attaching" /\ active' = active /\ q.watcher = "none"
  BY <1>1, <1>2, CallGoes
<1>5. SessionsInv'
  BY <1>2, <1>3 DEF Inv, SessionsInv
<1>6. s \notin active /\ s \notin Range(exited) /\ s \notin closing
  BY <1>1 DEF Inv, RegistryInv
<1>7. RegistryInv'
  <2>1. \A t \in Range(exited) : t \in Session
    BY DEF Inv, RegistryInv, Range
  <2>2. QED
    BY <1>1, <1>3, <1>4, <1>6, <2>1 DEF Inv, RegistryInv
<1>8. CallInv'
  BY <1>1, <1>3, <1>4 DEF Inv, CallInv
<1>9. OutputInv'
  <2>1. Range(exited) \subseteq Session /\ Range(exited') \subseteq Range(exited)
    BY <1>1 DEF Inv, RegistryInv, Range
  <2>2. ASSUME NEW t \in Session
        PROVE  /\ session'[t].taken >= session[t].taken
               /\ session'[t].final = session[t].final
               /\ session'[t].watcher = "done" => session[t].watcher = "done"
    <3>1. session[t].taken \in Nat
      BY SessionLimits DEF Inv, SessionsInv, SessionRecord, Chunks
    <3>2. QED
      BY <1>2, <1>3, <1>4, <3>1
  <2>3. call'.pc = "reading" =>
            /\ call'.id \in Session
            /\ \/ call.pc = "reading" /\ call'.id = call.id
               \/ session'[call'.id].watcher # "done"
    BY <1>1, <1>3, <1>4
  <2>4. call'.pc = "returning" => call' = call /\ call.id \in Session
    BY <1>4
  <2>5. SessionsInv /\ OutputInv /\ delivered' = delivered
    BY <1>1 DEF Inv
  <2>6. QED
    BY <1>5, <2>1, <2>2, <2>3, <2>4, <2>5, OutputKept
<1>10. TurnInv'
  <2>1. \A t \in active' : \/ t = s /\ session'[t].owner = turn.number
                           \/ t \in active /\ session'[t].owner = session[t].owner
    BY <1>3, <1>4, <1>6 DEF Inv, RegistryInv
  <2>2. turn.stops > 0 => turn.pending > 0
    BY <1>1 DEF Inv, TurnInv
  <2>3. closed => /\ \A t \in active : session[t].owner = turn.number
                  /\ turn.stops > 0
    BY <1>1 DEF Inv, TurnInv
  <2>4. closed' => /\ \A t \in active' : session'[t].owner = turn'.number
                   /\ turn'.stops > 0
    BY <1>1, <2>1, <2>3
  <2>5. turn'.open /\ (turn'.stops > 0 => turn'.pending > 0)
    BY <1>1, <2>2
  <2>6. /\ turn' \in [number : Turn, open : BOOLEAN, stops : 0 .. MaxStops, pending : 0 .. MaxStops]
        /\ turn'.pending <= turn'.stops
        /\ aclose' \in [phase : {"none", "closing", "draining", "returned"}, waits : SUBSET Session]
        /\ (aclose'.phase # "none" => closed')
    BY <1>1 DEF Inv, TurnInv
  <2>7. QED
    BY <2>4, <2>5, <2>6 DEF TurnInv
<1>11. AliveInv'
  <2> SUFFICES ASSUME NEW t \in Session, session'[t].process = "alive"
               PROVE  t \in abandoned \/ t \in active' \cup closing
                      \/ (call'.pc \in {"attaching", "terminating"} /\ call'.id = t)
    BY <1>1 DEF AliveInv, Kept
  <2>1. CASE t = s
    BY <1>4, <2>1
  <2>2. CASE t # s
    <3>1. session[t].process = "alive"
      BY <1>3, <2>2
    <3>2. t \in abandoned \/ t \in active \cup closing
      BY <2>2, <3>1 DEF Inv, AliveInv, Kept
    <3>3. QED
      BY <1>4, <3>2
  <2>3. QED
    BY <2>1, <2>2
<1>12. QED
  BY <1>5, <1>7, <1>8, <1>9, <1>10, <1>11 DEF Inv

(* The model is given output that follows what it was given. *)
LEMMA GivenMore ==
    ASSUME GivenInv, NEW s \in Session, NEW out \in Seq(1 .. MaxChunks), Deliver(s, out),
           Increasing(out), Before(delivered[s], out), Below(out, session'[s].taken),
           \A t \in Session : /\ session[t].taken \in Nat /\ session'[t].taken \in Nat
                              /\ session[t].taken <= session'[t].taken
    PROVE  GivenInv' /\ \A t \in Session : t # s => delivered'[t] = delivered[t]
<1>1. \A q \in Seq(1 .. MaxChunks), m, n \in Nat : Below(q, m) /\ m <= n => Below(q, n)
  BY BelowMore
<1>2. DOMAIN delivered' = Session /\ delivered'[s] = delivered[s] \o out
      /\ \A t \in Session : t # s => delivered'[t] = delivered[t]
  BY DEF GivenInv, Deliver
<1>3. ASSUME NEW t \in Session
      PROVE  /\ delivered[t] \in Seq(1 .. MaxChunks) /\ Increasing(delivered[t])
             /\ Below(delivered[t], session'[t].taken)
  <2>1. /\ delivered[t] \in Seq(1 .. MaxChunks) /\ Increasing(delivered[t])
        /\ Below(delivered[t], session[t].taken)
    BY DEF GivenInv
  <2>2. session[t].taken \in Nat /\ session'[t].taken \in Nat
        /\ session[t].taken <= session'[t].taken
    OBVIOUS
  <2>3. QED
    BY <1>1, <2>1, <2>2
<1>4. /\ delivered'[s] \in Seq(1 .. MaxChunks) /\ Increasing(delivered'[s])
      /\ Below(delivered'[s], session'[s].taken)
  BY <1>2, <1>3, Joined
<1>5. \A t \in Session : /\ delivered'[t] \in Seq(1 .. MaxChunks) /\ Increasing(delivered'[t])
                         /\ Below(delivered'[t], session'[t].taken)
  BY <1>2, <1>3, <1>4
<1>6. GivenInv'
  BY <1>2, <1>5 DEF GivenInv, Increasing, Below
<1>7. QED
  BY <1>2, <1>6

(* The one final poll of a completed session. *)
LEMMA FinalPollInv == ASSUME Inv, NEW s \in Session, FinalPoll(s) PROVE Inv'
<1> DEFINE out == Output(s)
<1>1. /\ s \in Range(exited) /\ Deliver(s, out) /\ exited' = Without(s) /\ CanCall
      /\ UNCHANGED <<session, active, closed, closing, aclose, call, turn, abandoned>>
  BY DEF FinalPoll
<1>2. /\ exited' \in Seq(Session) /\ IsInjective(exited') /\ Len(exited') <= Retention
      /\ Range(exited') = Range(exited) \ {s}
  <2>1. exited \in Seq(Session) /\ IsInjective(exited) /\ Len(exited) \in Nat
        /\ Len(exited) <= Retention /\ Retention \in Nat
    BY SessionLimits DEF Inv, RegistryInv
  <2>2. /\ Without(s) \in Seq(Session) /\ IsInjective(Without(s))
        /\ Range(Without(s)) = Range(exited) \ {s} /\ Len(Without(s)) <= Len(exited)
    BY <2>1, WithoutOne
  <2>3. Len(Without(s)) \in Nat
    BY <2>2
  <2>4. QED
    BY <1>1, <2>1, <2>2, <2>3
<1>3. /\ session[s].watcher = "done" /\ Sound(session[s]) /\ call.pc = "idle"
      /\ Below(delivered[s], session[s].final) /\ delivered[s] \in Seq(1 .. MaxChunks)
      /\ GivenInv
  BY <1>1 DEF CanCall, Inv, RegistryInv, SessionsInv, OutputInv, GivenInv, FinalInv
<1>4. /\ out \in Seq(1 .. MaxChunks) /\ Increasing(out) /\ Below(out, session[s].taken)
      /\ Before(delivered[s], out)
  BY <1>3, OutputNext
<1> HIDE DEF out
<1>5. \A t \in Session : /\ session[t].taken \in Nat /\ session'[t].taken \in Nat
                         /\ session[t].taken <= session'[t].taken
  <2>1. \A t \in Session : session[t].taken \in Nat
    BY SessionLimits DEF Inv, SessionsInv, SessionRecord, Chunks
  <2>2. QED
    BY <1>1, <2>1
<1>6. GivenInv' /\ \A t \in Session : t # s => delivered'[t] = delivered[t]
  <2>1. Below(out, session'[s].taken)
    BY <1>1, <1>4
  <2>2. QED
    BY <1>1, <1>3, <1>4, <1>5, <2>1, GivenMore
<1>7. SessionsInv' /\ RegistryInv' /\ CallInv'
  BY <1>1, <1>2, <1>3 DEF Inv, SessionsInv, RegistryInv, CallInv
<1>8. OutputInv'
  <2>1. \A t \in Range(exited') : t \in Session /\ t # s /\ t \in Range(exited)
    BY <1>2 DEF Inv, RegistryInv, Range
  <2>2. \A t \in Range(exited') : Below(delivered'[t], session'[t].final)
    BY <1>1, <1>6, <2>1 DEF Inv, OutputInv, FinalInv
  <2>3. FinalInv'
    BY <2>2 DEF FinalInv, Below
  <2>4. ReadingInv' /\ ReturningInv'
    BY <1>1, <1>3 DEF ReadingInv, ReturningInv
  <2>5. QED
    BY <1>6, <2>3, <2>4 DEF OutputInv
<1>9. TurnInv' /\ AliveInv'
  BY <1>1 DEF Inv, TurnInv, AliveInv, Kept
<1>10. QED
  BY <1>7, <1>8, <1>9 DEF Inv

(* The last result of a retired session is given to the model. *)
LEMMA ReturnsInv == ASSUME Inv, Returns PROVE Inv'
<1> DEFINE s == call.id
<1>1. /\ s \in Session /\ call.pc = "returning" /\ Deliver(s, call.out) /\ call' = Idle
      /\ UNCHANGED <<session, active, exited, closed, closing, aclose, turn, abandoned>>
  BY DEF Returns, Inv, CallInv
<1>2. /\ call.out \in Seq(1 .. MaxChunks) /\ Increasing(call.out)
      /\ Before(delivered[s], call.out) /\ Below(call.out, session'[s].taken) /\ GivenInv
  BY <1>1 DEF Inv, OutputInv, ReturningInv
<1>3. \A t \in Session : /\ session[t].taken \in Nat /\ session'[t].taken \in Nat
                         /\ session[t].taken <= session'[t].taken
  <2>1. \A t \in Session : session[t].taken \in Nat
    BY SessionLimits DEF Inv, SessionsInv, SessionRecord, Chunks
  <2>2. QED
    BY <1>1, <2>1
<1>4. GivenInv' /\ \A t \in Session : t # s => delivered'[t] = delivered[t]
  BY <1>1, <1>2, <1>3, GivenMore
<1>5. call' \in CallRecord /\ call'.pc = "idle"
  BY <1>1, CallGoes DEF Inv, CallInv
<1>6. SessionsInv' /\ RegistryInv' /\ CallInv'
  BY <1>1, <1>5 DEF Inv, SessionsInv, RegistryInv, CallInv
<1>7. OutputInv'
  <2>1. \A t \in Range(exited') : t \in Session /\ t # s /\ t \in Range(exited)
    BY <1>1 DEF Inv, RegistryInv, CallInv, Range
  <2>2. \A t \in Range(exited') : Below(delivered'[t], session'[t].final)
    BY <1>1, <1>4, <2>1 DEF Inv, OutputInv, FinalInv
  <2>3. FinalInv'
    BY <2>2 DEF FinalInv, Below
  <2>4. ReadingInv' /\ ReturningInv'
    BY <1>5 DEF ReadingInv, ReturningInv
  <2>5. QED
    BY <1>4, <2>3, <2>4 DEF OutputInv
<1>8. TurnInv' /\ AliveInv'
  BY <1>1, <1>5 DEF Inv, TurnInv, AliveInv, Kept
<1>9. QED
  BY <1>6, <1>7, <1>8 DEF Inv

(* What a poll makes of the counters of a session. *)
Took(r) == [r EXCEPT !.taken = IF r.watcher = "done" THEN @ ELSE r.read]

LEMMA TookSound ==
    ASSUME NEW r, Sound(r)
    PROVE  /\ Sound(Took(r)) /\ Sound(Stopped(Took(r)))
           /\ \A q \in {Took(r), Stopped(Took(r))} :
                 /\ q.taken = (IF r.watcher = "done" THEN r.taken ELSE r.read)
                 /\ q.final = r.final /\ q.watcher = r.watcher
                 /\ q.owner = r.owner /\ q.process = r.process
           /\ r.taken <= Took(r).taken /\ Took(r).taken \in Nat /\ r.taken \in Nat
<1>1. \A x : Sound(x) => /\ Sound(Stopped(x)) /\ Stopped(x).taken = x.taken
                         /\ Stopped(x).final = x.final /\ Stopped(x).watcher = x.watcher
                         /\ Stopped(x).owner = x.owner /\ Stopped(x).process = x.process
  BY DEF Sound, Stopped, SessionRecord
<1> DEFINE n == IF r.watcher = "done" THEN r.taken ELSE r.read
<1>2. n \in Chunks /\ r.taken <= n /\ r.final <= n /\ n <= r.written /\ n <= r.read
      /\ r.taken \in Nat /\ n \in Nat
  BY SessionLimits DEF Sound, SessionRecord, Chunks
<1>3. Took(r) = [r EXCEPT !.taken = n]
  BY DEF Took
<1> HIDE DEF n
<1>4. Sound([r EXCEPT !.taken = n]) /\ [r EXCEPT !.taken = n].taken = n
      /\ [r EXCEPT !.taken = n].final = r.final /\ [r EXCEPT !.taken = n].watcher = r.watcher
      /\ [r EXCEPT !.taken = n].owner = r.owner /\ [r EXCEPT !.taken = n].process = r.process
  BY <1>2 DEF Sound, SessionRecord
<1> DEFINE k == Took(r)
<1>5. Sound(k) /\ k.taken = n /\ k.final = r.final /\ k.watcher = r.watcher
      /\ k.owner = r.owner /\ k.process = r.process
  BY <1>3, <1>4
<1> HIDE DEF k
<1>6. /\ Sound(k) /\ Sound(Stopped(k)) /\ r.taken <= k.taken /\ k.taken \in Nat /\ r.taken \in Nat
      /\ \A q \in {k, Stopped(k)} :
            /\ q.taken = n /\ q.final = r.final /\ q.watcher = r.watcher
            /\ q.owner = r.owner /\ q.process = r.process
  BY <1>1, <1>2, <1>5
<1>7. QED
  BY <1>6 DEF k, n

(* A poll returns: what was read is given, or the session is retired. *)
LEMMA ReadReturnsInv == ASSUME Inv, ReadReturns PROVE Inv'
<1> DEFINE s == call.id
           out == Output(s)
           took == Took(session[s])
<1>1. /\ s \in Session /\ Sound(session[s]) /\ call.pc = "reading" /\ call \in CallRecord
      /\ session[s].watcher # "none" /\ turn.open /\ GivenInv
      /\ UNCHANGED <<closed, closing, aclose, turn, abandoned>>
  BY DEF ReadReturns, Inv, CallInv, SessionsInv, TurnInv, OutputInv
<1>2. PICK q \in {took, Stopped(took)} :
        /\ session' = [session EXCEPT ![s] = q]
        /\ \/ /\ Running(s) /\ Deliver(s, out) /\ call' = Idle
              /\ active' = active /\ exited' = exited
           \/ /\ ~Running(s) /\ delivered' = delivered
              /\ active' = active \ {s} /\ exited' = Without(s)
              /\ call' = [call EXCEPT !.pc = "returning", !.out = out]
  <2>1. took = [session[s] EXCEPT !.taken = IF session[s].watcher = "done"
                                            THEN session[s].taken ELSE session[s].read]
    BY DEF Took
  <2>2. \/ /\ Running(s) /\ session' = [session EXCEPT ![s] = took]
           /\ Deliver(s, out) /\ call' = Idle /\ active' = active /\ exited' = exited
        \/ /\ ~Running(s) /\ session' = [session EXCEPT ![s] = Stopped(took)]
           /\ delivered' = delivered /\ active' = active \ {s} /\ exited' = Without(s)
           /\ call' = [call EXCEPT !.pc = "returning", !.out = out]
    BY <2>1 DEF ReadReturns, Drop
  <2> DEFINE stopped == Stopped(took)
  <2> HIDE DEF out, took, stopped
  <2>3. CASE /\ Running(s) /\ session' = [session EXCEPT ![s] = took]
             /\ Deliver(s, out) /\ call' = Idle /\ active' = active /\ exited' = exited
    BY <2>3
  <2>4. CASE /\ ~Running(s) /\ session' = [session EXCEPT ![s] = stopped]
             /\ delivered' = delivered /\ active' = active \ {s} /\ exited' = Without(s)
             /\ call' = [call EXCEPT !.pc = "returning", !.out = out]
    BY <2>4 DEF stopped
  <2>5. QED
    BY <2>2, <2>3, <2>4 DEF stopped
<1> DEFINE last == IF session[s].watcher = "done" THEN session[s].taken ELSE session[s].read
           first == IF session[s].watcher = "done" THEN session[s].final ELSE session[s].taken
<1>3. /\ Sound(q) /\ q.taken = last /\ q.final = session[s].final
      /\ q.watcher = session[s].watcher /\ q.owner = session[s].owner
      /\ q.process = session[s].process /\ session[s].taken <= q.taken
  <2> DEFINE r == session[s]
  <2>1. /\ Sound(Took(r)) /\ Sound(Stopped(Took(r)))
        /\ \A p \in {Took(r), Stopped(Took(r))} :
              /\ p.taken = (IF r.watcher = "done" THEN r.taken ELSE r.read)
              /\ p.final = r.final /\ p.watcher = r.watcher
              /\ p.owner = r.owner /\ p.process = r.process
        /\ r.taken <= Took(r).taken /\ Took(r).taken \in Nat /\ r.taken \in Nat
    BY <1>1, TookSound
  <2>2. q \in {Took(r), Stopped(Took(r))}
    OBVIOUS
  <2>3. q.taken = Took(r).taken /\ q.taken = last /\ q.final = r.final
        /\ q.watcher = r.watcher /\ q.owner = r.owner /\ q.process = r.process
    BY <2>1, <2>2
  <2>4. Sound(q)
    BY <2>1, <2>2
  <2>5. QED
    BY <2>1, <2>3, <2>4
<1>4. /\ out \in Seq(1 .. MaxChunks) /\ Increasing(out) /\ Below(out, q.taken)
      /\ Before(delivered[s], out)
  <2>1. /\ out \in Seq(1 .. MaxChunks) /\ Increasing(out) /\ Below(out, last)
        /\ \A p \in Seq(1 .. MaxChunks) : Below(p, first) => Before(p, out)
    BY <1>1, OutputNext
  <2>2. delivered[s] \in Seq(1 .. MaxChunks) /\ Below(delivered[s], first)
    BY <1>1 DEF Inv, OutputInv, GivenInv, ReadingInv
  <2>3. QED
    BY <1>3, <2>1, <2>2
<1> HIDE DEF out, took, last, first
<1>5. /\ session' \in [Session -> SessionRecord] /\ session'[s] = q
      /\ \A t \in Session : t # s => session'[t] = session[t]
  BY <1>1, <1>2, <1>3 DEF Inv, SessionsInv, Sound
<1>6. SessionsInv'
  BY <1>3, <1>5 DEF Inv, SessionsInv
<1>7. \A t \in Session : /\ session[t].taken \in Nat /\ session'[t].taken \in Nat
                         /\ session[t].taken <= session'[t].taken
                         /\ session'[t].final = session[t].final
                         /\ session'[t].watcher = session[t].watcher
                         /\ session'[t].owner = session[t].owner
                         /\ session'[t].process = session[t].process
  <2>1. \A t \in Session : session[t].taken \in Nat /\ session'[t].taken \in Nat
    BY <1>6, SessionLimits DEF Inv, SessionsInv, SessionRecord, Chunks
  <2>2. QED
    BY <1>3, <1>5, <2>1
<1>8. exited \in Seq(Session) /\ IsInjective(exited) /\ Len(exited) \in Nat
      /\ Len(exited) <= Retention /\ Retention \in Nat /\ Range(exited) \subseteq Session
  BY SessionLimits DEF Inv, RegistryInv, Range
<1>9. CASE /\ Running(s) /\ Deliver(s, out) /\ call' = Idle
           /\ active' = active /\ exited' = exited
  <2>1. GivenInv' /\ \A t \in Session : t # s => delivered'[t] = delivered[t]
    <3>1. Below(out, session'[s].taken)
      BY <1>4, <1>5
    <3>2. QED
      BY <1>1, <1>4, <1>7, <1>9, <3>1, GivenMore
  <2>2. call' \in CallRecord /\ call'.pc = "idle"
    BY <1>1, <1>9, CallGoes
  <2>3. RegistryInv' /\ CallInv'
    BY <1>1, <1>7, <1>8, <1>9, <2>2 DEF Inv, RegistryInv, CallInv
  <2>4. \A t \in Range(exited') : Below(delivered'[t], session'[t].final)
    <3>1. s \notin Range(exited)
      BY <1>9 DEF Running, Inv, RegistryInv
    <3>2. QED
      BY <1>7, <1>8, <1>9, <2>1, <3>1 DEF Inv, OutputInv, FinalInv
  <2>5. OutputInv'
    <3>1. FinalInv'
      BY <2>4 DEF FinalInv, Below
    <3>2. ReadingInv' /\ ReturningInv'
      BY <2>2 DEF ReadingInv, ReturningInv
    <3>3. QED
      BY <2>1, <3>1, <3>2 DEF OutputInv
  <2>6. TurnInv'
    BY <1>1, <1>7, <1>9, <2>2 DEF Inv, TurnInv, RegistryInv
  <2>7. AliveInv'
    BY <1>1, <1>7, <1>9, <2>2 DEF Inv, AliveInv, Kept
  <2>8. QED
    BY <1>6, <2>3, <2>5, <2>6, <2>7 DEF Inv
<1>10. CASE /\ ~Running(s) /\ delivered' = delivered
            /\ active' = active \ {s} /\ exited' = Without(s)
            /\ call' = [call EXCEPT !.pc = "returning", !.out = out]
  <2>1. /\ exited' \in Seq(Session) /\ IsInjective(exited') /\ Len(exited') <= Retention
        /\ Range(exited') = Range(exited) \ {s}
    <3>1. /\ Without(s) \in Seq(Session) /\ IsInjective(Without(s))
          /\ Range(Without(s)) = Range(exited) \ {s} /\ Len(Without(s)) <= Len(exited)
      BY <1>8, WithoutOne
    <3>2. Len(Without(s)) \in Nat
      BY <3>1
    <3>3. QED
      BY <1>8, <1>10, <3>1, <3>2
  <2>2. call' \in CallRecord /\ call'.pc = "returning" /\ call'.out = out /\ call'.id = s
    <3>1. out \in Seq(Nat)
      <4>1. Len(out) \in Nat /\ out \in [1 .. Len(out) -> Nat]
        <5>1. DOMAIN out = 1 .. Len(out) /\ Len(out) \in Nat /\ out = [i \in DOMAIN out |-> out[i]]
          BY <1>4
        <5>2. \A i \in DOMAIN out : out[i] \in Nat
          BY <1>4, Elements
        <5>3. QED
          BY <5>1, <5>2
      <4>2. QED
        BY <4>1, SeqDef
    <3>2. QED
      BY <1>1, <1>10, <3>1 DEF CallRecord
  <2>3. session[s].watcher \in {"draining", "done"} /\ session[s].process = "dead"
    BY <1>1, <1>10 DEF Running, Sound, SessionRecord
  <2>4. RegistryInv'
    BY <1>1, <1>7, <1>8, <1>10, <2>1 DEF Inv, RegistryInv
  <2>5. CallInv'
    BY <1>1, <1>7, <1>10, <2>1, <2>2, <2>3 DEF Inv, CallInv
  <2>6. OutputInv'
    <3>1. \A p \in Seq(1 .. MaxChunks), m, n \in Nat : Below(p, m) /\ m <= n => Below(p, n)
      BY BelowMore
    <3>2. ASSUME NEW t \in Session
          PROVE  /\ delivered[t] \in Seq(1 .. MaxChunks) /\ Increasing(delivered[t])
                 /\ Below(delivered[t], session'[t].taken)
      <4>1. /\ delivered[t] \in Seq(1 .. MaxChunks) /\ Increasing(delivered[t])
            /\ Below(delivered[t], session[t].taken)
        BY <1>1 DEF GivenInv
      <4>2. QED
        BY <1>7, <3>1, <4>1
    <3>3. GivenInv'
      BY <1>1, <1>10, <3>2 DEF GivenInv, Increasing, Below
    <3>4. \A t \in Range(exited') : Below(delivered[t], session'[t].final)
      BY <1>7, <1>8, <2>1 DEF Inv, OutputInv, FinalInv
    <3>5. FinalInv'
      BY <1>10, <3>4 DEF FinalInv, Below
    <3>6. ReadingInv'
      BY <2>2 DEF ReadingInv
    <3>7. ReturningInv'
      BY <1>4, <1>5, <1>10, <2>2 DEF ReturningInv, Increasing, Below, Before
    <3>8. QED
      BY <3>3, <3>5, <3>6, <3>7 DEF OutputInv
  <2>7. TurnInv'
    <3>1. \A t \in active' : t \in active /\ session'[t].owner = session[t].owner
      BY <1>7, <1>10 DEF Inv, RegistryInv
    <3>2. turn.stops > 0 => turn.pending > 0
      BY <1>1 DEF Inv, TurnInv
    <3>3. QED
      BY <1>1, <2>2, <3>1, <3>2 DEF Inv, TurnInv
  <2>8. AliveInv'
    BY <1>1, <1>7, <1>10, <2>3 DEF Inv, AliveInv, Kept
  <2>9. QED
    BY <1>6, <2>4, <2>5, <2>6, <2>7, <2>8 DEF Inv
<1>11. QED
  BY <1>2, <1>9, <1>10

(* The readers have drained: the result is frozen and the manager takes it. *)
LEMMA DrainedInv == ASSUME Inv, NEW s \in Session, Drained(s) PROVE Inv'
<1> DEFINE r == session[s]
           q == [Stopped(r) EXCEPT !.watcher = "done", !.final = r.taken, !.taken = r.read]
<1>1. /\ Sound(r) /\ r.watcher = "draining" /\ session' = [session EXCEPT ![s] = q]
      /\ active' = active \ {s}
      /\ UNCHANGED <<delivered, closed, closing, aclose, call, turn, abandoned>>
      /\ exited' = exited \/ (s \in active /\ Remember(s))
  BY DEF Drained, SessionStep, Inv, SessionsInv
<1>2. /\ Sound(q) /\ q.final = r.taken /\ q.watcher = "done" /\ q.owner = r.owner
      /\ q.process = "dead" /\ r.taken <= q.taken
  <2>1. \A x : Sound(x) => Sound(Stopped(x)) /\ Stopped(x).taken = x.taken
                           /\ Stopped(x).read = x.read /\ Stopped(x).watcher = x.watcher
                           /\ Stopped(x).owner = x.owner
    BY DEF Sound, Stopped, SessionRecord
  <2> DEFINE k == Stopped(r)
  <2>2. Sound(k) /\ k.taken = r.taken /\ k.read = r.read /\ k.watcher = "draining"
        /\ k.owner = r.owner
    BY <1>1, <2>1
  <2> HIDE DEF k
  <2> DEFINE z == [k EXCEPT !.watcher = "done", !.final = k.taken, !.taken = k.read]
  <2>3. /\ Sound(z) /\ z.final = k.taken /\ z.watcher = "done" /\ z.owner = k.owner
        /\ z.process = "dead" /\ k.taken <= z.taken
    <3>1. k.taken \in Nat /\ k.read \in Nat /\ k.taken \in Chunks /\ k.read \in Chunks
          /\ k.taken <= k.read /\ k.read <= k.written
          /\ k.process = "dead" /\ k \in SessionRecord
      BY <2>2, SessionLimits DEF Sound, SessionRecord, Chunks
    <3>2. z \in SessionRecord /\ z.final = k.taken /\ z.watcher = "done" /\ z.owner = k.owner
          /\ z.process = k.process /\ z.taken = k.read /\ z.read = k.read /\ z.written = k.written
      BY <3>1 DEF SessionRecord
    <3> HIDE DEF z
    <3>3. QED
      BY <3>1, <3>2 DEF Sound
  <2>4. q = z
    BY <2>2 DEF k
  <2> HIDE DEF z, q
  <2>5. QED
    BY <2>2, <2>3, <2>4
<1> HIDE DEF q
<1>3. /\ session' \in [Session -> SessionRecord] /\ session'[s] = q
      /\ \A t \in Session : t # s => session'[t] = session[t]
  BY <1>1, <1>2 DEF Inv, SessionsInv, Sound
<1>4. SessionsInv'
  BY <1>2, <1>3 DEF Inv, SessionsInv
<1>5. /\ exited' \in Seq(Session) /\ IsInjective(exited') /\ Len(exited') <= Retention
      /\ \A t \in Range(exited') : t \in Range(exited) \/ (t = s /\ s \in active)
      /\ Range(exited) \subseteq Session
  <2>1. exited \in Seq(Session) /\ IsInjective(exited) /\ Len(exited) <= Retention
        /\ Range(exited) \subseteq Session
    BY DEF Inv, RegistryInv, Range
  <2>2. CASE exited' = exited
    BY <2>1, <2>2
  <2>3. CASE s \in active /\ Remember(s)
    <3>1. /\ exited' \in Seq(Session) /\ IsInjective(exited') /\ Len(exited') <= Retention
          /\ Range(exited') \subseteq Range(exited) \cup {s}
      BY <2>1, <2>3, Remembered
    <3>2. QED
      BY <2>1, <2>3, <3>1
  <2>4. QED
    BY <1>1, <2>2, <2>3
<1>6. s \notin Range(exited) /\ (call.pc \in {"spawning", "attaching"} => call.id # s)
  BY <1>1 DEF Inv, RegistryInv, CallInv
<1>7. RegistryInv'
  BY <1>1, <1>2, <1>3, <1>5 DEF Inv, RegistryInv
<1>8. CallInv'
  <2>1. call.pc = "returning" => call.id \notin active' \cup Range(exited')
    BY <1>1, <1>5 DEF Inv, CallInv
  <2>2. call.pc = "reading" =>
            /\ session'[call.id].watcher # "none"
            /\ call.exec => session'[call.id].owner = turn.number
    BY <1>1, <1>2, <1>3 DEF Inv, CallInv
  <2>3. call.pc = "returning" => session'[call.id].watcher \in {"draining", "done"}
    BY <1>2, <1>3 DEF Inv, CallInv
  <2>4. QED
    BY <1>1, <1>3, <1>6, <2>1, <2>2, <2>3 DEF Inv, CallInv
<1>9. OutputInv'
  <2>1. \A p \in Seq(1 .. MaxChunks), m, n \in Nat : Below(p, m) /\ m <= n => Below(p, n)
    BY BelowMore
  <2>2. \A t \in Session : session[t].taken \in Nat /\ session'[t].taken \in Nat
    BY <1>4, SessionLimits DEF Inv, SessionsInv, SessionRecord, Chunks
  <2>3. \A t \in Session : session[t].taken <= session'[t].taken
    BY <1>2, <1>3, <2>2
  <2>4. ASSUME NEW t \in Session
        PROVE  /\ delivered[t] \in Seq(1 .. MaxChunks) /\ Increasing(delivered[t])
               /\ Below(delivered[t], session[t].taken) /\ Below(delivered[t], session'[t].taken)
    <3>1. /\ delivered[t] \in Seq(1 .. MaxChunks) /\ Increasing(delivered[t])
          /\ Below(delivered[t], session[t].taken)
      BY DEF Inv, OutputInv, GivenInv
    <3>2. QED
      BY <2>1, <2>2, <2>3, <3>1
  <2>5. GivenInv'
    <3>1. DOMAIN delivered = Session
      BY DEF Inv, OutputInv, GivenInv
    <3>2. QED
      BY <1>1, <2>4, <3>1 DEF GivenInv, Increasing, Below
  <2>6. ASSUME NEW t \in Session, t = s \/ Below(delivered[t], session[t].final)
        PROVE  Below(delivered[t], session'[t].final)
    BY <1>2, <1>3, <2>4, <2>6
  <2>7. \A t \in Range(exited') : Below(delivered[t], session'[t].final)
    BY <1>5, <2>6 DEF Inv, OutputInv, FinalInv
  <2>8. FinalInv'
    BY <1>1, <2>7 DEF FinalInv, Below
  <2>9. call.pc = "reading" /\ session'[call.id].watcher = "done" =>
            Below(delivered[call.id], session'[call.id].final)
    BY <1>3, <2>6 DEF Inv, CallInv, OutputInv, ReadingInv
  <2>10. ReadingInv'
    BY <1>1, <2>9 DEF ReadingInv, Below
  <2>11. ASSUME call.pc = "returning"
         PROVE  /\ call.out \in Seq(1 .. MaxChunks) /\ Increasing(call.out)
                /\ Before(delivered[call.id], call.out)
                /\ Below(call.out, session'[call.id].taken)
    <3>1. /\ call.out \in Seq(1 .. MaxChunks) /\ Increasing(call.out)
          /\ Before(delivered[call.id], call.out) /\ Below(call.out, session[call.id].taken)
          /\ call.id \in Session
      BY <2>11 DEF Inv, OutputInv, ReturningInv, CallInv
    <3>2. QED
      BY <2>1, <2>2, <2>3, <3>1
  <2>12. ReturningInv'
    BY <1>1, <2>11 DEF ReturningInv, Increasing, Below, Before
  <2>13. QED
    BY <2>5, <2>8, <2>10, <2>12 DEF OutputInv
<1>10. TurnInv'
  <2>1. \A t \in active' : t \in active /\ session'[t].owner = session[t].owner
    BY <1>1, <1>2, <1>3 DEF Inv, RegistryInv
  <2>2. QED
    BY <1>1, <2>1 DEF Inv, TurnInv
<1>11. AliveInv'
  <2> SUFFICES ASSUME NEW t \in Session, session'[t].process = "alive"
               PROVE  t \in abandoned \/ t \in active' \cup closing
                      \/ (call.pc \in {"attaching", "terminating"} /\ call.id = t)
    BY <1>1 DEF AliveInv, Kept
  <2>1. t # s /\ session[t].process = "alive"
    BY <1>2, <1>3
  <2>2. QED
    BY <1>1, <2>1 DEF Inv, AliveInv, Kept
<1>12. QED
  BY <1>4, <1>7, <1>8, <1>9, <1>10, <1>11 DEF Inv
-----------------------------------------------------------------------------
LEMMA InitInv == Init => Inv
<1> SUFFICES ASSUME Init PROVE Inv
  OBVIOUS
<1>1. /\ session = [s \in Session |-> Unborn] /\ delivered = [s \in Session |-> <<>>]
      /\ active = {} /\ exited = <<>> /\ closed = FALSE /\ closing = {}
      /\ aclose = [phase |-> "none", waits |-> {}] /\ call = Idle
      /\ turn = [number |-> 1, open |-> TRUE, stops |-> 0, pending |-> 0]
      /\ abandoned = {}
  BY DEF Init
<1>2. {MaxChunks, MaxTurns, MaxStops, Retention} \subseteq Nat /\ MaxTurns # 0
  BY SessionLimits
<1>3. SessionsInv
  <2>1. Sound(Unborn)
    BY <1>2 DEF Sound, SessionRecord, Unborn, Chunks
  <2>2. QED
    BY <1>1, <2>1 DEF SessionsInv, Sound
<1>4. RegistryInv
  <2>1. exited \in Seq(Session) /\ Len(exited) = 0 /\ DOMAIN exited = {}
    BY <1>1
  <2>2. IsInjective(exited) /\ Range(exited) = {}
    BY <2>1 DEF IsInjective, Range
  <2>3. Len(exited) <= Retention
    BY <1>2, <2>1
  <2>4. QED
    BY <1>1, <2>1, <2>2, <2>3 DEF RegistryInv
<1>5. CallInv
  <2>1. <<>> \in Seq(Nat)
    OBVIOUS
  <2>2. QED
    BY <1>1, <2>1 DEF CallInv, CallRecord, Idle
<1>6. OutputInv
  <2>1. <<>> \in Seq(1 .. MaxChunks) /\ DOMAIN <<>> = {}
    OBVIOUS
  <2>2. Increasing(<<>>) /\ \A n : Below(<<>>, n)
    BY <2>1 DEF Increasing, Below
  <2>3. GivenInv
    BY <1>1, <2>1, <2>2 DEF GivenInv
  <2>4. FinalInv
    <3>1. Range(exited) = {}
      BY <1>1 DEF Range
    <3>2. QED
      BY <3>1 DEF FinalInv
  <2>5. QED
    BY <1>1, <2>3, <2>4 DEF OutputInv, ReadingInv, ReturningInv, Idle
<1>7. TurnInv
  BY <1>1, <1>2 DEF TurnInv, Idle, Turn
<1>8. AliveInv
  BY <1>1 DEF AliveInv, Unborn
<1>9. QED
  BY <1>3, <1>4, <1>5, <1>6, <1>7, <1>8 DEF Inv

(* Every step keeps the invariant. *)
LEMMA NextInv == Inv /\ [Next]_vars => Inv'
<1> SUFFICES ASSUME Inv, [Next]_vars PROVE Inv'
  OBVIOUS
<1>1. CASE CallStep
  BY <1>1, ExecFailsInv, SpawnedInv, ReadReturnsInv, ReturnsInv, StartInv, FinalPollInv, LateWriteInv
  DEF CallStep
<1>2. CASE CancelStep
  BY <1>2, TurnSteps, DeliverCancelInv, TerminatedInv, UnwindInv DEF CancelStep
<1>3. CASE CloseStep
  BY <1>3, CloseInv, ProcessInv DEF CloseStep
<1>4. CASE \E s \in Session : ProcessStep(s)
  BY <1>4, ProcessInv, DrainedInv DEF ProcessStep
<1>5. CASE UNCHANGED vars
  BY <1>5 DEF vars, Inv, SessionsInv, RegistryInv, CallInv, OutputInv, GivenInv, FinalInv,
              ReadingInv, ReturningInv, Increasing, Below, Before, TurnInv, AliveInv, Kept, Running
<1>6. QED
  BY <1>1, <1>2, <1>3, <1>4, <1>5 DEF Next

(* Nothing but its own Turn, its exit or a close takes a session away. *)
LEMMA Survives ==
    ASSUME Inv, [Next]_vars, NEW s \in active, session[s].owner # turn.number, s \notin active'
    PROVE  closed' \/ ~Running(s)
<1>1. s \in Session /\ session[s].watcher \in {"waiting", "draining"}
  BY DEF Inv, RegistryInv
<1>2. CASE CallStep
  <2>1. ReadReturns
    BY <1>2 DEF CallStep, ExecFails, Spawned, Attached, Register, Returns, ExecStarts, StdinStarts,
                FinalPoll, LateWrite
  <2>2. QED
    BY <2>1 DEF ReadReturns, Drop
<1>3. CASE CancelStep
  <2>1. CASE DeliverCancel
    <3>1. call.pc = "reading" /\ CancelRead(call.id)
      BY <2>1 DEF DeliverCancel
    <3>2. s = call.id /\ (call.exec \/ session[s].owner = turn.number)
      BY <3>1 DEF CancelRead, Retire, Drop
    <3>3. QED
      BY <3>1, <3>2 DEF Inv, CallInv
  <2>2. CASE Unwind
    BY <2>2 DEF Unwind, CancelActive, OwnedBy
  <2>3. CASE RequestStop \/ Terminated \/ EndTurn \/ NextTurn
    BY <2>3 DEF RequestStop, Terminated, EndTurn, NextTurn
  <2>4. QED
    BY <1>3, <2>1, <2>2, <2>3 DEF CancelStep
<1>4. CASE CloseStep
  BY <1>4 DEF CloseStep, Close, AcloseStarts, AcloseGoesOn, TaskCloses
<1>5. CASE \E t \in Session : ProcessStep(t)
  <2>1. PICK t \in Session : ProcessStep(t)
    BY <1>5
  <2>2. Drained(t)
    BY <2>1 DEF ProcessStep, Writes, Exits, ReaderReads, TimerFires, Observes
  <2>3. t = s /\ session[t].watcher = "draining"
    BY <2>2 DEF Drained
  <2>4. QED
    BY <2>3 DEF Running
<1>6. CASE UNCHANGED vars
  BY <1>6 DEF vars
<1>7. QED
  BY <1>2, <1>3, <1>4, <1>5, <1>6 DEF Next

(* The registries and the counters of ProcessManager, the call it serves and    *)
(* the output on its way are consistent with each other in every reachable state. *)
THEOREM SessionsConsistent == Spec => []Inv
<1>1. Init => Inv
  BY InitInv
<1>2. Inv /\ [Next]_vars => Inv'
  BY NextInv
<1>3. QED
  BY <1>1, <1>2, PTL DEF Spec

(* Every variable of ProcessManager has its type, and the completed sessions    *)
(* are distinct and never more than max_completed_sessions.                   *)
THEOREM TypesCorrect == Spec => []TypeOK
<1>1. Inv => TypeOK
  <2> SUFFICES ASSUME Inv PROVE TypeOK
    OBVIOUS
  <2>1. \A s \in Session : delivered[s] \in Seq(1 .. MaxChunks)
    BY DEF Inv, OutputInv, GivenInv
  <2>2. /\ active \subseteq {s \in Session : session[s].watcher # "none"}
        /\ Range(exited) \subseteq {s \in Session : session[s].watcher = "done"}
    BY DEF Inv, RegistryInv, Range
  <2>3. QED
    BY <2>1, <2>2 DEF TypeOK, Inv, SessionsInv, RegistryInv, CallInv, TurnInv
<1>2. QED
  BY <1>1, SessionsConsistent, PTL

(* The model is given every chunk of output at most once and in order,          *)
(* whichever of a poll, the exit, the final poll and a retirement brings it.   *)
THEOREM OutputCollectedOnce == Spec => []CollectedOnce
<1>1. Inv => CollectedOnce
  BY DEF Inv, OutputInv, GivenInv, Increasing, CollectedOnce
<1>2. QED
  BY <1>1, SessionsConsistent, PTL

(* When aclose has returned and the Turn and the cleanup tasks are done, no     *)
(* process runs but those a cancellation left between two steps of their start  *)
(* or of their termination.                                                   *)
THEOREM NoOrphanLeft == Spec => []NoOrphan
<1>1. Inv => NoOrphan
  <2> SUFFICES ASSUME Inv, Quiet, NEW s \in Alive PROVE s \in abandoned
    BY DEF NoOrphan
  <2>1. active = {} /\ closing = {} /\ call.pc = "idle"
    BY DEF Quiet, Inv, TurnInv
  <2>2. QED
    BY <2>1 DEF Alive, Inv, AliveInv, Kept
<1>2. QED
  BY <1>1, SessionsConsistent, PTL

(* Neither the cancellation of a later Turn that polls a session nor that       *)
(* Turn's own cleanup ends a session of another Turn.                         *)
THEOREM OthersSurvive == Spec => SurvivesOtherTurns
<1>1. Inv /\ [Next]_vars =>
          [\A s \in active : session[s].owner # turn.number /\ s \notin active'
               => closed' \/ ~Running(s)]_vars
  BY Survives
<1>2. QED
  BY <1>1, SessionsConsistent, PTL DEF Spec, SurvivesOtherTurns
=============================================================================
