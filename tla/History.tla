------------------------------- MODULE History -------------------------------
(* agent.runtime.history: how a canonical history is cut into atomic units,    *)
(* pruned, split into a raw tail and a region to compact, and covered by a     *)
(* rolling checkpoint.  A history is the sequence of messages that follow the  *)
(* canonical system message, which every request renders from its own source.  *)
(* A message is a record: its role, its size in tokens, the number of tool     *)
(* calls it makes and, for a tool message, the call it answers, named by the   *)
(* position of the message that made it and its rank there.                    *)
EXTENDS Naturals, Sequences, FiniteSets, FiniteSetsExt

CONSTANTS Usable,           \* ContextBudgetPolicy.usable_input_tokens
          SoftPercent,      \* soft_threshold
          TailPercent,      \* recent_tail_ratio
          PruneThreshold,   \* a longer tool result is replaced by a marker
          MarkerSize,       \* the tokens of that marker
          Overhead,         \* the sections, tools and framing of a request
          SummarySize,      \* the tokens of a synthetic summary
          CompactOverhead   \* the prompt and framing of a compaction request

ASSUME HistoryBounds ==
    /\ {Usable, PruneThreshold, MarkerSize, Overhead, SummarySize, CompactOverhead} \subseteq Nat
    /\ SoftPercent \in 1..100 /\ TailPercent \in 1..100

Message(role, size) == [role |-> role, size |-> size, calls |-> 0, call |-> <<0, 0>>]
-----------------------------------------------------------------------------
(* parse_atomic_history.  A message with tool calls extends to the last of    *)
(* their results or, while one is missing, to the end of the history.          *)
Results(h, i) == {j \in (i + 1)..Len(h) : h[j].role = "tool" /\ h[j].call[1] = i}
Answered(h, i) == {h[j].call[2] : j \in Results(h, i)} = 1..h[i].calls
UnitEnd(h, i) == IF h[i].calls = 0 THEN i
                 ELSE IF Answered(h, i) THEN Max(Results(h, i)) ELSE Len(h)

(* Fault: a call and its results are units of their own. *)
SplitUnits(h) == DOMAIN h

(* The units, each named by its first position: a position belongs to the unit *)
(* of the one before it, or begins one.                                        *)
Units(h) ==
    LET first[i \in DOMAIN h] ==
            IF i = 1 THEN {1}
            ELSE {IF i <= UnitEnd(h, f) THEN f ELSE i : f \in first[i - 1]}
    IN  UNION {first[i] : i \in DOMAIN h}

Unit(h, u) == u..UnitEnd(h, u)
Closed(h, u) == h[u].role # "tool" /\ (h[u].calls > 0 => Answered(h, u))
IsTool(h, u) == h[u].role = "tool" \/ h[u].calls > 0
Covered(h, u, covered) == UnitEnd(h, u) <= covered
Positions(h, us) == UNION {Unit(h, u) : u \in us}
-----------------------------------------------------------------------------
(* ToolResultPruner.prune: the results replaced by a marker.  An open unit    *)
(* and a trailing interaction the model has not seen yet are left alone.       *)
Prunable(h) ==
    {i \in DOMAIN h :
        /\ h[i].role = "tool" /\ h[i].size > PruneThreshold
        /\ \E u \in Units(h) : /\ i \in Unit(h, u) /\ Closed(h, u)
                               /\ ~(u = Max(Units(h)) /\ IsTool(h, u))}

Weight(h, pruned, is) ==
    MapThenSumSet(LAMBDA i : IF i \in pruned THEN MarkerSize ELSE h[i].size, is)
UnitWeight(h, pruned, us) == Weight(h, pruned, Positions(h, us))
-----------------------------------------------------------------------------
(* RecentRawTailSelector.select: what is always raw, then the newest units     *)
(* up to and including the one that reaches the target.                        *)
Target == (Usable * TailPercent) \div 100

Protected(h, covered) ==
    {u \in Units(h) :
        /\ ~Covered(h, u, covered)
        /\ \/ ~Closed(h, u)
           \/ IsTool(h, u) /\ \A v \in Units(h) : IsTool(h, v) => v <= u}

RawTail(h, pruned, covered) ==
    LET base == Protected(h, covered)
        free == {u \in Units(h) \ base : ~Covered(h, u, covered)}
    IN  base \cup {u \in free :
            UnitWeight(h, pruned, base \cup {v \in free : v > u}) < Target}

(* promote_retained_prefix_for_compaction: of the eligible units the largest,  *)
(* the later of two, and with it every closed unit that ends no later.         *)
Moved(h, pruned, tail, eligible) ==
    LET size(u) == UnitWeight(h, pruned, {u})
        largest == {u \in eligible : \A v \in eligible :
                        size(v) < size(u) \/ (size(v) = size(u) /\ v <= u)}
    IN  {u \in tail : Closed(h, u) /\ \E chosen \in largest : UnitEnd(h, u) <= UnitEnd(h, chosen)}

(* Fault: the latest interaction may be the largest. *)
PromotedAny(h, pruned, tail) ==
    tail \ Moved(h, pruned, tail, {u \in tail : Closed(h, u)})

Promoted(h, pruned, tail) ==
    LET tools == {u \in tail : IsTool(h, u)}
        eligible == {u \in tail : Closed(h, u) /\ (u \in tools => u # Max(tools))}
    IN  tail \ Moved(h, pruned, tail, eligible)

(* The compact candidates of a selection that no checkpoint covers yet. *)
Candidates(h, tail, covered) ==
    {u \in Units(h) \ tail : ~Covered(h, u, covered)}
-----------------------------------------------------------------------------
(* CompactionCheckpoint: covered counts the positions of the covered prefix,   *)
(* prefix stands for its fingerprint, and known is what the summary was made   *)
(* from, directly or through the summary it replaced.                          *)
NoCheckpoint == [covered |-> 0, known |-> {}, prefix |-> <<>>]

(* valid_for_history *)
ValidFor(c, h) ==
    /\ c.covered <= Len(h)
    /\ c.covered > 0 => \E u \in Units(h) : UnitEnd(h, u) = c.covered
    /\ c.prefix = SubSeq(h, 1, c.covered)

(* LLMHistoryCompactor._bounded_messages: the chronological prefix of the      *)
(* candidates whose request fits, or nothing when the first does not.          *)
CompactWeight(h, pruned, us, c) ==
    CompactOverhead + (IF c = NoCheckpoint THEN 0 ELSE SummarySize) + UnitWeight(h, pruned, us)
Source(h, pruned, candidates, c) ==
    {u \in candidates :
        CompactWeight(h, pruned, {v \in candidates : v <= u}, c) <= Usable}

(* RollingSemanticCompactor.compact: the checkpoint after a summary of source. *)
Rolled(h, source, c) ==
    LET end == Max({UnitEnd(h, u) : u \in source})
    IN  [covered |-> end, known |-> c.known \cup Positions(h, source),
         prefix |-> SubSeq(h, 1, end)]

(* Conversation.append_interrupted_tool_results, in the order of the calls. *)
Interrupted(h) ==
    LET made == {<<i, k>> : i \in DOMAIN h, k \in 1..Max({0} \cup {h[j].calls : j \in DOMAIN h})}
        open == {c \in made : c[2] <= h[c[1]].calls
                              /\ \A j \in Results(h, c[1]) : h[j].call # c}
        rank(c) == Cardinality({d \in open : d[1] < c[1] \/ (d[1] = c[1] /\ d[2] <= c[2])})
    IN  h \o [n \in 1..Cardinality(open) |->
                [Message("tool", MarkerSize) EXCEPT
                    !.call = CHOOSE c \in open : rank(c) = n]]
=============================================================================
