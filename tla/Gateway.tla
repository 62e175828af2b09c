------------------------------ MODULE Gateway ------------------------------
(***************************************************************************)
(* The two chat handlers (src/main.rs) with the record of each request     *)
(* (src/telemetry.rs).  A handler explores, classifies, forwards - what    *)
(* forward does is the Ladder, which Escalation implements - and relays the*)
(* answer.  A stream is metered on its way, and its record is written when *)
(* the body ends.  The tier the router chose is the environment's choice.  *)
(***************************************************************************)
EXTENDS Tiers, Integers, Sequences

CONSTANTS Requests,
          Configs,
          Sizes,       \* estimates of a request, in tokens
          Evidence,    \* estimates of the context the explorer adds, its heading included
          Counts,      \* completion_tokens an upstream reports, two digits
          MaxChunks    \* bound on the chunks of a stream, its end apart

NoCount == -1
NoCost  == [tier |-> NoTier, input |-> 0, output |-> NoCount]

ConfigType == [enabled: BOOLEAN, shadowMode: BOOLEAN, shadowTier: Tier \cup {NoTier},
               log: BOOLEAN, explore: BOOLEAN, budget: Nat]

ASSUME GatewayAssumption ==
  /\ Configs \subseteq ConfigType
  /\ Sizes \subseteq Nat /\ Evidence \subseteq Nat \ {0}
  /\ Counts \subseteq Nat /\ MaxChunks \in Nat \ {0}

VARIABLES cfg,
          pc,                   \* where the handler, or the body it returned, is
          ask,                  \* what the client sent
          metrics,              \* ExploreMetrics
          record,               \* RoutingRecord
          phase, rung, climbs,  \* the request on the ladder
          seen, cut,            \* the meter: tokens, and digits still to come
          said,                 \* history: the usage the upstream reported
          chunks,
          emitted,              \* the records that were emitted, in order
          pending, lines,       \* writes in flight, and the lines of the log
          unwritten             \* history: requests whose line met an error

ladder == <<phase, rung, climbs>>
meter == <<seen, cut, said, chunks>>
log == <<emitted, pending, lines, unwritten>>
vars == <<cfg, pc, ask, metrics, record, ladder, meter, log>>

L == INSTANCE Ladder WITH budget <- cfg.budget

NoAsk == [endpoint |-> "none", stream |-> FALSE, size |-> 0]
NoMetrics == [ran |-> FALSE, pre |-> 0, post |-> 0]
NoRecord == [classified |-> NoTier, effective |-> NoTier, served |-> NoTier,
             escalations |-> 0, shadow |-> FALSE, stream |-> FALSE, input |-> 0,
             output |-> NoCount, cost |-> NoCost, premium |-> FALSE,
             explored |-> FALSE, pre |-> 0, post |-> 0]

Init ==
  /\ cfg \in Configs
  /\ pc = [r \in Requests |-> "idle"]
  /\ ask = [r \in Requests |-> NoAsk]
  /\ metrics = [r \in Requests |-> NoMetrics]
  /\ record = [r \in Requests |-> NoRecord]
  /\ phase = [r \in Requests |-> "new"]
  /\ rung = [r \in Requests |-> NoTier]
  /\ climbs = [r \in Requests |-> 0]
  /\ seen = [r \in Requests |-> NoCount] /\ cut = [r \in Requests |-> NoCount]
  /\ said = [r \in Requests |-> NoCount] /\ chunks = [r \in Requests |-> 0]
  /\ emitted = <<>> /\ pending = {} /\ lines = <<>> /\ unwritten = {}

-----------------------------------------------------------------------------
\* Telemetry: shadow routing takes effect only while records are kept.

IsShadow == cfg.enabled /\ cfg.shadowMode /\ cfg.shadowTier # NoTier

\* Broken variant: shadow mode overrides the route without telemetry.
EffectiveUntraced(t) == IF cfg.shadowMode /\ cfg.shadowTier # NoTier THEN cfg.shadowTier ELSE t

EffectiveTier(t) == IF IsShadow THEN cfg.shadowTier ELSE t

\* cost_usd depends on the tier, whose provider has the prices, and on the tokens.
Cost(tier, input, output) == [tier |-> tier, input |-> input, output |-> output]

\* Telemetry::record: the record is emitted, and then appended to the log.
Record(r) ==
  /\ emitted' = IF cfg.enabled THEN Append(emitted, [req |-> r, rec |-> record'[r]]) ELSE emitted
  /\ pc' = [pc EXCEPT ![r] = IF cfg.enabled /\ cfg.log THEN "append" ELSE "done"]
  /\ UNCHANGED <<pending, lines, unwritten>>

-----------------------------------------------------------------------------
Goto(r, l) == pc' = [pc EXCEPT ![r] = l]

\* run_explore_stage starts only on a fresh task with a query to explore.
Receive(r) ==
  /\ pc[r] = "idle"
  /\ \E e \in {"chat", "messages"}, s \in BOOLEAN, n \in Sizes :
       /\ ask' = [ask EXCEPT ![r] = [endpoint |-> e, stream |-> s, size |-> n]]
       /\ metrics' = [metrics EXCEPT ![r] = [ran |-> FALSE, pre |-> n, post |-> n]]
  /\ Goto(r, "classify") \/ (cfg.explore /\ Goto(r, "explore"))
  /\ UNCHANGED <<cfg, record, ladder, meter, log>>

\* The evidence is injected; a failure, or nothing found, changes nothing.
Explore(r) ==
  /\ pc[r] = "explore"
  /\ \/ \E n \in Evidence :
          metrics' = [metrics EXCEPT ![r] =
                        [ran |-> TRUE, pre |-> ask[r].size, post |-> ask[r].size + n]]
     \/ UNCHANGED metrics
  /\ Goto(r, "classify")
  /\ UNCHANGED <<cfg, ask, record, ladder, meter, log>>

\* The router's tier, the effective tier, and the record built from both.
Classify(r) ==
  /\ pc[r] = "classify" /\ UNCHANGED cfg
  /\ \E t \in Tier :
       /\ record' = [record EXCEPT ![r] =
            [NoRecord EXCEPT !.classified = t, !.effective = EffectiveTier(t),
                             !.served = EffectiveTier(t), !.shadow = IsShadow,
                             !.stream = ask[r].stream, !.input = metrics[r].post,
                             !.explored = metrics[r].ran, !.pre = metrics[r].pre,
                             !.post = metrics[r].post]]
       /\ L!Enter(r) /\ rung'[r] = EffectiveTier(t)
  /\ Goto(r, "forward")
  /\ UNCHANGED <<ask, metrics, meter, log>>

Climb(r) ==
  /\ pc[r] = "forward" /\ UNCHANGED cfg
  /\ L!Climb(r)
  /\ UNCHANGED <<pc, ask, metrics, record, meter, log>>

\* forward returned; its answer, or its error, comes from the rung reached.
Returned(r) == pc[r] = "forward" /\ UNCHANGED cfg /\ L!Finish(r) /\ phase'[r] = "answered"

Served(r) ==
  [record[r] EXCEPT !.served = rung[r], !.escalations = climbs[r],
                    !.premium = (rung[r] = "Complex")]

\* An error leaves the handler at once.
ForwardFails(r) ==
  /\ Returned(r)
  /\ Goto(r, "failed")
  /\ UNCHANGED <<ask, metrics, record, meter, log>>

\* Broken variant: the record of a completed answer is not emitted.
AnswerUnrecorded(r) ==
  /\ Returned(r)
  /\ ~ask[r].stream
  /\ record' = [record EXCEPT ![r] = Served(r)]
  /\ Goto(r, "done")
  /\ UNCHANGED <<ask, metrics, meter, log>>

\* A completed answer: finalize_record with its usage, then the record.
ForwardAnswers(r) ==
  /\ Returned(r)
  /\ ~ask[r].stream
  /\ \E n \in Counts, i \in Sizes :
       record' = [record EXCEPT ![r] = [Served(r) EXCEPT !.input = i, !.output = n,
                                                         !.cost = Cost(rung[r], i, n)]]
  /\ Record(r)
  /\ UNCHANGED <<ask, metrics, meter>>

\* A stream: relayed as it is, or translated into Anthropic events.
ForwardStreams(r) ==
  /\ Returned(r)
  /\ ask[r].stream
  /\ record' = [record EXCEPT ![r] = Served(r)]
  /\ Goto(r, IF ask[r].endpoint = "chat" THEN "relay" ELSE "opening")
  /\ UNCHANGED <<ask, metrics, meter, log>>

-----------------------------------------------------------------------------
\* meter: what the client pulls is scanned for the usage on its way.

\* A chunk passes; n is the count the scan ends on, or NoCount if it finds none.
Pass(r, from, n) ==
  /\ pc[r] = from
  /\ chunks' = [chunks EXCEPT ![r] = chunks[r] + 1]
  /\ seen' = IF cfg.enabled /\ n # NoCount THEN [seen EXCEPT ![r] = n] ELSE seen
  /\ UNCHANGED <<cfg, ask, metrics, record, ladder, log>>

TextChunk(r) ==
  /\ chunks[r] < MaxChunks
  /\ \E from \in {"relay", "events"} :
       Pass(r, from, NoCount) /\ cut[r] = NoCount /\ UNCHANGED <<pc, cut, said>>

UsageChunk(r) ==
  \E n \in Counts :
    /\ chunks[r] < MaxChunks
    /\ Pass(r, "relay", n) /\ cut[r] = NoCount
    /\ said' = [said EXCEPT ![r] = n]
    /\ UNCHANGED <<pc, cut>>

\* A chunk that ends before the number, or between its digits.
SplitUsage(r) ==
  \E n \in Counts :
    /\ chunks[r] < MaxChunks
    /\ Pass(r, "relay", NoCount) \/ Pass(r, "relay", n \div 10)
    /\ cut[r] = NoCount
    /\ cut' = [cut EXCEPT ![r] = n]
    /\ UNCHANGED <<pc, said>>

\* Broken variant: each chunk is scanned by itself.
RestUnseen(r) ==
  /\ cut[r] # NoCount /\ Pass(r, "relay", NoCount)
  /\ said' = [said EXCEPT ![r] = cut[r]]
  /\ cut' = [cut EXCEPT ![r] = NoCount]
  /\ UNCHANGED pc

\* The tail kept from earlier chunks makes the number whole.
RestOfUsage(r) ==
  /\ cut[r] # NoCount /\ Pass(r, "relay", cut[r])
  /\ said' = [said EXCEPT ![r] = cut[r]]
  /\ cut' = [cut EXCEPT ![r] = NoCount]
  /\ UNCHANGED pc

\* message_start, with output_tokens 0.
OpenMessage(r) == Pass(r, "opening", 0) /\ Goto(r, "events") /\ UNCHANGED <<cut, said>>

\* The closing message_delta: the usage reported upstream, or 0.
CloseMessage(r) ==
  /\ Goto(r, "closing") /\ UNCHANGED cut
  /\ \/ \E n \in Counts : Pass(r, "events", n) /\ said' = [said EXCEPT ![r] = n]
     \/ Pass(r, "events", 0) /\ UNCHANGED said

\* Broken variant: the end waits for a count.
StreamEndsCounted(r) ==
  /\ pc[r] \in {"relay", "closing"} /\ seen[r] > 0
  /\ record' = [record EXCEPT ![r] =
       [record[r] EXCEPT !.output = seen[r],
                         !.cost = Cost(record[r].served, record[r].input, seen[r])]]
  /\ Record(r)
  /\ UNCHANGED <<cfg, ask, metrics, ladder, meter>>

\* The body is over: a count that was seen is recorded and priced.
StreamEnds(r) ==
  /\ pc[r] \in {"relay", "closing"}
  /\ record' = [record EXCEPT ![r] =
       [record[r] EXCEPT !.output = seen[r],
          !.cost = IF seen[r] = NoCount THEN NoCost
                   ELSE Cost(record[r].served, record[r].input, seen[r])]]
  /\ Record(r)
  /\ UNCHANGED <<cfg, ask, metrics, ladder, meter>>

\* An error in a relayed body: the server gives the body up.
StreamBreaks(r) ==
  /\ pc[r] = "relay"
  /\ Goto(r, "failed")
  /\ UNCHANGED <<cfg, ask, metrics, record, ladder, meter, log>>

\* append_jsonl: the file is opened, and the line handed to a write that nobody
\* waits for, or it cannot be opened.
AppendLine(r) ==
  /\ pc[r] = "append"
  /\ \/ pending' = pending \cup {r} /\ UNCHANGED unwritten
     \/ unwritten' = unwritten \cup {r} /\ UNCHANGED pending
  /\ Goto(r, "done")
  /\ UNCHANGED <<cfg, ask, metrics, record, ladder, meter, emitted, lines>>

\* Broken variant: the file is opened for writing, and its handle is at the start.
WriteLineAtStart(r) ==
  /\ r \in pending
  /\ pending' = pending \ {r}
  /\ \/ lines' = <<r>> \o SubSeq(lines, 2, Len(lines)) /\ UNCHANGED unwritten
     \/ unwritten' = unwritten \cup {r} /\ UNCHANGED lines
  /\ UNCHANGED <<cfg, pc, ask, metrics, record, ladder, meter, emitted>>

\* The write lands, in whatever order and at the end of the file, or fails unseen.
WriteLine(r) ==
  /\ r \in pending
  /\ pending' = pending \ {r}
  /\ \/ lines' = Append(lines, r) /\ UNCHANGED unwritten
     \/ unwritten' = unwritten \cup {r} /\ UNCHANGED lines
  /\ UNCHANGED <<cfg, pc, ask, metrics, record, ladder, meter, emitted>>

Ended == {"done", "failed", "gone"}

\* The client leaves: the handler, or the body, is dropped where it stands.
Disconnect(r) ==
  /\ pc[r] \notin Ended \cup {"idle"} /\ UNCHANGED cfg
  /\ Goto(r, "gone")
  /\ IF pc[r] = "forward" THEN L!Finish(r) /\ phase'[r] = "gone" ELSE UNCHANGED ladder
  /\ UNCHANGED <<ask, metrics, record, meter, log>>

Quiet == (\A r \in Requests : pc[r] \in Ended \cup {"idle"}) /\ pending = {} /\ UNCHANGED vars

Handle(r) ==
  \/ Explore(r) \/ Classify(r) \/ Climb(r)
  \/ ForwardFails(r) \/ ForwardAnswers(r) \/ ForwardStreams(r)

Relay(r) ==
  \/ TextChunk(r) \/ UsageChunk(r) \/ SplitUsage(r) \/ RestOfUsage(r)
  \/ OpenMessage(r) \/ CloseMessage(r)

Next ==
  \/ \E r \in Requests :
       \/ Receive(r) \/ Handle(r) \/ Relay(r) \/ StreamEnds(r) \/ StreamBreaks(r)
       \/ AppendLine(r) \/ WriteLine(r) \/ Disconnect(r)
  \/ Quiet

Spec == Init /\ [][Next]_vars

\* forward returns (EveryRequestSettles of Escalation), a stream ends or breaks
\* (the client's timeout), and the client keeps pulling until it leaves.
FairSpec ==
  /\ Spec
  /\ \A r \in Requests :
       /\ WF_vars(Handle(r)) /\ WF_vars(Relay(r))
       /\ WF_vars(StreamEnds(r) \/ StreamBreaks(r))
       /\ WF_vars(AppendLine(r)) /\ WF_vars(WriteLine(r))

-----------------------------------------------------------------------------
CostType == [tier: Tier \cup {NoTier}, input: Nat, output: Nat \cup {NoCount}]

RecordType ==
  [classified: Tier \cup {NoTier}, effective: Tier \cup {NoTier}, served: Tier \cup {NoTier},
   escalations: Nat, shadow: BOOLEAN, stream: BOOLEAN, input: Nat,
   output: Nat \cup {NoCount}, cost: CostType, premium: BOOLEAN,
   explored: BOOLEAN, pre: Nat, post: Nat]

Steps == {"idle", "explore", "classify", "forward", "relay", "opening", "events",
          "closing", "append"}

\* Every variable has its type, and the ladder is climbed while forward runs.
TypeOK ==
  /\ cfg \in Configs
  /\ pc \in [Requests -> Steps \cup Ended]
  /\ ask \in [Requests -> [endpoint: {"none", "chat", "messages"}, stream: BOOLEAN, size: Nat]]
  /\ metrics \in [Requests -> [ran: BOOLEAN, pre: Nat, post: Nat]]
  /\ record \in [Requests -> RecordType]
  /\ phase \in [Requests -> {"new", "trying", "answered", "gone"}]
  /\ rung \in [Requests -> Tier \cup {NoTier}]
  /\ climbs \in [Requests -> Nat]
  /\ seen \in [Requests -> Nat \cup {NoCount}]
  /\ cut \in [Requests -> Counts \cup {NoCount}]
  /\ said \in [Requests -> Counts \cup {NoCount}]
  /\ chunks \in [Requests -> Nat]
  /\ emitted \in Seq([req: Requests, rec: RecordType])
  /\ pending \subseteq Requests
  /\ lines \in Seq(Requests)
  /\ unwritten \subseteq Requests
  /\ \A r \in Requests : phase[r] = "trying" <=> pc[r] = "forward"

RecordsOf(r) == {i \in DOMAIN emitted : emitted[i].req = r}

\* A request that was served to its end has one record, and no request has two;
\* without telemetry there is none.
RecordedWhenServed ==
  \A r \in Requests :
    /\ \A i, j \in RecordsOf(r) : i = j
    /\ cfg.enabled /\ pc[r] \in {"append", "done"} => RecordsOf(r) # {}
    /\ ~cfg.enabled => RecordsOf(r) = {}

\* The tiers of a record fit together: the served one lies above the effective
\* one by the escalations, and only a shadow route differs from the classified.
RouteFits(rec) ==
  /\ rec.shadow => rec.effective = cfg.shadowTier
  /\ rec.effective # rec.classified => rec.shadow

Fits(rec) ==
  /\ RouteFits(rec)
  /\ Rank[rec.served] = Rank[rec.effective] + rec.escalations
  /\ rec.escalations <= cfg.budget
  /\ rec.premium <=> rec.served = "Complex"

\* Every record that is emitted fits, wherever shadow mode and escalation took
\* its request.
RecordsFit == \A i \in DOMAIN emitted : Fits(emitted[i].rec)

\* Nothing is served below the shadow tier, and nothing is overridden unless it
\* is recorded.
ShadowIsTraced ==
  \A r \in Requests : pc[r] \in {"relay", "events", "append", "done"} =>
    /\ IsShadow => Rank[rung[r]] >= Rank[cfg.shadowTier]
    /\ ~cfg.enabled => Rank[rung[r]] = Rank[record[r].classified] + climbs[r]

\* The tiers add up, in the records and in what is served: classified, effective
\* and served tier differ by the shadow route and the escalations, and by those
\* only.
TiersAddUp == RecordsFit /\ ShadowIsTraced

\* The output of a stream is the count the upstream reported last, however its
\* digits were cut into chunks; its input is the size of what was forwarded, the
\* evidence included.  A record is priced if and only if its output is known, by
\* its own tokens and at the tier that served the request.
MeteredExactly ==
  \A i \in DOMAIN emitted :
    LET r == emitted[i].req
        rec == emitted[i].rec
    IN /\ rec.stream /\ cut[r] = NoCount =>
            \/ rec.output = said[r]
            \/ said[r] = NoCount /\ ask[r].endpoint = "messages" /\ rec.output = 0
       /\ rec.stream => rec.input = rec.post /\ (rec.explored <=> rec.post > ask[r].size)
       /\ rec.cost = IF rec.output = NoCount THEN NoCost
                     ELSE Cost(rec.served, rec.input, rec.output)

\* In whatever order the writes of concurrent requests land, each line of the log is
\* the record of one request, no record has two lines, and no line is lost: of a
\* request that is done there is the line, or its write in flight, or an error met.
LogIsComplete ==
  /\ \A i, j \in DOMAIN lines : lines[i] = lines[j] => i = j
  /\ \A i \in DOMAIN lines : RecordsOf(lines[i]) # {} /\ lines[i] \notin pending \cup unwritten
  /\ cfg.enabled /\ cfg.log =>
       \A r \in Requests : pc[r] = "done" =>
         r \in pending \cup unwritten \cup {lines[i] : i \in DOMAIN lines}

\* Every request comes to an end.
EveryRequestEnds == \A r \in Requests : pc[r] \in {"explore", "classify"} ~> pc[r] \in Ended
=============================================================================
