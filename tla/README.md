# token-miser, specified in TLA+

token-miser is a gateway between coding agents and language-model providers. A
client sends a chat request (OpenAI or Anthropic format); the gateway may explore
the client's repository for evidence, picks one of three model *tiers* for the
request, forwards it to the provider of that tier, retries on a higher tier when the
answer is bad, translates the answer, and records what it did. This directory holds
TLA+ specifications of its core, checked by TLC on small instances and, where the
prover reaches, proved by TLAPS for all of them.

    tlc  -workers 2 -config esc_one.cfg MCEscalation    # a run
    tlapm EscalationProofs.tla                          # a proof

`PROJECT.json` lists components, runs, theorems, hazards, the source lines of every
definition (`map`) and, for each property, a mutated definition that breaks it.

## 1. Inventory: the system and what makes it correct

The process is one tokio runtime with an axum server. Its shared state is `AppState`
(`main.rs`): the configuration, read once; the `Proxy` with its token cache; the
`Router` with its classifiers and the cell of centroids; `Telemetry` with the path of
the log; and `Discovery` behind a mutex. Everything else lives in the future of one
request, and *that future can be dropped at any await* when the client leaves.

| Component | Source | State | Operations | Correct if | Here |
|---|---|---|---|---|---|
| Quality escalation | `proxy.rs` `forward`, `forward_once`, `judge_adequate`, `get_github_token` | token cache; per request: tier, escalations | try a tier, check the answer, ask the judge, climb, return | at most one rung per climb within the budget; sound answers and deterministic errors are never retried, failed answers are while there is somewhere to go; the judge never costs an answer; the last answer is returned | `Ladder`, `Degeneracy`, `Escalation` |
| Streaming look-ahead | `proxy.rs` `lookahead`, `prefix_is_degenerate`, the replay in `forward` | held-back frames, parsed prefix | read a window, judge it, replay, go live | nothing held back is lost, repeated or overtaken; the hold-back is bounded; the verdict does not depend on how the bytes are cut | `Degeneracy`, `Lookahead` |
| Anthropic stream adapter | `anthropic_stream.rs` | open block, next index, blocks of the tools, stop reason, usage, queue of events | ingest chunks, queue events, finalize | every prefix is a legal Messages stream; text and arguments in order; the end is reported truthfully and always comes | `AnthropicProtocol`, `AnthropicStream` |
| Explorer loop | `explore/client.rs` | history, last text, tasks of the batch | ask, run tools side by side, join, flush | each tool call is answered once under its own id, in order; statistics true; it ends | `ExploreLoop` |
| Router, intent, semantic, cluster | `router.rs`, `intent.rs`, `semantic.rs`, `cluster.rs` | `OnceCell` of centroids | rules, embedding, cluster, keywords, gate | explicit requests wait for nothing; the gate holds for every classifier; failures cost only time; the centroids are computed under one permit | `Router` |
| Handlers and telemetry | `main.rs`, `telemetry.rs` | per request: record, meter; the log file | explore, classify, forward, relay, meter, record, append | one record per served request, whose tiers, tokens and cost agree with what happened | `Gateway` |
| Model discovery and the status handlers | `discovery.rs`, `handle_models` and `handle_health` of `main.rs` | catalogue and mutex | answer from the catalogue, ask a source that is not in it, queue up, probe the cluster | all callers are told the same; whoever leaves, the next in the queue is served; a probe waits for no listing | `Catalogue`, `Discovery` |
| Evidence expansion | `explore/expand.rs`, `explore/mod.rs` | none | parse the citations of the final answer, read them in order, fit them to the budgets | neither cap is exceeded, markers included; a snippet shows the lines it claims; one bad citation costs nothing but itself | `Evidence` |
| Format conversion and evidence injection | `main.rs`, `models.rs` | none here; the agent's history | Anthropic history to OpenAI messages, evidence in front, OpenAI answer back to blocks | the upstream gets a legal history in which nothing is lost; evidence stands where it cannot split a call from its result; an answer survives both ways | `Conversation` |
| Exploration tools | `explore/tools.rs` | none | read, glob, grep over the local tree | a read keeps its three bounds | partly: `read` in `Evidence`; `glob` and `grep` walk the file system, and of each call one observation reaches the loop |
| Configuration | `config.rs` | none | deserialise, defaults, overrides from the environment | | not modelled: runs once, before anything else; its fields are the `Configs` of each module |

**Interactions.** A handler calls the explorer loop, then `Router::classify`, then
`Telemetry::effective_tier`, then `Proxy::forward`, which calls `lookahead` on a stream;
the answer passes through the adapter (Messages endpoint) and through `meter`, whose end
writes the record. Requests meet in four places only: the token cache
(`Escalation`), the cell of centroids (`Router`), the log (`Gateway`) and the discovery
mutex (`Discovery`). One agent's requests are tied together by the history it resends
(`Conversation`).

**Hard behaviours**, listed line by line under `hazards` in `PROJECT.json`: futures that
are dropped between two awaits, with a permit in hand or with tasks that run on; a cache
that is read under one lock and written under another; bytes cut anywhere; streams that
end, break, or never send `[DONE]`; calls of one batch that finish in any order or panic;
a judge, an embedder or a cluster that fails after the main answer is there; writes
nobody waits for; a mutex held across calls that have no timeout; a history converted
anew with every turn; off-by-ones of budgets, turn caps and windows.

## 2. Modules

Modules named `MC…` only give constants to a module for TLC, modules named `…Proofs`
only hold proofs; `EvidenceProofs` holds those of `Evidence` and of `Conversation`, into
whose requests the evidence goes. A definition introduced by "Broken variant" is not
part of a specification: it is a plausible bug, put in the place of the definition below
it to see that a property notices.

* **`Tiers`** – the enum `Tier` and `Tier::escalate`.
* **`Ladder`** – *abstract.* What escalation promises: a request is tried on a tier, may
  climb one rung while it has budget, and is answered at most once.
* **`Degeneracy`** – the checks on errors, completions and prefixes, pure.
* **`Escalation`** – `forward`. An action is what happens between two awaits: `Forward`
  (call), `Prepare` (look up the provider and the token), `StoreToken` (the write lock),
  `Receive` (the response and all that `forward` does with it up to the next await: the
  checks, the climb, the call of the judge, the return). Bodies are kept by finish reason,
  kind of text (empty, refusal, answer) and presence of tool calls; errors by kind and
  status. The token is present or not. The outcome of each call is the environment's.
  Implements `Ladder` by reading the program counter as a phase.
* **`Lookahead`** – one stream, whose lines arrive in chunks cut anywhere; a line counts
  with the chunk that holds its newline, which is what the buffer of `parse_buf` is for.
  A text line carries one character of an alphabet of visible, blank, and the two halves
  of a refusal phrase. The answers are those of the chat protocol (`WellFormed`): `[DONE]`
  is the last line, and behind the finish reason come no text and no other reason.
* **`Filter`** – the elements of a sequence that lie in a set, as a recursive function the
  prover can unfold; only the properties of the adapter use it.
* **`AnthropicProtocol`** – *abstract.* The Messages stream as its client parses it:
  the events it has taken, and which may follow.
* **`AnthropicStream`** – `translate` as a poll loop (`Pull`, `Read`, `Close`,
  `UpstreamEnds`) around `ingest`, which takes one part of a chunk per step (text, tool
  fragment, finish reason, usage, `[DONE]`). Its output, event by event, implements
  `AnthropicProtocol`; the events sent and the parser's state are history variables.
* **`ExploreLoop`** – `run_loop` with the tool tasks as processes of their own, which go
  on when the loop is dropped.
* **`Router`** – `classify` of several requests, from await to await, around the
  `OnceCell`: permit, exemplars one by one, settled as vectors or as `None`. A request is
  a sequence of messages with their roles, sizes, keyword lists and file references; an
  embedding is its cosine to each centroid.
* **`Catalogue`** – *abstract.* What discovery promises: one catalogue that only grows, from
  which every answer is read; only a cluster that has never listed its models may be
  answered for by a stand-in.
* **`Discovery`** – `handle_models` with the catalogue behind its mutex, `handle_health`
  beside it. The mutex is tokio's: a queue, and a guard that is handed on when its holder
  ends *or is dropped*. An action is a step between two awaits: `Lock`, `Hit` and `Miss` per
  source, one action per query, `Disconnect` at any of them. A list of models is a value;
  `Default` is the hard-coded one, `Omitted` the answer without a cluster. What is
  remembered differs by source, as in the code: a failure of `gh` or of the Anthropic API is
  remembered for good, a failure of the cluster never. Implements `Catalogue`: an answer
  counts from its last step on.
* **`Evidence`** – `parse_citations` line by line, then `build_evidence` citation by
  citation with `Sandbox::read` and `fit_to_tokens`. A file is its number of lines and what
  they take in bytes; a block is a range of lines and its marker; *the tokenizer is a
  constant, any function of blocks*, as nothing in the code may rely on counts that grow
  with the text.
* **`Conversation`** – an agent on `/v1/messages`, turn after turn: what it says, the
  conversion of its whole history, the freshness test and the evidence, the upstream's
  answer (in one piece or streamed) and its way back, failures and retries. A text is a
  sequence of words, so that joining texts joins sequences. What a history is made of has a
  type for each record of `models.rs` (`BlockType`, `PartType`, `CallType`), and every
  conversion is the concatenation of what its elements become (`FlatMap`), as the code
  pushes and extends its vectors. The agent is external: it follows the Messages protocol,
  answering each call with one result, in any order.
* **`Gateway`** – *composition.* Both chat handlers. `forward` appears as the `Ladder`,
  which is sound because `Escalation` implements it; the tier a router picks is any tier;
  the adapter appears as the usage counts its events carry, which `ClosingIsTrue` of
  `AnthropicStream` pins down. Streams are cut so that the usage number may be split
  between chunks, even between its two digits.

## 3. The runs and what they show

| Run | Question | Size |
|---|---|---|
| `esc_one` | One request, 15 configurations, all outcomes: cost (`CallBound`), the climb it reports (`ReportsTheClimb`), what is retried and what is not (`EscalatesRightly`) | 25 k states |
| `esc_two` | Two requests race for the token: `forward` implements the ladder and every request settles | 70 k |
| `look_window` | All cuts into up to four chunks of some 1100 streams, with breaks anywhere: `Verbatim`, `HoldBackBound`, `VerdictIsRight`, `CleanEndIsWhole` | 1.2 M |
| `stream` | All sequences of up to four parts, all cuts into reads, all interleavings with the pulling client, usage that may change: `SpeaksAnthropic`, `TextInOrder`, `ToolCallsArrive`, `ClosingIsTrue`, `MessageEnds` | 970 k |
| `explore_turns` | Two turns of up to two calls (ids may collide), finishing or panicking in any order, failing requests, a leaving client: `EveryCallAnswered`, `OutcomeIsTrue`, `ExploreEnds` | 35 k |
| `route` | Two requests, 28 contents, 8 configurations, every failure of embedder and cluster, departures at each await: `GateHolds`, `ServicesOnlyAdd`, `CentroidsSettleOnce`, `EveryRequestClassified` | 170 k |
| `gateway` | A request on either endpoint, streamed or not, 28 configurations, and a second one whose write of the log meets that of the first: `RecordedWhenServed`, `TiersAddUp`, `MeteredExactly`, `LogIsComplete`, `EveryRequestEnds` | 1.0 M |
| `discovery` | Three requests, with and without cluster and key, queries that fail or hang, departures from the queue and from under the mutex: `AnswersAgree`, `OneCatalogue`, `EveryCallerServed` | 41 k |
| `evidence` | All answers of up to three lines over four files, sixteen pairs of caps: `WithinCaps`, `SnippetsTrue`, `NothingHidden` | 203 k |
| `conversation` | Histories of up to five messages with parallel calls, images, empty and streamed answers, retries: `UpstreamLegal`, `NothingLost`, `EvidencePlaced`, `RoundTrip` | 238 k |
| `look_doc_empty`, `stream_doc_tools` | Violations: see section 6 | |

Some properties are conjunctions of named parts, each with its own comment:
`ReportsTheClimb` is `RungsInOrder` (one rung per climb, one judge per answer, a true report)
and `ReturnsLastAnswer`; `EscalatesRightly` is `SoundAnswerKept` and
`FailedOnlyWhenExhausted`; `VerdictIsRight` is `SoundStreamKept` and `BadHeadCaught`;
`ToolCallsArrive` is `ToolBlocksInOrder` and `ToolArgumentsPrefix`; `ServicesOnlyAdd` is
`ExplicitIsImmediate` and `FallsBackToHeuristic`; `OutcomeIsTrue` is `StatsTrue` and
`AnswerIsLastWord`; `TiersAddUp` is `RecordsFit` and `ShadowIsTraced`.

Bounds, and why they are enough:

* *Escalation.* The ladder has three rungs and a climb is one rung, so a request makes at
  most five calls whatever the budget; budgets 0–3 and 255 cover "none", "short", "just
  enough" and "too many". Nothing but the token is shared, and the token has two states:
  two requests show the race between the read lock and the write lock.
* *Lookahead.* `MaxChars = 2`, `FrameCap = 3`, `RefusalCap = 2` stand for 240, 256 and
  400: small enough that each of the three ends of the window (text, finish, frames)
  happens before and after each of the others. `MaxChunks = 4` is one beyond the cap.
* *AnthropicStream.* Four parts suffice for tool 0 – interruption – tool 0 – end, and for
  text – tool – text – finish; two tools, two texts and two fragments tell a lost or a
  swapped one from a good one, and two counts the last usage from an earlier one.
* *ExploreLoop.* Two turns have a first, a last and a change between them; a batch of two
  has an order. `MaxTurns = 0` is treated by the code as 1 (`Turns`); the theorem covers
  all values.
* *Router.* Sizes are below, between and above the thresholds 2 and 4; two exemplars have a
  "between"; cosines 0 and 1 give ties and a unique maximum for each tier; two requests
  are a holder and a waiter.
* *Gateway.* `MaxChunks = 4` leaves room for a split count after an earlier count; counts 12
  and 40 differ in both digits. Requests share only the log. The first request does all there
  is to do; the second meets it there. An action constraint, `Followers`, lets the second
  come only when the first is about to append its line or has done so, and as a chat in one
  piece: its record is written while the first one's open, write or failure is still to
  come, in every order. What the constraint leaves out is a second request beside the
  earlier steps of the first, which read nothing the second writes; the theorems cover any
  number of requests without it.
* *Discovery.* Three requests are a holder, a head of the queue and one behind it; two lists
  tell a catalogue that changed from one that did not.
* *Evidence.* Files of at most five lines, reads of at most three lines (`ReadLines`) or four
  bytes (`ReadBytes`) put each of the three bounds of a read, and each of the two caps,
  first in some answer; the citations include line 0, an end before the start, no end, a
  start behind the file, a repetition and an unreadable file. The token counts are
  deliberately not monotone.
* *Conversation.* Five messages are a question, calls, their results, an answer and a next
  question: the shortest history in which results of an earlier turn lie in the middle.

CHECK_DEADLOCK is on everywhere but in `conversation`, whose agent stops at the bound on
its history; elsewhere the end of a run is an explicit stuttering step
(`Quiet`, `Over`, `Ended`) whose guard says that all is done, so a request that is stuck
is reported.

### Fairness

Each is weak fairness of what the runtime does when an await is ready, with one
exception.

* A provider's call ends: the client of `proxy.rs` has a timeout of 300 s that covers the
  body, the embedder's 10 s, the explorer's 120 s, and the cluster's is configured.
* The queries of `Discovery` are the exception: `gh` is awaited as a child process and both
  HTTP clients are reqwest's default ones, without a timeout. No fairness is assumed of them.
  `EveryCallerServed` says that a health probe is answered *even while a listing hangs*, and
  that the queue moves *if* no query hangs for ever (`QueriesEnd`), whoever leaves.
* `UpstreamEnds` of the adapter is *strongly* fair: reads may alternate with it, but the
  timeout runs on, so the end cannot be passed over for ever.
* A stream of `Gateway` has at most `MaxChunks` chunks before its end; the bound stands for
  the same timeout.
* A released permit of the `OnceCell` wakes a waiter; a tool task walks a finite tree.
* A client either keeps pulling or leaves; its leaving is never required.
* Nothing is assumed of what a provider answers.

## 4. What is proved

TLAPS checks, for all values of the constants that satisfy the named assumptions, the
theorems below. The assumptions only say of which type the constants are
(`ConstantsAssumption`, `LookaheadAssumption`, `ExploreAssumption`, `RouterAssumption`,
`GatewayAssumption`, `DiscoveryAssumption`, `EvidenceAssumption`,
`ConversationAssumption`, `StreamAssumption` of the adapter), and beside it:

* the router has an exemplar to embed, a read may return a line, the stand-ins are no list a
  query finds, and no request is called `NoRequest`;
* evidence that is injected is never of no tokens: its message always has its heading
  (`explore/mod.rs:80-95`), so that a context that grew is one that was enriched (`Gateway`);
* answers are those of the chat protocol: `[DONE]` comes last, and behind a finish reason
  comes no text (`StreamAssumption` of `Lookahead`); an upstream that calls tools says so
  when it stops (`RepliesAssumption` of `Conversation`).

| Module | Theorems | Argument |
|---|---|---|
| `EscalationProofs` | `TypeCorrect`, `CallsBounded`, `Implements` (Spec => Ladder), `ClimbIsReported`, `EscalationIsRight` | `CallBound` is not inductive: that a judge's call leaves room for the climb it may cause must be known *when it is asked*. `ReqInv` bounds the trail by twice the escalations (plus one while a judge is asked), keeps the escalations within the budget and ties them to the rung. Refinement: `Settle` is a climb, a finish or a stutter, by what it does to the pc. What the calls of a request say about it is `TrailInv`: each follows the one before it (`Follows`), the escalations are the distance between the first rung and the current one, and a request that is about to try again has just left something it may leave (`Left`) |
| `AnthropicStreamProofs` | `TypeCorrect`, `Implements` (Spec => AnthropicProtocol), `TextArrives`, `ClosingTrue`, `ToolCallsTrue` | The client lags behind the adapter by the queue. The invariant says that the queue is a *legal path* from the parser's state to the state the adapter's own variables describe. Lemmas: the empty path, one event, concatenation, popping; then each emitter is a path, and each action appends paths. What the events carry is compared, kind by kind, with the parts that arrived: `TextInv`; `ClosingInv` (the adapter's stop reason and count are the last that arrived, and no event claims another); and `ToolInv`: blocks are numbered below the next index (`Numbered`), nothing was sent for an index or a tool that has no block yet (`Fresh`), who has a block was called and announced (`Announced`), and a block carries the first fragments of its tool, all of them while it is open (`Carried`) |
| `LookaheadProofs` | `TypeCorrect`, `ReplayIsVerbatim`, `HoldBackBounded`, `CleanEnds`, `VerdictHolds` | sent ∘ held = arrived, in every phase; while peeking, as many frames are held as were peeked and none was sent. `EndInv` adds that an upstream over before the live phase has sent exactly what was peeked, and `TornInv` that what was held back when it broke passed the checks, as the end that it is taken for. `WindowInv` is what makes the verdict independent of the cut: while peeking, the text parsed so far and the text still to come are together the text of the answer, the finish reason and the tool flag are those of the lines that arrived, and the end was seen only if they all did or the upstream broke |
| `ExploreLoopProofs` | `TypeCorrect`, `CallsAnswered`, `OutcomeTrue` | `EveryCallAnswered` only speaks of moments when a request is sent. The invariant says the history before the batch is always answered and, while tools run, its last message is the assistant's; `Join` appends a complete batch. `OutcomeInv` counts the roles in the history against the loop's own figures (`Figures`) and says that `last_text` is the last text the history holds (`LastSaid`) |
| `RouterProofs` | `TypeCorrect`, `GateIsKept`, `CellIsSettledOnce`, `ServicesAreAdded` | That the cell is settled once rests on mutual exclusion: `OneInitialiser` (who computes holds the permit) and `PermitReturned` (the cell is settled only when the permit is back) |
| `GatewayProofs` | `TypeCorrect`, `ServedIsRecorded`, `TiersFit`, `LogIsTrue`, `MeterIsExact` | `ReqInv` follows one record: tiers fit its route from `classify` on, the rung is the effective rank plus the climbs while `forward` runs, what is served fits, and there is a record exactly from its emission on. `LogInv` adds that a pending write belongs to a request at its end and to no line, and that a request that is done has its line in the log, in flight, or lost to an error it met. `MeterInv` follows the sizes from the handler to the record (`Sized`: the explorer ran if and only if the context grew) and the usage from the upstream through the meter, a number cut in two included (`Counted`) |
| `DiscoveryProofs` | `TypeCorrect`, `AnswersNeverDiffer`, `Implements` (Spec => Catalogue) | `TypeOK` holds the discipline of the mutex; beyond it, the queue has no request twice, so that handing the mutex on or leaving the queue disturbs one request only; and an unfinished answer agrees with the catalogue as far as it goes, which the catalogue's growing keeps true until it is given |
| `EvidenceProofs`, of `Evidence` | `TypeCorrect`, `CapsHold`, `SnippetsAreTrue`, `NothingIsHidden` | What a read returns is bounded by its limit and the file (`ReadIsBounded`), what `fit_to_tokens` keeps fits the room that is left (`FittedFits`) for *any* tokenizer; each expansion spends from what both caps have left. `InOrder` keeps the snippets' citations increasing and behind `next`. `HiddenInv` adds that what is used is the sum over the snippets, that each was cut short only by a cap, that no readable citation before `next` was left out, and that the loop ends only when nothing more can be taken (`Exhausted`) |
| `EvidenceProofs`, of `Conversation` | `HistoryAlways`, `UpstreamIsLegal`, `NothingIsLost`, `EvidenceIsPlaced`, `RoundTrips` | `HistoryInv` says of which turns the history consists and that it ends in the upstream's answer while the agent has its turn. What a message holds is carried over a concatenation (`HoldsBoth`), so what holds of a turn (`TurnHolds`) holds of a history (`BodyHolds`) and, as prompt and evidence hold nothing of it, of a request. `UpstreamLegal` speaks of requests, but what must be kept is the *history*: `LegalInv` says that it converts to a legal sequence at any time but one, while the agent has calls to answer; then it does up to its last turn (`OpenHistory`). Legal sequences concatenate (`LegalConcat`), a turn without calls and results is legal alone, and the turn that calls is legal with the turn that answers it (`LegalExchange`), since an order of *n* calls reaches each of them |

Induction over data – texts of any length, histories of any length, sums – is by the least
counterexample: a set of naturals has a least element (`WFMin`), hence a set that has 0 and,
with a number, the next, has them all (`SetInduction`), and likewise for sequences and
`Append` (`SeqInduction`). Both are lemmas about *sets*, which is what the prover can
instantiate. Recursive functions of the library (`FlattenSeq`) are unfolded once, into their
value for the empty sequence and for one element more (`FlattenNone`, `FlattenAppend`);
`EvidenceProofs` derives what it needs of concatenations from those two.

Every safety invariant, action property and refinement a run checks is now the statement of
a theorem, so that the formulas proved are known to be breakable by a mutant; `TypeCorrect`
of the adapter, the explorer loop, the router and the gateway, `HistoryAlways`, the
inductive invariants themselves, and the results of the next paragraphs, are only proved:
their formulas hold on the small instances too, but belong to no run.

**How far a request can go.** Liveness says that a request ends; its safety half is that it
cannot go on for ever, and that half is proved. A measure gives each state the steps that
are left (`Work`), and every step, of any request, makes it smaller:

| Module | Theorem | What it bounds |
|---|---|---|
| `EscalationProofs` | `StepsRunOut` | 24 steps per request, whatever the budget, for a climb starts its rung anew but loses a rung; nobody is set back by another's token |
| `LookaheadProofs` | `HoldingBackIsShort` | 2 · `FRAME_CAP` + 3 steps until a stream is live or rejected, without regard to `MaxChunks` |
| `AnthropicStreamProofs` | `StepsRunOut` | without a further read, the queued events and six steps; only the upstream keeps a stream going |
| `ExploreLoopProofs` | `StepsRunOut` | 2 · `max_turns` + 3 steps of the loop, and the tasks it leaves, which are finitely many |
| `RouterProofs` | `StepsRunOut` | `Exemplars` + 5 steps of a request, whoever held the permit before |
| `GatewayProofs` | `StepsRunOut` | 21 steps per request and its line, apart from the chunks of its stream |
| `DiscoveryProofs` | `StepsRunOut` | ten steps per request, a query that hangs being none |
| `EvidenceProofs` | `StepsRunOut` | two steps per line of the answer, and two |

What these leave to TLC is that a step is *possible* and is *taken*: fairness and ENABLED.

**Beyond the runs.** `QueueIsFair` (`DiscoveryProofs`): nobody enters the queue of the mutex
ahead of a request that waits, so `EveryCallerServed` needs no luck. `RequestsOnlyGrow`
(`EvidenceProofs`): less its evidence, each request an agent causes is the previous one with
more behind it; the conversion of a longer history never rewrites what was sent. It rests on
the conversion of a concatenation being the concatenation of the conversions.
`MessageIsWhole` (`AnthropicStreamProofs`): the adapter closes a stream only behind
`message_stop`, the safety half of `MessageEnds`.

Model-checked only: all liveness (`EveryRequestSettles`, `MessageEnds`, `ExploreEnds`,
`EveryRequestClassified`, `EveryRequestEnds`, `EveryCallerServed`), for TLAPS has no ENABLED;
and the two disagreements of section 6, which are counterexamples.

## 5. What is left out

* The text of bodies, prompts, events and log lines; headers and the rewriting of a
  request for its provider, which change no state.
* The content of the judge's prompt and of the exemplars; arithmetic on vectors (only
  the order of the cosines matters to the code).
* The order in which the parts of *one* chunk are handled is fixed in the code; the adapter
  takes any order, since parts may also come in chunks of their own.
* The definitions of tools, sampling parameters and the ids of answers, which the conversions
  copy; the printing of a call's arguments, which are JSON values here (`main.rs:699-702`
  parses them and `555-560` prints them again: keys may change their order, and what is no
  JSON, or `null`, becomes `{}`); the order of results and talk *within* one Anthropic message, which the code changes
  on purpose (results first) and the chat protocol demands.
* `glob` and `grep` of the exploration tools: walks over the file system whose order is the
  system's; and the deserialisation of the configuration with its defaults and overrides,
  which is over before the first request. Neither has an interleaving to check.
* A panic of the process and a restart: nothing is persisted except the log, whose lines
  are appended best-effort.
* Memory exhaustion by a client that stops pulling: back-pressure is hyper's.

## 6. Where the documentation differs from the code

Shown by a run (`findings` in `PROJECT.json`):

* `look_doc_empty` – an empty stream whose `[DONE]` comes in a later chunk than its
  finish reason passes the look-ahead, because `ended` is set from the chunk in which the
  window closes (`proxy.rs:97`, against `config.rs:121`).
* `stream_doc_tools` – argument fragments of a tool call that come after another block was
  opened are dropped (`anthropic_stream.rs:181`, against the module's comment).

Read off while modelling, where the model simply follows the code:

* `ESCALATION.md:53` says a started stream is never escalated; with look-ahead on, it is.
* `explore/client.rs:299` says a failed turn returns the best evidence gathered; a blank
  content of a later turn has overwritten it by then (line 315).
* An upstream that breaks inside the look-ahead window is passed off as one that ended
  (`proxy.rs:133`): unless the checks reject it, the client is sent what came and a normal
  end. `CleanEndIsWhole` says that this is the only torn answer that ends so.
* `TELEMETRY.md:42` says one record per request; a request whose `forward` fails leaves
  none (`main.rs:350`).
* `TELEMETRY.md:69` prices at the effective tier; the code, and `ESCALATION.md:74`, at the
  served one (`main.rs:359`).
* `TELEMETRY.md:70` takes the latency of a stream at its first byte; `meter` takes it at
  the end (`telemetry.rs:186`).
* `config.rs:253` says that with the gate on Complex is reached only by deliberate
  request; escalation climbs there afterwards (`proxy.rs:257`).
* `router.rs:253` says a keyword in a system message or in injected evidence must not
  trigger Complex; the keyword lists of `intent.rs:64` are looked for in every message,
  whatever its role, and make a middling request agentic, hence Complex.
* TELEMETRY.md:68 and :111 say a stream without usage is recorded as unknown; on the Messages
  endpoint the meter reads the 0 of `message_start` (`anthropic_stream.rs:207`) and records it,
  with a cost.
* `MODEL-DISCOVERY.md` promises a discovery at startup, a refresh endpoint and a fallback to
  cached or configured lists. The catalogue is filled by the first request that needs it and
  never refreshed; a default list taken after one failure of `gh` or the API is kept for
  good (`Copilot`, `Anthropic`), while a stand-in for the cluster is not kept (`Cluster`).
* `expand.rs:173` says the truncation marker is not counted as a source line. Its own is not;
  the marker of a read that was cut for its bytes is (`Height`).
* `main.rs:656` says a tool call must surface as `tool_use`; an upstream that calls tools but
  stops with `"stop"` is reported as `end_turn`, and the agent does not resume
  (`RepliesAssumption` names what the gateway counts on).
* What the conversion drops does not count as a turn: after an assistant turn of nothing but
  empty or unknown blocks, the task is *fresh* again and is explored once more
  (`EvidencePlaced` says exactly this). Images in tool results are dropped. Evidence is not
  resent with later turns.

## 7. Plan

Order of the work: the path of a request first (escalation, streams, routing, record),
then what surrounds it.

1. *Done.* `Ladder`/`Escalation`, `Lookahead`, `AnthropicProtocol`/`AnthropicStream`,
   `ExploreLoop`, `Router`, `Gateway`, their runs and first theorems.
2. *Done.* `Catalogue`/`Discovery`, `Evidence`, `Conversation` with their runs; the theorems of
   `Discovery` and `Evidence`, and of the climb a request makes.
3. **Composition** – `Evidence` in front of `Gateway` and `Conversation`, so that the size of the
   context is what the expansion produced; the adapter's events as what the meter scans,
   checked as one module rather than by argument.
4. **Tools and configuration** – the caps of `glob` and `grep` over an abstract tree; the
   overrides of the environment over the file's values.
5. **Proofs** – *done* for what the runs check, but for liveness, of which the bounded half is
   proved. Next: that the explorer's
   loop and the evidence refine an abstract stage (an answer, or nothing, in bounded turns);
   and for the compositions of 3, that the meter reads what the adapter's events carry.
