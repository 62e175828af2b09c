----------------------------- MODULE Escalation -----------------------------
(***************************************************************************)
(* Proxy::forward (src/proxy.rs): the tries a routed request makes on the  *)
(* providers of the tiers, the checks each try is put through, the judge,  *)
(* and the GitHub token all requests share.  What a provider answers, when *)
(* it answers and when a client hangs up are chosen by the environment.    *)
(***************************************************************************)
EXTENDS Tiers, Degeneracy, Sequences

CONSTANTS Requests,      \* the requests a run of the gateway receives
          Configs,       \* the configurations it may be started with
          Statuses,      \* HTTP statuses of the unsuccessful answers
          Completions,   \* bodies of successful non-streamed answers
          Prefixes,      \* what look-ahead reads at the head of a stream
          JudgeDigits    \* the first digit in a judge's answer, or NoDigit

NoDigit  == 10           \* the judge's answer has no digit
NoReply  == [kind |-> "none"]

Finishes == {"stop", "length", "content_filter", "tool_calls", NoFinish}
Texts    == {"empty", "refusal", "answer"}

\* EscalationConfig, JudgeConfig, the auth type of each provider ("absent" if
\* the tier has none) and whether GITHUB_COPILOT_TOKEN is set.
ConfigType ==
  [providers: [Tier -> {"absent", "open", "github"}], githubToken: BOOLEAN,
   enabled: BOOLEAN, maxEscalations: Nat, onEmptyResponse: BOOLEAN,
   onTruncation: BOOLEAN, onRefusal: BOOLEAN, streamLookahead: BOOLEAN,
   judge: BOOLEAN, judgeTier: Tier \cup {NoTier}, minScore: Nat]

CompletionType == [kind: {"complete"}, finish: Finishes, text: Texts, tools: BOOLEAN]
PrefixType == [kind: {"stream"}, finish: Finishes, text: Texts, tools: BOOLEAN,
               ended: BOOLEAN]

ASSUME ConstantsAssumption ==
  /\ Configs \subseteq ConfigType
  /\ Statuses \subseteq Nat
  /\ Completions \subseteq CompletionType
  /\ Prefixes \subseteq PrefixType
  /\ JudgeDigits \subseteq 0..NoDigit

\* ProxyError: status is meaningful for a ProviderError only.
Error(e) == [kind |-> "error", error |-> e, status |-> 0]
ProviderError(s) == [kind |-> "error", error |-> "ProviderError", status |-> s]
Verdict(d) == [kind |-> "verdict", digit |-> d]

TransportErrors == {Error("RequestFailed")}
Errors == TransportErrors \cup {ProviderError(s) : s \in Statuses}
            \cup {Error(e) : e \in {"ParseError", "ProviderNotFound", "AuthenticationFailed"}}

Outcomes == Errors \cup Completions \cup Prefixes
Verdicts == {Verdict(d) : d \in JudgeDigits}

\* One forward_once: for the answer itself or for the judge, the tier being
\* tried and what came of it.
Calls == [call: {"main", "judge"}, rung: Tier, out: Outcomes \cup Verdicts]

VARIABLES cfg,      \* Arc<Config>, read once at startup
          cache,    \* token_cache: whether the GitHub token is in it
          pc,       \* pc[r]: where the call of forward for r stands
          stream,   \* stream[r]: whether the client asked for a stream
          tier,     \* tier[r]: current, the tier being tried
          escs,     \* escs[r]: escalations
          call,     \* call[r]: "main", or "judge" while r's answer is judged
          reply,    \* reply[r]: the answer being judged, or the one returned
          trail     \* trail[r]: every forward_once made for r, in order

vars == <<cfg, cache, pc, stream, tier, escs, call, reply, trail>>

Active == {"prepare", "store", "send"}

Init ==
  /\ cfg \in Configs
  /\ cache = FALSE
  /\ pc = [r \in Requests |-> "idle"]
  /\ stream = [r \in Requests |-> FALSE]
  /\ tier = [r \in Requests |-> NoTier]
  /\ escs = [r \in Requests |-> 0]
  /\ call = [r \in Requests |-> "main"]
  /\ reply = [r \in Requests |-> NoReply]
  /\ trail = [r \in Requests |-> <<>>]

-----------------------------------------------------------------------------
\* A main answer that, by itself, sends the request one tier up.
Escalates(out) ==
  \/ out.kind = "error" /\ ShouldEscalateError(out)
  \/ out.kind = "complete" /\ ResponseIsDegenerate(out, cfg)
  \/ out.kind = "stream" /\ cfg.streamLookahead /\ PrefixIsDegenerate(out, cfg)

\* Only a completed answer is judged, and only by a tier that exists.
JudgeApplies(out) == out.kind = "complete" /\ cfg.judge /\ cfg.judgeTier # NoTier

\* An unavailable judge approves; an answer without a digit scores 5.
JudgeAdequate(out) ==
  out.kind = "verdict" =>
    (IF out.digit = NoDigit THEN 5 ELSE out.digit) >= cfg.minScore

Budget == IF cfg.enabled THEN cfg.maxEscalations ELSE 0

\* Broken variant: the budget is compared with <=.
NextTierOneTooMany(r) == IF escs[r] <= Budget THEN Escalate(tier[r]) ELSE NoTier

NextTier(r) == IF escs[r] < Budget THEN Escalate(tier[r]) ELSE NoTier

-----------------------------------------------------------------------------
\* What forward does with the outcome of a forward_once.

\* Broken variants: jump to the top, lose the count.
ClimbTwice(r) ==
  /\ tier' = [tier EXCEPT ![r] = Escalate(NextTier(r))]
  /\ escs' = [escs EXCEPT ![r] = escs[r] + 1]
  /\ call' = [call EXCEPT ![r] = "main"]
  /\ reply' = [reply EXCEPT ![r] = NoReply]
  /\ pc' = [pc EXCEPT ![r] = "prepare"]

ClimbUncounted(r) ==
  /\ tier' = [tier EXCEPT ![r] = NextTier(r)]
  /\ call' = [call EXCEPT ![r] = "main"]
  /\ reply' = [reply EXCEPT ![r] = NoReply]
  /\ pc' = [pc EXCEPT ![r] = "prepare"]
  /\ UNCHANGED escs

Climb(r) ==
  /\ tier' = [tier EXCEPT ![r] = NextTier(r)]
  /\ escs' = [escs EXCEPT ![r] = escs[r] + 1]
  /\ call' = [call EXCEPT ![r] = "main"]
  /\ reply' = [reply EXCEPT ![r] = NoReply]
  /\ pc' = [pc EXCEPT ![r] = "prepare"]

AskJudge(r, out) ==
  /\ call' = [call EXCEPT ![r] = "judge"]
  /\ reply' = [reply EXCEPT ![r] = out]
  /\ pc' = [pc EXCEPT ![r] = "prepare"]
  /\ UNCHANGED <<tier, escs>>

Return(r, out) ==
  /\ call' = [call EXCEPT ![r] = "main"]
  /\ reply' = [reply EXCEPT ![r] = out]
  /\ pc' = [pc EXCEPT ![r] = "done"]
  /\ UNCHANGED <<tier, escs>>

SettleMain(r, out) ==
  \/ NextTier(r) # NoTier /\ Escalates(out) /\ Climb(r)
  \/ NextTier(r) # NoTier /\ ~Escalates(out) /\ JudgeApplies(out) /\ AskJudge(r, out)
  \/ /\ NextTier(r) = NoTier \/ (~Escalates(out) /\ ~JudgeApplies(out))
     /\ Return(r, out)

\* Broken variant: the outcome of the judge's call is what the client gets.
SettleJudgeByLastCall(r, out) ==
  \/ JudgeAdequate(out) /\ Return(r, out)
  \/ ~JudgeAdequate(out) /\ Climb(r)

SettleJudge(r, out) ==
  \/ JudgeAdequate(out) /\ Return(r, reply[r])
  \/ ~JudgeAdequate(out) /\ Climb(r)

Settle(r, out) ==
  /\ trail' = [trail EXCEPT ![r] =
                 Append(trail[r], [call |-> call[r], rung |-> tier[r], out |-> out])]
  /\ \/ call[r] = "main" /\ SettleMain(r, out)
     \/ call[r] = "judge" /\ SettleJudge(r, out)

-----------------------------------------------------------------------------
\* A handler calls forward with the tier the request was routed to.
Forward(r) ==
  /\ pc[r] = "idle"
  /\ pc' = [pc EXCEPT ![r] = "prepare"]
  /\ \E t \in Tier : tier' = [tier EXCEPT ![r] = t]
  /\ \E s \in BOOLEAN : stream' = [stream EXCEPT ![r] = s]
  /\ UNCHANGED <<cfg, cache, escs, call, reply, trail>>

\* The tier whose provider the running forward_once calls.
Target(r) == IF call[r] = "judge" THEN cfg.judgeTier ELSE tier[r]

\* forward_once up to the request it sends: look the provider up, authenticate.
Prepare(r) ==
  /\ pc[r] = "prepare"
  /\ \/ /\ cfg.providers[Target(r)] = "absent"
        /\ Settle(r, Error("ProviderNotFound"))
     \/ /\ cfg.providers[Target(r)] = "open" \/ (cfg.providers[Target(r)] = "github" /\ cache)
        /\ pc' = [pc EXCEPT ![r] = "send"]
        /\ UNCHANGED <<tier, escs, call, reply, trail>>
     \/ /\ cfg.providers[Target(r)] = "github" /\ ~cache /\ cfg.githubToken
        /\ pc' = [pc EXCEPT ![r] = "store"]
        /\ UNCHANGED <<tier, escs, call, reply, trail>>
     \/ /\ cfg.providers[Target(r)] = "github" /\ ~cache /\ ~cfg.githubToken
        /\ Settle(r, Error("AuthenticationFailed"))
  /\ UNCHANGED <<cfg, cache, stream>>

\* Broken variant: the token is looked up again but was never stored.
StoreTokenLost(r) ==
  /\ pc[r] = "store"
  /\ pc' = [pc EXCEPT ![r] = "prepare"]
  /\ UNCHANGED <<cfg, cache, stream, tier, escs, call, reply, trail>>

\* get_github_token found the cache empty and takes the write lock: another
\* request may have stored the token in between.
StoreToken(r) ==
  /\ pc[r] = "store"
  /\ cache' = TRUE
  /\ pc' = [pc EXCEPT ![r] = "send"]
  /\ UNCHANGED <<cfg, stream, tier, escs, call, reply, trail>>

\* What comes back: a failure, or the body (the head of the stream) of a 2xx.
Answers(r) ==
  TransportErrors \cup {ProviderError(s) : s \in Statuses}
    \cup (IF call[r] = "judge" THEN {Error("ParseError")} \cup Verdicts
          ELSE IF stream[r] THEN Prefixes
          ELSE {Error("ParseError")} \cup Completions)

Receive(r) ==
  /\ pc[r] = "send"
  /\ \E out \in Answers(r) : Settle(r, out)
  /\ UNCHANGED <<cfg, cache, stream>>

\* The client hangs up: the server drops the handler, and forward with it.
Disconnect(r) ==
  /\ pc[r] \in Active
  /\ pc' = [pc EXCEPT ![r] = "gone"]
  /\ UNCHANGED <<cfg, cache, stream, tier, escs, call, reply, trail>>

\* Every request has been dealt with; the gateway waits for more.
Quiet ==
  /\ \A r \in Requests : pc[r] \in {"done", "gone"}
  /\ UNCHANGED vars

Next ==
  \/ \E r \in Requests :
        Forward(r) \/ Prepare(r) \/ StoreToken(r) \/ Receive(r) \/ Disconnect(r)
  \/ Quiet

Spec == Init /\ [][Next]_vars

\* The runtime polls a handler whose await is ready, and every upstream call
\* ends: the HTTP client gives up after 300 seconds.
Fairness == \A r \in Requests : WF_vars(Prepare(r) \/ StoreToken(r) \/ Receive(r))

FairSpec == Spec /\ Fairness

-----------------------------------------------------------------------------
\* Every variable has its type; a request on its way has a tier.
TypeOK ==
  /\ cfg \in Configs
  /\ cache \in BOOLEAN
  /\ pc \in [Requests -> Active \cup {"idle", "done", "gone"}]
  /\ stream \in [Requests -> BOOLEAN]
  /\ tier \in [Requests -> Tier \cup {NoTier}]
  /\ escs \in [Requests -> Nat]
  /\ call \in [Requests -> {"main", "judge"}]
  /\ reply \in [Requests -> {NoReply} \cup Outcomes]
  /\ trail \in [Requests -> Seq(Calls)]
  /\ \A r \in Requests : pc[r] # "idle" => tier[r] \in Tier

\* What one request can cost: one call on its tier and, for each escalation the
\* budget allows, at most one call of the judge and one on the next tier; the
\* ladder is three rungs long whatever the budget.
CallBound ==
  \A r \in Requests : /\ Len(trail[r]) <= 2 * Budget + 1
                      /\ Len(trail[r]) <= 5

\* forward moves up one tier per escalation, judges an answer at most once and
\* on the tier that gave it, and reports the tier and the number of escalations
\* that its calls really made.
RungsInOrder ==
  \A r \in Requests :
    /\ \A i \in 1 .. Len(trail[r]) - 1 :
         LET a == trail[r][i]
             b == trail[r][i + 1]
         IN IF b.call = "judge" THEN a.call = "main" /\ b.rung = a.rung
                                ELSE Rank[b.rung] = Rank[a.rung] + 1
    /\ pc[r] = "done" =>
         LET n == Len(trail[r])
         IN n > 0 /\ trail[r][n].rung = tier[r]
              /\ escs[r] = Rank[tier[r]] - Rank[trail[r][1].rung]

\* An error that a higher tier would not fix: a 4xx other than 429, a provider
\* that is not configured, a missing token.
Deterministic(out) ==
  /\ out.kind = "error"
  /\ \/ out.error \in {"ProviderNotFound", "AuthenticationFailed"}
     \/ out.error = "ProviderError" /\ out.status < 500 /\ out.status # 429

\* An answer no check has anything against: text that ends normally, or a
\* tool call.
Sound(out) ==
  /\ out.kind \in {"complete", "stream"}
  /\ \/ out.text = "answer" /\ out.finish \in {"stop", "tool_calls"}
     \/ out.text = "empty" /\ out.tools /\ out.finish = "tool_calls"

\* Escalation never throws away a sound answer nor retries an error that a
\* higher tier will not fix; after a judge's call it climbs only on a score
\* below the minimum, so that a judge that fails never costs a retry.
SoundAnswerKept ==
  \A r \in Requests : \A i \in 1 .. Len(trail[r]) - 1 :
    trail[r][i + 1].call = "main" =>
      LET out == trail[r][i].out
      IN IF trail[r][i].call = "judge"
         THEN out.kind = "verdict" /\ (out.digit < cfg.minScore \/ cfg.minScore > 5)
         ELSE ~Deterministic(out) /\ ~Sound(out)

\* An answer every configuration calls a failure: an overloaded or unreachable
\* provider, an unreadable, missing or filtered body.
Failed(out) ==
  \/ out.kind = "error" /\ ~Deterministic(out)
  \/ out.kind = "complete" /\ out.finish \in {NoFinish, "content_filter"}

\* A failed answer reaches the client only when there is nowhere left to go:
\* the budget is spent or the request is on the top tier.
FailedOnlyWhenExhausted ==
  \A r \in Requests : pc[r] = "done" /\ Failed(reply[r]) =>
    escs[r] >= Budget \/ tier[r] = "Complex"

\* The client gets the last answer the serving tier gave: not an earlier one
\* and never the judge's.
ReturnsLastAnswer ==
  \A r \in Requests : pc[r] = "done" =>
    \E i \in 1 .. Len(trail[r]) :
      /\ trail[r][i].call = "main" /\ trail[r][i].out = reply[r]
      /\ \A j \in i + 1 .. Len(trail[r]) : trail[r][j].call = "judge"

\* What forward reports is the climb its calls made: the rungs one by one, the
\* tier and the escalations at its end, the last answer given there.
ReportsTheClimb == RungsInOrder /\ ReturnsLastAnswer

\* forward climbs when it must and only then: never away from a sound answer or
\* an error that stays, always from a failure while the budget lasts.
EscalatesRightly == SoundAnswerKept /\ FailedOnlyWhenExhausted

\* forward keeps the promise of the ladder.
Phase == [idle |-> "new", prepare |-> "trying", store |-> "trying", send |-> "trying",
          done |-> "answered", gone |-> "gone"]

LadderPhase == [r \in Requests |-> Phase[pc[r]]]

L == INSTANCE Ladder WITH budget <- Budget, phase <- LadderPhase,
                          rung <- tier, climbs <- escs

ClimbsTheLadder == L!Spec

\* Whatever the providers and the judge do, a forwarded request is answered
\* unless its client leaves.
EveryRequestSettles ==
  \A r \in Requests : pc[r] = "prepare" ~> pc[r] \in {"done", "gone"}
=============================================================================
