---------------------------- MODULE MCEscalation ----------------------------
(***************************************************************************)
(* Escalation for TLC: the configurations and answers of each run.         *)
(***************************************************************************)
EXTENDS Escalation

AllOpen == [t \in Tier |-> "open"]

Base == [providers |-> AllOpen, githubToken |-> TRUE, enabled |-> TRUE,
         maxEscalations |-> 2, onEmptyResponse |-> TRUE, onTruncation |-> FALSE,
         onRefusal |-> FALSE, streamLookahead |-> FALSE, judge |-> FALSE,
         judgeTier |-> "Standard", minScore |-> 3]

\* One request: every budget, with and without the optional checks, with a
\* judge that works, that has no provider, and whose tier is misspelt.
OneConfigs ==
  {[Base EXCEPT !.enabled = (m # 3), !.maxEscalations = m, !.onTruncation = b,
                !.onRefusal = b, !.streamLookahead = b] : m \in 0 .. 3, b \in BOOLEAN}
  \cup {[Base EXCEPT !.maxEscalations = m, !.judge = TRUE, !.judgeTier = t] :
          m \in 1 .. 2, t \in {"Standard", NoTier}}
  \cup {[Base EXCEPT !.judge = TRUE, !.providers["Complex"] = "absent"],
        [Base EXCEPT !.judge = TRUE, !.judgeTier = "Free",
                     !.providers = [Free |-> "absent", Standard |-> "github",
                                    Complex |-> "open"], !.githubToken = FALSE],
        [Base EXCEPT !.maxEscalations = 255, !.onEmptyResponse = FALSE, !.judge = TRUE,
                     !.minScore = 6]}

C(f, t, b) == [kind |-> "complete", finish |-> f, text |-> t, tools |-> b]
P(f, t, b, e) == [kind |-> "stream", finish |-> f, text |-> t, tools |-> b, ended |-> e]

OneStatuses == {404, 429, 500}

OneCompletions ==
  {C("stop", "answer", FALSE), C("stop", "empty", FALSE), C("stop", "refusal", FALSE),
   C("length", "answer", FALSE), C("content_filter", "answer", FALSE),
   C("tool_calls", "empty", TRUE), C(NoFinish, "empty", FALSE)}

OnePrefixes ==
  {P("stop", "answer", FALSE, FALSE), P(NoFinish, "refusal", FALSE, FALSE),
   P("content_filter", "empty", FALSE, FALSE), P("stop", "empty", FALSE, TRUE),
   P("length", "answer", FALSE, TRUE), P("tool_calls", "empty", TRUE, TRUE)}

OneDigits == {0, 2, 3, NoDigit}

\* Two requests that race for the token: few answers, one configuration with
\* a judge and one whose tiers all authenticate with the token.
TwoConfigs ==
  {[Base EXCEPT !.judge = TRUE, !.providers["Free"] = "github",
                !.providers["Standard"] = "github"]}

TwoStatuses == {503}
TwoCompletions == {C("stop", "answer", FALSE)}
TwoPrefixes == {P("stop", "answer", FALSE, FALSE)}
TwoDigits == {1}
=============================================================================
