----------------------------- MODULE Discovery -----------------------------
(***************************************************************************)
(* handle_models and handle_health of main.rs with ModelDiscovery of       *)
(* discovery.rs: a catalogue of models that is filled lazily by whichever  *)
(* request finds a source unlisted, behind one tokio mutex that the        *)
(* request holds across its queries.                                       *)
(*                                                                         *)
(* The list of a source is a value of Lists, the hard-coded list Default.  *)
(* None of the three remote queries has a timeout: gh is a child process   *)
(* and both HTTP clients are reqwest's default one.  A client may leave at *)
(* any await; its guard, or its place in the queue, goes with it.          *)
(***************************************************************************)
EXTENDS Naturals, SequencesExt

CONSTANTS Requests,
          NoRequest,
          Found,         \* lists a query can bring home
          Configs        \* [cluster, key: BOOLEAN]: is there a cluster, an API key

ASSUME DiscoveryAssumption ==
  /\ NoRequest \notin Requests
  /\ "default" \notin Found /\ "nothing" \notin Found /\ "omitted" \notin Found
  /\ Configs \subseteq [cluster: BOOLEAN, key: BOOLEAN]

Source == {"copilot", "claude", "cluster"}
Nothing == "nothing"        \* not in the cache, or not yet in the answer
Default == "default"
Omitted == "omitted"        \* the query failed: the answer has no such models

VARIABLES cfg, cache,
          holder, waiters,  \* the mutex: who has it, and the queue for it
          pc, models        \* per request: where it is, and its answer so far

vars == <<cfg, cache, holder, waiters, pc, models>>

Unlisted == [s \in Source |-> Nothing]

Init ==
  /\ cfg \in Configs
  /\ cache = Unlisted
  /\ holder = NoRequest /\ waiters = <<>>
  /\ pc = [r \in Requests |-> "idle"]
  /\ models = [r \in Requests |-> Unlisted]

\* Awaiting a query, by what it waits for; all but the settings are remote.
Remote == {"gh", "anthropic", "endpoint"}
Querying == Remote \cup {"settings"}
Holding == Source \cup Querying

\* Broken variant: the catalogue is read and filled without the mutex.
LockNothing(r) ==
  /\ pc[r] = "idle"
  /\ holder' = r
  /\ pc' = [pc EXCEPT ![r] = "copilot"]
  /\ UNCHANGED <<cfg, cache, waiters, models>>

\* A request arrives: the mutex is free, or it joins the queue.
Lock(r) ==
  /\ pc[r] = "idle"
  /\ IF holder = NoRequest
     THEN /\ holder' = r
          /\ pc' = [pc EXCEPT ![r] = "copilot"]
          /\ UNCHANGED waiters
     ELSE /\ waiters' = Append(waiters, r)
          /\ pc' = [pc EXCEPT ![r] = "wait"]
          /\ UNCHANGED holder
  /\ UNCHANGED <<cfg, cache, models>>

\* Broken variant: the mutex is freed over the heads of those who wait for it.
GotoFreeing(r, to) ==
  /\ pc' = [pc EXCEPT ![r] = to]
  /\ holder' = IF to \in Holding THEN holder ELSE NoRequest
  /\ UNCHANGED waiters

\* The holder goes to step `to`; at the end of its answer, or when it leaves, it
\* hands the mutex to the head of the queue.
Goto(r, to) ==
  IF to \in Holding
  THEN pc' = [pc EXCEPT ![r] = to] /\ UNCHANGED <<holder, waiters>>
  ELSE IF waiters = <<>>
  THEN /\ pc' = [pc EXCEPT ![r] = to]
       /\ holder' = NoRequest /\ UNCHANGED waiters
  ELSE /\ pc' = [pc EXCEPT ![r] = to, ![Head(waiters)] = "copilot"]
       /\ holder' = Head(waiters) /\ waiters' = Tail(waiters)

\* The step after source s is answered for.
After(s) ==
  CASE s = "copilot" -> "claude"
    [] s = "claude" /\ cfg.cluster -> "cluster"
    [] OTHER -> "done"

Tell(r, s, list) ==
  /\ models' = [models EXCEPT ![r][s] = list]
  /\ Goto(r, After(s))
  /\ UNCHANGED cfg

\* A source that is in the cache is answered for from there ...
Hit(r) ==
  /\ pc[r] \in Source /\ cache[pc[r]] # Nothing
  /\ Tell(r, pc[r], cache[pc[r]])
  /\ UNCHANGED cache

\* ... and otherwise asked.
FirstAsked == [copilot |-> "gh", claude |-> "settings", cluster |-> "endpoint"]

Miss(r) ==
  /\ pc[r] \in Source /\ cache[pc[r]] = Nothing
  /\ Goto(r, FirstAsked[pc[r]])
  /\ UNCHANGED <<cfg, cache, models>>

Insert(r, s, list) == cache' = [cache EXCEPT ![s] = list] /\ Tell(r, s, list)

\* Broken variant: a failure is answered for but not remembered.
CopilotForgetful(r) ==
  /\ pc[r] = "gh"
  /\ \/ \E list \in Found : Insert(r, "copilot", list)
     \/ Tell(r, "copilot", Default) /\ UNCHANGED cache

\* gh fails, is missing or prints something else: the default list, for good.
Copilot(r) ==
  /\ pc[r] = "gh"
  /\ \E list \in Found \cup {Default} : Insert(r, "copilot", list)

\* No settings, or no model in them: the API if there is a key, else the default.
Settings(r) ==
  /\ pc[r] = "settings"
  /\ \/ \E list \in Found : Insert(r, "claude", list)
     \/ cfg.key /\ Goto(r, "anthropic") /\ UNCHANGED <<cfg, cache, models>>
     \/ ~cfg.key /\ Insert(r, "claude", Default)

Anthropic(r) ==
  /\ pc[r] = "anthropic"
  /\ \E list \in Found \cup {Default} : Insert(r, "claude", list)

\* A cluster that answers with an error is given the default list and one that
\* does not answer, or not in JSON, none; neither is remembered.
Cluster(r) ==
  /\ pc[r] = "endpoint"
  /\ \/ \E list \in Found : Insert(r, "cluster", list)
     \/ \E list \in {Default, Omitted} : Tell(r, "cluster", list) /\ UNCHANGED cache

\* /health takes no mutex; it asks the cluster through the classifier's client.
Probe(r) ==
  /\ pc[r] = "idle"
  /\ pc' = [pc EXCEPT ![r] = IF cfg.cluster THEN "probe" ELSE "healthy"]
  /\ UNCHANGED <<cfg, cache, holder, waiters, models>>

Health(r) ==
  /\ pc[r] = "probe"
  /\ pc' = [pc EXCEPT ![r] = "healthy"]
  /\ UNCHANGED <<cfg, cache, holder, waiters, models>>

\* Whoever waits for nothing but the mutex leaves the queue.
Leave(r) ==
  /\ pc' = [pc EXCEPT ![r] = "gone"]
  /\ \/ pc[r] = "wait" /\ \E i \in DOMAIN waiters :
                            waiters[i] = r /\ waiters' = RemoveAt(waiters, i)
     \/ pc[r] # "wait" /\ UNCHANGED waiters
  /\ UNCHANGED holder

\* Broken variant: the mutex leaves with its holder.
DisconnectHolding(r) ==
  /\ pc[r] \in Holding \cup {"wait", "probe"}
  /\ Leave(r)
  /\ UNCHANGED <<cfg, cache, models>>

\* The client leaves, and axum drops its handler.
Disconnect(r) ==
  /\ \/ pc[r] \in Holding /\ Goto(r, "gone")
     \/ pc[r] \in {"wait", "probe"} /\ Leave(r)
  /\ UNCHANGED <<cfg, cache, models>>

Ended == {"done", "healthy", "gone"}

Quiet == (\A r \in Requests : pc[r] \in Ended) /\ UNCHANGED vars

\* What the gateway does without waiting for another machine, and what waits
\* for no longer than a timeout.
Prompt(r) == Hit(r) \/ Miss(r) \/ Settings(r) \/ Health(r)

Next ==
  \/ \E r \in Requests :
       \/ Lock(r) \/ Probe(r) \/ Prompt(r)
       \/ Copilot(r) \/ Anthropic(r) \/ Cluster(r) \/ Disconnect(r)
  \/ Quiet

Spec == Init /\ [][Next]_vars

\* The runtime polls a handler that can go on, a local file is read, and the
\* classifier's client gives up after its timeouts; a remote query may hang.
FairSpec == Spec /\ \A r \in Requests : WF_vars(Prompt(r))

-----------------------------------------------------------------------------
Lists == Found \cup {Default}
StandIns == {Default, Omitted, Nothing}

\* Every variable has its type; who works on an answer holds the mutex, and a
\* queue stands behind a holder only.
TypeOK ==
  /\ cfg \in Configs
  /\ cache \in [Source -> Lists \cup {Nothing}]
  /\ holder \in Requests \cup {NoRequest}
  /\ waiters \in Seq(Requests)
  /\ pc \in [Requests -> Holding \cup Ended \cup {"idle", "wait", "probe"}]
  /\ models \in [Requests -> [Source -> Lists \cup StandIns]]
  /\ \A r \in Requests : pc[r] \in Holding <=> holder = r
  /\ holder = NoRequest => waiters = <<>>
  /\ \A i \in DOMAIN waiters : pc[waiters[i]] = "wait"

\* Two answers never contradict each other: they list the same models for
\* Copilot and Claude, and for the cluster whenever both have a list of its own.
AnswersAgree ==
  \A r, q \in Requests : pc[r] = "done" /\ pc[q] = "done" =>
    /\ models[r]["copilot"] = models[q]["copilot"]
    /\ models[r]["claude"] = models[q]["claude"]
    /\ models[r]["cluster"] \in Found /\ models[q]["cluster"] \in Found =>
         models[r]["cluster"] = models[q]["cluster"]

\* The answers as the catalogue sees them.
Told == [r \in Requests |-> IF pc[r] = "done" THEN models[r] ELSE Unlisted]

C == INSTANCE Catalogue WITH listed <- cache, answer <- Told

\* Requests that race, leave in the middle of a query and queue up behind each
\* other are answered from one catalogue that only grows.
OneCatalogue == C!Spec

\* No query hangs for ever.
QueriesEnd == []<>(\A r \in Requests : pc[r] \notin Remote)

\* A probe is answered even while a listing hangs; and if no query hangs, every
\* request in the queue gets its turn, whoever leaves ahead of it.
EveryCallerServed ==
  /\ \A r \in Requests : pc[r] = "probe" ~> pc[r] # "probe"
  /\ QueriesEnd => \A r \in Requests : pc[r] = "wait" ~> pc[r] # "wait"
=============================================================================
