------------------------------ MODULE LlmScoring ------------------------------
(***************************************************************************)
(* Scoring by the language models: score_lead (app/agents/llm_scorer.py)   *)
(* and the per-model circuit breakers it calls through                     *)
(* (app/core/resilience.py).                                               *)
(*                                                                         *)
(* Every job is one call of score_lead, in a thread of its own (background *)
(* tasks run in the thread pool).  The jobs share the cache _llm_breakers, *)
(* which no lock protects, and the breakers, each with a lock of its own   *)
(* that pybreaker holds from the check of the state to the end of the call.*)
(***************************************************************************)
EXTENDS Integers, Sequences

CONSTANTS Jobs, Models,
          Earlier,    \* stands for the scorings before these jobs
          NoBreaker,  \* no breaker object
          Chain,      \* settings.llm_model_chain, without repetitions
          LlmEnabled, \* the values settings.LLM_ENABLED may have
          FailMax,    \* policy.resilience.llm_breaker.fail_max
          MaxTries    \* stop_after_attempt: tries of one completion (3)

ASSUME ScoringAssumption ==
    /\ Chain \in Seq(Models) /\ Chain # <<>>
    /\ \A i, k \in DOMAIN Chain : Chain[i] = Chain[k] => i = k
    /\ LlmEnabled \subseteq BOOLEAN
    /\ FailMax \in Nat \ {0}
    /\ MaxTries \in Nat \ {0}

None == "none"

\* A job constructs at most one breaker for a model: once it stored one, the cache
\* answers.
Breakers == Models \X (Jobs \union {Earlier})
ASSUME NoBreakerAssumption == NoBreaker \notin Breakers

VARIABLES
    at,         \* where score_lead stands
    position,   \* the model of the chain being tried
    held,       \* the breaker call_llm_completion is using
    tries,      \* completions requested in the current breaker call
    messages,   \* the models whose malformed answers the conversation quotes
    reprompted, \* the current attempt is the self-correcting one
    result,     \* the source and the model of the ScoringResult
    registry,   \* _llm_breakers
    state, counter,  \* of each breaker; "elapsed" is open past its reset_timeout
    streak, failures \* history, per model: failed calls since its last success, and all

scoring == <<at, position, held, tries, messages, reprompted, result>>
breakers == <<registry, state, counter>>
history == <<streak, failures>>
vars == <<scoring, breakers, history>>

Results == [source : {None, "llm", "llm_selfcorrected", "rules_fallback"},
            model : Models \union {None}]
NoResult == [source |-> None, model |-> None]
Fallback == [source |-> "rules_fallback", model |-> None]
Current(j) == Chain[position[j]]

\* The process may have scored before: a model was not called yet, or its breaker is
\* closed and has counted some failures.
Init ==
    /\ at = [j \in Jobs |-> "new"]
    /\ position = [j \in Jobs |-> 1]
    /\ held = [j \in Jobs |-> NoBreaker]
    /\ tries = [j \in Jobs |-> 0]
    /\ messages = [j \in Jobs |-> <<>>]
    /\ reprompted = [j \in Jobs |-> FALSE]
    /\ result = [j \in Jobs |-> NoResult]
    /\ registry \in [Models -> Breakers \union {NoBreaker}]
    /\ \A m \in Models : registry[m] \in {NoBreaker, <<m, Earlier>>}
    /\ state = [b \in Breakers |-> "closed"]
    /\ counter \in [Breakers -> 0..(FailMax - 1)]
    /\ \A b \in Breakers : b # registry[b[1]] => counter[b] = 0
    /\ streak = [m \in Models |-> counter[<<m, Earlier>>]]
    /\ failures = streak

Goto(j, l) == at' = [at EXCEPT ![j] = l]
Finish(j, r) == Goto(j, "done") /\ result' = [result EXCEPT ![j] = r]

-----------------------------------------------------------------------------
(* score_lead and _get_llm_breaker                                           *)

\* The model is switched off, the prompt file cannot be read (its RuntimeError leaves
\* score_lead), or the chain is started.
Start(j) ==
    /\ at[j] = "new"
    /\ \/ FALSE \in LlmEnabled /\ Finish(j, Fallback)
       \/ TRUE \in LlmEnabled /\ Goto(j, "raised") /\ UNCHANGED result
       \/ TRUE \in LlmEnabled /\ Goto(j, "lookup") /\ UNCHANGED result
    /\ UNCHANGED <<position, held, tries, messages, reprompted, breakers, history>>

\* Mutant: one breaker for the whole chain.
LookupShared(j) ==
    LET m == Chain[1]
    IN  /\ at[j] = "lookup"
        /\ \/ /\ registry[m] = NoBreaker
              /\ held' = [held EXCEPT ![j] = <<m, j>>]
              /\ Goto(j, "store")
           \/ /\ registry[m] # NoBreaker
              /\ held' = [held EXCEPT ![j] = registry[m]]
              /\ Goto(j, "call")
        /\ UNCHANGED <<position, tries, messages, reprompted, result, breakers, history>>

\* _llm_breakers.get(model): a miss constructs a breaker.
Lookup(j) ==
    LET m == Current(j)
    IN  /\ at[j] = "lookup"
        /\ \/ /\ registry[m] = NoBreaker
              /\ held' = [held EXCEPT ![j] = <<m, j>>]
              /\ Goto(j, "store")
           \/ /\ registry[m] # NoBreaker
              /\ held' = [held EXCEPT ![j] = registry[m]]
              /\ Goto(j, "call")
        /\ UNCHANGED <<position, tries, messages, reprompted, result, breakers, history>>

\* The new breaker is stored, over one that another job stored since the miss.
Store(j) ==
    /\ at[j] = "store"
    /\ registry' = [registry EXCEPT ![Current(j)] = held[j]]
    /\ Goto(j, "call")
    /\ UNCHANGED <<position, held, tries, messages, reprompted, result, state, counter, history>>

\* Mutant: the re-prompt of a failed model stays in the conversation.
FailOverLeaking(j) ==
    /\ held' = [held EXCEPT ![j] = NoBreaker]
    /\ tries' = [tries EXCEPT ![j] = 0]
    /\ reprompted' = [reprompted EXCEPT ![j] = FALSE]
    /\ \/ /\ position[j] < Len(Chain)
          /\ position' = [position EXCEPT ![j] = @ + 1]
          /\ Goto(j, "lookup")
          /\ UNCHANGED result
       \/ /\ position[j] = Len(Chain)
          /\ Finish(j, Fallback)
          /\ UNCHANGED position
    /\ UNCHANGED messages

\* The next model with a fresh copy of the base messages, or the rule engine.
FailOver(j) ==
    /\ held' = [held EXCEPT ![j] = NoBreaker]
    /\ tries' = [tries EXCEPT ![j] = 0]
    /\ reprompted' = [reprompted EXCEPT ![j] = FALSE]
    /\ messages' = [messages EXCEPT ![j] = <<>>]
    /\ \/ /\ position[j] < Len(Chain)
          /\ position' = [position EXCEPT ![j] = @ + 1]
          /\ Goto(j, "lookup")
          /\ UNCHANGED result
       \/ /\ position[j] = Len(Chain)
          /\ Finish(j, Fallback)
          /\ UNCHANGED position

-----------------------------------------------------------------------------
(* The circuit breaker around one completion                                 *)

Busy(b) == \E k \in Jobs : at[k] = "network" /\ held[k] = b

\* The lock is free and the breaker lets the call through; past the reset time it
\* becomes half-open and the call is its trial.
Enter(j) ==
    LET b == held[j]
    IN  /\ at[j] = "call"
        /\ ~Busy(b)
        /\ state[b] # "open"
        /\ state' = [state EXCEPT ![b] = IF @ = "elapsed" THEN "half_open" ELSE @]
        /\ tries' = [tries EXCEPT ![j] = 1]
        /\ Goto(j, "network")
        /\ UNCHANGED <<position, held, messages, reprompted, result, registry, counter, history>>

\* Mutant: an open breaker ends the chain.
RejectForAll(j) ==
    /\ at[j] = "call"
    /\ ~Busy(held[j])
    /\ state[held[j]] = "open"
    /\ Finish(j, Fallback)
    /\ held' = [held EXCEPT ![j] = NoBreaker]
    /\ tries' = [tries EXCEPT ![j] = 0]
    /\ reprompted' = [reprompted EXCEPT ![j] = FALSE]
    /\ messages' = [messages EXCEPT ![j] = <<>>]
    /\ UNCHANGED <<position, breakers, history>>

\* The breaker is open: CircuitBreakerError, no request is made.
Reject(j) ==
    /\ at[j] = "call"
    /\ ~Busy(held[j])
    /\ state[held[j]] = "open"
    /\ FailOver(j)
    /\ UNCHANGED <<breakers, history>>

\* The reset time of an open breaker is over.
ResetElapses(b) ==
    /\ state[b] = "open"
    /\ state' = [state EXCEPT ![b] = "elapsed"]
    /\ UNCHANGED <<scoring, registry, counter, history>>

\* Mutant: one try too many.
TryAgainOnceMore(j) ==
    /\ at[j] = "network"
    /\ tries[j] <= MaxTries
    /\ tries' = [tries EXCEPT ![j] = @ + 1]
    /\ UNCHANGED <<at, position, held, messages, reprompted, result, breakers, history>>

\* A network error is tried again inside the breaker's call.
TryAgain(j) ==
    /\ at[j] = "network"
    /\ tries[j] < MaxTries
    /\ tries' = [tries EXCEPT ![j] = @ + 1]
    /\ UNCHANGED <<at, position, held, messages, reprompted, result, breakers, history>>

\* Mutant: the breaker trips one failure late.
CallRaisesLate(j) ==
    LET b == held[j]
    IN  /\ at[j] = "network"
        /\ counter' = [counter EXCEPT ![b] = @ + 1]
        /\ state' = [state EXCEPT
              ![b] = IF @ = "half_open" \/ counter[b] + 1 > FailMax THEN "open" ELSE @]
        /\ streak' = [streak EXCEPT ![Current(j)] = @ + 1]
        /\ failures' = [failures EXCEPT ![Current(j)] = @ + 1]
        /\ FailOver(j)
        /\ UNCHANGED registry

\* The call raised: the last network error, or one that is not retried.
CallRaises(j) ==
    LET b == held[j]
    IN  /\ at[j] = "network"
        /\ counter' = [counter EXCEPT ![b] = @ + 1]
        /\ state' = [state EXCEPT
              ![b] = IF @ = "half_open" \/ counter[b] + 1 >= FailMax THEN "open" ELSE @]
        /\ streak' = [streak EXCEPT ![Current(j)] = @ + 1]
        /\ failures' = [failures EXCEPT ![Current(j)] = @ + 1]
        /\ FailOver(j)
        /\ UNCHANGED registry

\* The call returned a text: the breaker closes and forgets its failures.
CallReturns(j) ==
    LET b == held[j]
    IN  /\ at[j] = "network"
        /\ counter' = [counter EXCEPT ![b] = 0]
        /\ state' = [state EXCEPT ![b] = "closed"]
        /\ streak' = [streak EXCEPT ![Current(j)] = 0]
        /\ UNCHANGED <<registry, failures>>

-----------------------------------------------------------------------------
(* _score_with_model: what the text is                                       *)

\* A JSON object with a known priority and a numeric confidence.
Usable(j) ==
    /\ CallReturns(j)
    /\ Finish(j, [source |-> IF reprompted[j] THEN "llm_selfcorrected" ELSE "llm",
                  model |-> Current(j)])
    /\ held' = [held EXCEPT ![j] = NoBreaker]
    /\ tries' = [tries EXCEPT ![j] = 0]
    /\ UNCHANGED <<position, messages, reprompted>>

\* Mutant: every malformed answer is sent back, not only the first.
MalformedAgain(j) ==
    /\ CallReturns(j)
    /\ messages' = [messages EXCEPT ![j] = <<Current(j)>>]
    /\ reprompted' = [reprompted EXCEPT ![j] = TRUE]
    /\ held' = [held EXCEPT ![j] = NoBreaker]
    /\ tries' = [tries EXCEPT ![j] = 0]
    /\ Goto(j, "lookup")
    /\ UNCHANGED <<position, result>>

\* No JSON: the model is asked once more, with its answer and the parse error quoted.
Malformed(j) ==
    /\ CallReturns(j)
    /\ ~reprompted[j]
    /\ messages' = [messages EXCEPT ![j] = Append(@, Current(j))]
    /\ reprompted' = [reprompted EXCEPT ![j] = TRUE]
    /\ held' = [held EXCEPT ![j] = NoBreaker]
    /\ tries' = [tries EXCEPT ![j] = 0]
    /\ Goto(j, "lookup")
    /\ UNCHANGED <<position, result>>

\* No JSON again, or an object that _to_result refuses with a ValueError or TypeError.
Unusable(j) ==
    /\ CallReturns(j)
    /\ FailOver(j)

\* JSON that is no object: the AttributeError of parsed.get leaves score_lead.
NotAnObject(j) ==
    /\ CallReturns(j)
    /\ held' = [held EXCEPT ![j] = NoBreaker]
    /\ tries' = [tries EXCEPT ![j] = 0]
    /\ Goto(j, "raised")
    /\ UNCHANGED <<position, messages, reprompted, result>>

-----------------------------------------------------------------------------
Step(j) ==
    \/ Start(j) \/ Lookup(j) \/ Store(j)
    \/ Enter(j) \/ Reject(j) \/ TryAgain(j) \/ CallRaises(j)
    \/ Usable(j) \/ Malformed(j) \/ Unusable(j) \/ NotAnObject(j)

Next ==
    \/ \E j \in Jobs : Step(j)
    \/ \E b \in Breakers : ResetElapses(b)

\* Every thread is scheduled and every request has a time-out (LLM_TIMEOUT_SECONDS).
\* Nothing makes an open breaker recover in time for anyone.
Spec == Init /\ [][Next]_vars /\ \A j \in Jobs : WF_vars(Step(j))

-----------------------------------------------------------------------------
(* Properties                                                                *)

Active == {"lookup", "store", "call", "network"}
Ended  == {"done", "raised"}

\* The variables have their types; only a job in a call has requested completions.
TypeOK ==
    /\ at \in [Jobs -> {"new"} \union Active \union Ended]
    /\ position \in [Jobs -> DOMAIN Chain]
    /\ held \in [Jobs -> Breakers \union {NoBreaker}]
    /\ tries \in [Jobs -> 0..MaxTries]
    /\ messages \in [Jobs -> Seq(Models)]
    /\ reprompted \in [Jobs -> BOOLEAN]
    /\ result \in [Jobs -> Results]
    /\ registry \in [Models -> Breakers \union {NoBreaker}]
    /\ state \in [Breakers -> {"closed", "open", "elapsed", "half_open"}]
    /\ counter \in [Breakers -> Nat]
    /\ streak \in [Models -> Nat]
    /\ failures \in [Models -> Nat]

\* One bad model cannot block the others: a breaker of a model opens only after fail_max
\* failures of that same model (resilience.py, per-model breakers).
OpenIsEarned ==
    \A b \in Breakers : state[b] # "closed" => failures[b[1]] >= FailMax

\* The breaker in use trips after fail_max failures in a row, except for failures that
\* were counted by a breaker which a concurrent first use replaced (_get_llm_breaker
\* reads and writes the cache without a lock).
TripsInTime ==
    \A m \in Models :
        /\ registry[m] # NoBreaker
        /\ state[registry[m]] = "closed"
        /\ \A b \in Breakers : b[1] = m /\ b # registry[m] => counter[b] = 0
        => streak[m] < FailMax

\* The conversation with a model quotes its own malformed answer and nobody else's, and
\* the source of the result says whether there was one (_score_with_model's local copy).
ConversationIsOwn ==
    \A j \in Jobs :
        /\ at[j] \in Active =>
              messages[j] = IF reprompted[j] THEN <<Current(j)>> ELSE <<>>
        /\ result[j].source = "llm" => messages[j] = <<>>
        /\ result[j].source = "llm_selfcorrected" => messages[j] = <<result[j].model>>

\* What the caller of score_lead sees, the breakers and the retries inside them left out.
Phases == [j \in Jobs |-> IF at[j] = "network" THEN "waiting"
                          ELSE IF at[j] \in Active THEN "ready" ELSE at[j]]
Quoted == [j \in Jobs |-> at[j] \in Active /\ reprompted[j]]
Score  == INSTANCE ScoreLead WITH phase <- Phases, turn <- position, quoted <- Quoted

\* However concurrent scorings trip, replace and revive the breakers they share, each one
\* goes through the chain in order, prompts a model twice at most, falls back only after
\* the last one and names the right source (score_lead, _score_with_model).
ScoreSpec == Score!Spec

\* Every scoring ends: no answer, breaker or competing job holds it up for ever.
ScoringEnds == \A j \in Jobs : <>(at[j] \in Ended)
=============================================================================
