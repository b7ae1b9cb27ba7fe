--------------------------- MODULE LlmScoringProofs ---------------------------
(***************************************************************************)
(* Proofs about LlmScoring, for any number of concurrent scorings, any     *)
(* chain of models and any breaker policy.  ScoringInv is the inductive    *)
(* invariant; the safety properties of LlmScoring follow from it, and so   *)
(* do the bound on the length of a scoring, which is why it ends, and that *)
(* the scorings implement ScoreLead.                                       *)
(***************************************************************************)
EXTENDS LlmScoring, TLAPS

-----------------------------------------------------------------------------
(* The inductive invariant                                                   *)

\* A job in or before a call holds a breaker of the model it is trying, which the cache
\* knows a breaker of; one about to store a breaker has made it itself.
BreakersAreFound ==
    \A j \in Jobs :
        /\ at[j] \in {"store", "call", "network"} =>
              held[j] \in Breakers /\ held[j][1] = Current(j)
        /\ at[j] = "store" => held[j] = <<Current(j), j>>
        /\ at[j] \in {"call", "network"} => registry[Current(j)] # NoBreaker

\* The cache is keyed by the model.
CacheIsKeyed ==
    \A m \in Models : registry[m] # NoBreaker => registry[m] \in Breakers /\ registry[m][1] = m

\* A breaker that is yet to be stored is unknown to everyone else, and unused.
FreshIsUnused ==
    \A j \in Jobs :
        at[j] = "store" =>
            /\ registry[Current(j)] # held[j]
            /\ counter[held[j]] = 0
            /\ \A k \in Jobs : at[k] \in {"call", "network"} => held[k] # held[j]

\* A breaker counts failures of its own model only, and is closed below fail_max only.
CountersAreEarned ==
    \A b \in Breakers :
        /\ counter[b] <= failures[b[1]]
        /\ state[b] = "closed" => counter[b] < FailMax

\* A model nobody called has no failures; the failures in a row of the others were all
\* counted by the breaker in the cache, unless a replaced breaker has counted some.
StreaksAreCounted ==
    \A m \in Models :
        /\ registry[m] = NoBreaker =>
              streak[m] = 0 /\ \A b \in Breakers : b[1] = m => counter[b] = 0
        /\ /\ registry[m] # NoBreaker
           /\ \A b \in Breakers : b[1] = m /\ b # registry[m] => counter[b] = 0
           => streak[m] <= counter[registry[m]]

\* A conversation starts with the base messages, and a job without result has none.
ConversationsStartFresh ==
    \A j \in Jobs :
        /\ at[j] = "new" => messages[j] = <<>> /\ ~reprompted[j]
        /\ at[j] # "done" => result[j] = NoResult

ScoringInv ==
    /\ TypeOK
    /\ BreakersAreFound /\ CacheIsKeyed /\ FreshIsUnused
    /\ CountersAreEarned /\ OpenIsEarned /\ StreaksAreCounted
    /\ ConversationsStartFresh /\ ConversationIsOwn

-----------------------------------------------------------------------------
(* Type correctness                                                          *)

\* The chain is numbered from one on and holds models.
LEMMA ChainLength == Len(Chain) \in Nat /\ Len(Chain) > 0 /\ DOMAIN Chain = 1..Len(Chain)
<1>1. Chain \in Seq(Models) /\ Chain # <<>>
    BY ScoringAssumption
<1> QED
    BY <1>1

\* The model a job is trying is a model.
LEMMA CurrentIsModel ==
    ASSUME position \in [Jobs -> DOMAIN Chain], NEW j \in Jobs
    PROVE  Current(j) \in Models
<1>1. Chain \in Seq(Models)
    BY ScoringAssumption
<1>2. position[j] \in 1..Len(Chain)
    BY ChainLength
<1> QED
    BY <1>1, <1>2 DEF Current

\* A breaker has a model.
LEMMA BreakerHasModel == \A b \in Breakers : b[1] \in Models
BY DEF Breakers

\* The results that need no model's name, and those that do.
LEMMA ResultTypes ==
    /\ Fallback \in Results
    /\ \A m \in Models : /\ [source |-> "llm", model |-> m] \in Results
                        /\ [source |-> "llm_selfcorrected", model |-> m] \in Results
    /\ NoResult \in Results
BY DEF Fallback, NoResult, Results

\* A failed model leaves the job's variables well typed.
LEMMA FailOverTypes ==
    ASSUME TypeOK, NEW j \in Jobs, FailOver(j)
    PROVE  /\ at' \in [Jobs -> {"new"} \union Active \union Ended]
           /\ position' \in [Jobs -> DOMAIN Chain]
           /\ held' \in [Jobs -> Breakers \union {NoBreaker}]
           /\ tries' \in [Jobs -> 0..MaxTries]
           /\ messages' \in [Jobs -> Seq(Models)]
           /\ reprompted' \in [Jobs -> BOOLEAN]
           /\ result' \in [Jobs -> Results]
<1>2. <<>> \in Seq(Models)
    OBVIOUS
<1>3. position' \in [Jobs -> DOMAIN Chain]
    <2>1. position \in [Jobs -> 1..Len(Chain)]
        BY ChainLength DEF TypeOK
    <2>2. \/ position' = position
          \/ position[j] < Len(Chain) /\ position' = [position EXCEPT ![j] = position[j] + 1]
        BY DEF FailOver
    <2> QED
        BY <2>1, <2>2, ChainLength
<1>4. /\ held' \in [Jobs -> Breakers \union {NoBreaker}]
      /\ tries' \in [Jobs -> 0..MaxTries]
      /\ messages' \in [Jobs -> Seq(Models)]
      /\ reprompted' \in [Jobs -> BOOLEAN]
    BY <1>2, ScoringAssumption DEF TypeOK, FailOver
<1>5. at' \in [Jobs -> {"new"} \union Active \union Ended]
    BY DEF TypeOK, FailOver, Goto, Finish, Active, Ended
<1>6. result' \in [Jobs -> Results]
    <2>1. result' = result \/ result' = [result EXCEPT ![j] = Fallback]
        BY DEF FailOver, Finish
    <2>2. result \in [Jobs -> Results]
        BY DEF TypeOK
    <2> QED
        BY <2>1, <2>2, ResultTypes
<1> QED
    BY <1>3, <1>4, <1>5, <1>6

\* So does every step.
LEMMA TypeStep == TypeOK /\ BreakersAreFound /\ [Next]_vars => TypeOK'
<1> SUFFICES ASSUME TypeOK, BreakersAreFound, [Next]_vars PROVE TypeOK'
    OBVIOUS
<1>1. ASSUME NEW j \in Jobs, Start(j) PROVE TypeOK'
    <2>1. at' \in [Jobs -> {"new"} \union Active \union Ended]
        BY <1>1 DEF TypeOK, Start, Goto, Finish, Active, Ended
    <2>2. result' = result \/ result' = [result EXCEPT ![j] = Fallback]
        BY <1>1 DEF Start, Finish
    <2>3. result' \in [Jobs -> Results]
        BY <2>2, ResultTypes DEF TypeOK
    <2> QED
        BY <1>1, <2>1, <2>3 DEF TypeOK, Start, breakers, history
<1>2. ASSUME NEW j \in Jobs, Lookup(j) PROVE TypeOK'
    <2>1. registry[Current(j)] \in Breakers \union {NoBreaker} /\ <<Current(j), j>> \in Breakers
        BY CurrentIsModel DEF TypeOK, Breakers
    <2> QED
        <3>1. at' \in [Jobs -> {"new"} \union Active \union Ended]
            BY <1>2 DEF TypeOK, Lookup, Goto, Active, Ended
        <3>2. held' \in [Jobs -> Breakers \union {NoBreaker}]
            BY <1>2, <2>1 DEF TypeOK, Lookup
        <3> QED
            BY <1>2, <3>1, <3>2 DEF TypeOK, Lookup, breakers, history
<1>3. ASSUME NEW j \in Jobs, Store(j) PROVE TypeOK'
    <2>1. Current(j) \in Models /\ held[j] \in Breakers \union {NoBreaker}
        BY CurrentIsModel DEF TypeOK
    <2> QED
        BY <1>3, <2>1 DEF TypeOK, Store, Goto, Active, Ended, history
<1>4. ASSUME NEW j \in Jobs, Enter(j) PROVE TypeOK'
    <2>1. 1 \in 0..MaxTries
        BY ScoringAssumption
    <2>2. /\ at' \in [Jobs -> {"new"} \union Active \union Ended]
          /\ tries' \in [Jobs -> 0..MaxTries]
        BY <1>4, <2>1 DEF TypeOK, Enter, Goto, Active, Ended
    <2>3. state' \in [Breakers -> {"closed", "open", "elapsed", "half_open"}]
        BY <1>4 DEF TypeOK, Enter
    <2> QED
        BY <1>4, <2>2, <2>3 DEF TypeOK, Enter, history
<1>5. ASSUME NEW j \in Jobs, Reject(j) PROVE TypeOK'
    BY <1>5, FailOverTypes DEF TypeOK, Reject, breakers, history
<1>6. ASSUME NEW j \in Jobs, TryAgain(j) PROVE TypeOK'
    <2>1. tries[j] \in 0..MaxTries /\ tries[j] < MaxTries /\ MaxTries \in Nat
        BY <1>6, ScoringAssumption DEF TypeOK, TryAgain
    <2>2. tries[j] + 1 \in 0..MaxTries
        BY <2>1
    <2>3. tries' \in [Jobs -> 0..MaxTries]
        BY <1>6, <2>2 DEF TypeOK, TryAgain
    <2> QED
        BY <1>6, <2>3 DEF TypeOK, TryAgain, breakers, history
<1>7. ASSUME NEW j \in Jobs, CallRaises(j) PROVE TypeOK'
    <2>1. Current(j) \in Models /\ held[j] \in Breakers
        BY <1>7, CurrentIsModel DEF TypeOK, BreakersAreFound, CallRaises
    <2>2. /\ counter' = [counter EXCEPT ![held[j]] = counter[held[j]] + 1]
          /\ streak' = [streak EXCEPT ![Current(j)] = streak[Current(j)] + 1]
          /\ failures' = [failures EXCEPT ![Current(j)] = failures[Current(j)] + 1]
          /\ FailOver(j) /\ registry' = registry
        BY <1>7 DEF CallRaises
    <2>3. counter' \in [Breakers -> Nat]
        BY <2>1, <2>2 DEF TypeOK
    <2>4. streak' \in [Models -> Nat] /\ failures' \in [Models -> Nat]
        BY <2>1, <2>2 DEF TypeOK
    <2>5. state' \in [Breakers -> {"closed", "open", "elapsed", "half_open"}]
        BY <1>7 DEF TypeOK, CallRaises
    <2> QED
        BY <2>2, <2>3, <2>4, <2>5, FailOverTypes DEF TypeOK
<1>8. ASSUME NEW j \in Jobs, CallReturns(j)
      PROVE  /\ registry' \in [Models -> Breakers \union {NoBreaker}]
             /\ state' \in [Breakers -> {"closed", "open", "elapsed", "half_open"}]
             /\ counter' \in [Breakers -> Nat]
             /\ streak' \in [Models -> Nat]
             /\ failures' \in [Models -> Nat]
    BY <1>8 DEF TypeOK, CallReturns
<1>9. ASSUME NEW j \in Jobs, Usable(j) PROVE TypeOK'
    <2>1. CallReturns(j) /\ Current(j) \in Models
        BY <1>9, CurrentIsModel DEF TypeOK, Usable
    <2>2. result' \in [Jobs -> Results]
        BY <1>9, <2>1, ResultTypes DEF TypeOK, Usable, Finish
    <2>3. /\ at' \in [Jobs -> {"new"} \union Active \union Ended]
          /\ held' \in [Jobs -> Breakers \union {NoBreaker}]
          /\ tries' \in [Jobs -> 0..MaxTries]
        BY <1>9, ScoringAssumption DEF TypeOK, Usable, Finish, Goto, Active, Ended
    <2> QED
        BY <1>8, <1>9, <2>1, <2>2, <2>3 DEF TypeOK, Usable
<1>10. ASSUME NEW j \in Jobs, Malformed(j) PROVE TypeOK'
    <2>1. CallReturns(j) /\ Current(j) \in Models
        BY <1>10, CurrentIsModel DEF TypeOK, Malformed
    <2>2. messages' \in [Jobs -> Seq(Models)] /\ reprompted' \in [Jobs -> BOOLEAN]
        BY <1>10, <2>1 DEF TypeOK, Malformed
    <2>3. /\ at' \in [Jobs -> {"new"} \union Active \union Ended]
          /\ held' \in [Jobs -> Breakers \union {NoBreaker}]
          /\ tries' \in [Jobs -> 0..MaxTries]
        BY <1>10, ScoringAssumption DEF TypeOK, Malformed, Goto, Active, Ended
    <2> QED
        BY <1>8, <1>10, <2>1, <2>2, <2>3 DEF TypeOK, Malformed
<1>11. ASSUME NEW j \in Jobs, Unusable(j) PROVE TypeOK'
    BY <1>8, <1>11, FailOverTypes DEF TypeOK, Unusable
<1>12. ASSUME NEW j \in Jobs, NotAnObject(j) PROVE TypeOK'
    <2>1. CallReturns(j)
        BY <1>12 DEF NotAnObject
    <2>2. /\ at' \in [Jobs -> {"new"} \union Active \union Ended]
          /\ held' \in [Jobs -> Breakers \union {NoBreaker}]
          /\ tries' \in [Jobs -> 0..MaxTries]
        BY <1>12, ScoringAssumption DEF TypeOK, NotAnObject, Goto, Active, Ended
    <2> QED
        BY <1>8, <1>12, <2>1, <2>2 DEF TypeOK, NotAnObject
<1>13. ASSUME NEW b \in Breakers, ResetElapses(b) PROVE TypeOK'
    BY <1>13 DEF TypeOK, ResetElapses, scoring, history
<1>14. CASE UNCHANGED vars
    BY <1>14 DEF TypeOK, vars, scoring, breakers, history
<1> QED
    BY <1>1, <1>2, <1>3, <1>4, <1>5, <1>6, <1>7, <1>9, <1>10, <1>11, <1>12, <1>13, <1>14
    DEF Next, Step

-----------------------------------------------------------------------------
(* What a step changes                                                       *)

\* A job's step leaves the other jobs alone.
LEMMA OthersUntouched ==
    ASSUME TypeOK, NEW j \in Jobs, Step(j), NEW k \in Jobs, k # j
    PROVE  /\ at'[k] = at[k] /\ held'[k] = held[k] /\ Current(k)' = Current(k)
           /\ messages'[k] = messages[k] /\ reprompted'[k] = reprompted[k]
           /\ result'[k] = result[k] /\ position'[k] = position[k] /\ tries'[k] = tries[k]
<1>1. /\ at'[k] = at[k] /\ held'[k] = held[k] /\ position'[k] = position[k]
      /\ messages'[k] = messages[k] /\ reprompted'[k] = reprompted[k]
      /\ result'[k] = result[k] /\ tries'[k] = tries[k]
    <2>1. CASE Start(j)
        BY <2>1 DEF TypeOK, Start, Goto, Finish
    <2>2. CASE Lookup(j) \/ Store(j) \/ Enter(j) \/ TryAgain(j)
        BY <2>2 DEF TypeOK, Lookup, Store, Enter, TryAgain, Goto
    <2>3. CASE FailOver(j)
        BY <2>3 DEF TypeOK, FailOver, Goto, Finish
    <2>4. CASE Usable(j)
        BY <2>4 DEF TypeOK, Usable, Goto, Finish
    <2>5. CASE Malformed(j)
        BY <2>5 DEF TypeOK, Malformed, Goto
    <2>6. CASE NotAnObject(j)
        BY <2>6 DEF TypeOK, NotAnObject, Goto
    <2> QED
        BY <2>1, <2>2, <2>3, <2>4, <2>5, <2>6 DEF Step, Reject, CallRaises, Unusable
<1> QED
    BY <1>1 DEF Current

\* A job looks up, stores, stays with its breaker, or lets go of it.
LEMMA JobMoves ==
    ASSUME TypeOK, NEW j \in Jobs, Step(j)
    PROVE  \/ Lookup(j) \/ Store(j)
           \/ /\ at[j] \in {"call", "network"} /\ at'[j] = "network"
              /\ held'[j] = held[j] /\ position'[j] = position[j]
           \/ at'[j] \in {"lookup", "done", "raised"}
<1>1. CASE Start(j)
    BY <1>1 DEF TypeOK, Start, Goto, Finish
<1>2. CASE Enter(j) \/ TryAgain(j)
    BY <1>2 DEF TypeOK, Enter, TryAgain, Goto
<1>3. CASE FailOver(j)
    BY <1>3 DEF TypeOK, FailOver, Goto, Finish
<1>4. CASE Usable(j) \/ Malformed(j) \/ NotAnObject(j)
    BY <1>4 DEF TypeOK, Usable, Malformed, NotAnObject, Goto, Finish
<1> QED
    BY <1>1, <1>2, <1>3, <1>4 DEF Step, Reject, CallRaises, Unusable

\* Only storing changes the cache.
LEMMA CacheChanges ==
    ASSUME NEW j \in Jobs, Step(j)
    PROVE  Store(j) \/ registry' = registry
BY DEF Step, Start, Lookup, Enter, Reject, TryAgain, CallRaises, Usable, Malformed, Unusable,
       NotAnObject, CallReturns, breakers

\* Only the end of a call changes counters.
LEMMA CounterChanges ==
    ASSUME NEW j \in Jobs, Step(j)
    PROVE  \/ CallRaises(j) \/ CallReturns(j)
           \/ counter' = counter /\ streak' = streak /\ failures' = failures
BY DEF Step, Start, Lookup, Store, Enter, Reject, TryAgain, Usable, Malformed, Unusable,
       NotAnObject, breakers, history

-----------------------------------------------------------------------------
(* The cache and the breakers in use                                         *)

\* The breaker a job makes is one of its model, and nobody else makes it.
LEMMA OwnBreaker ==
    ASSUME TypeOK, NEW j \in Jobs
    PROVE  /\ Current(j) \in Models
           /\ <<Current(j), j>> \in Breakers /\ <<Current(j), j>>[1] = Current(j)
           /\ \A k \in Jobs : <<Current(k), k>> = <<Current(j), j>> => k = j
BY CurrentIsModel DEF TypeOK, Breakers

\* Storing fills the entry of the job's model with its own breaker.
LEMMA StoreEffect ==
    ASSUME TypeOK, BreakersAreFound, NEW j \in Jobs, Store(j)
    PROVE  /\ registry' = [registry EXCEPT ![Current(j)] = <<Current(j), j>>]
           /\ held[j] = <<Current(j), j>> /\ at[j] = "store" /\ at'[j] = "call"
           /\ held' = held /\ position' = position
           /\ state' = state /\ counter' = counter
           /\ streak' = streak /\ failures' = failures
<1>1. /\ at[j] = "store" /\ held[j] = <<Current(j), j>>
      /\ at'[j] = "call"
    BY DEF TypeOK, BreakersAreFound, Store, Goto
<1> QED
    BY <1>1 DEF Store, history

\* The cache stays keyed by the model.
LEMMA CacheStep ==
    ASSUME TypeOK, BreakersAreFound, CacheIsKeyed, [Next]_vars
    PROVE  CacheIsKeyed'
<1>1. ASSUME NEW j \in Jobs, Store(j) PROVE CacheIsKeyed'
    <2>1. registry' = [registry EXCEPT ![Current(j)] = <<Current(j), j>>]
        BY <1>1, StoreEffect
    <2>2. <<Current(j), j>> \in Breakers /\ <<Current(j), j>>[1] = Current(j)
        BY OwnBreaker
    <2>3. registry \in [Models -> Breakers \union {NoBreaker}]
        BY DEF TypeOK
    <2> QED
        BY <2>1, <2>2, <2>3 DEF CacheIsKeyed
<1>2. CASE registry' = registry
    BY <1>2 DEF CacheIsKeyed
<1> QED
    BY <1>1, <1>2, CacheChanges DEF Next, ResetElapses, vars, breakers

\* What a lookup finds.
LEMMA LookupEffect ==
    ASSUME TypeOK, CacheIsKeyed, NEW j \in Jobs, Lookup(j)
    PROVE  /\ position' = position /\ registry' = registry /\ counter' = counter
           /\ \/ /\ registry[Current(j)] = NoBreaker
                 /\ at'[j] = "store" /\ held'[j] = <<Current(j), j>>
              \/ /\ registry[Current(j)] # NoBreaker
                 /\ at'[j] = "call" /\ held'[j] = registry[Current(j)]
                 /\ held'[j] \in Breakers /\ held'[j][1] = Current(j)
<1>1. Current(j) \in Models
    BY OwnBreaker
<1> QED
    BY <1>1 DEF TypeOK, CacheIsKeyed, Lookup, Goto, breakers

\* Jobs go on holding breakers of their models, known to the cache.
LEMMA FoundStep ==
    ASSUME TypeOK, BreakersAreFound, CacheIsKeyed, [Next]_vars
    PROVE  BreakersAreFound'
<1> DEFINE Found(k) ==
               /\ at[k] \in {"store", "call", "network"} =>
                     held[k] \in Breakers /\ held[k][1] = Current(k)
               /\ at[k] = "store" => held[k] = <<Current(k), k>>
               /\ at[k] \in {"call", "network"} => registry[Current(k)] # NoBreaker
<1>1. ASSUME NEW j \in Jobs, Step(j), NEW k \in Jobs PROVE Found(k)'
    <2>1. \A m \in Models : registry[m] # NoBreaker => registry'[m] # NoBreaker
        <3>1. CASE Store(j)
            <4>1. <<Current(j), j>> # NoBreaker
                BY OwnBreaker, NoBreakerAssumption
            <4> QED
                BY <3>1, <4>1, StoreEffect DEF TypeOK
        <3> QED
            BY <1>1, <3>1, CacheChanges
    <2>2. Found(k) /\ Current(k) \in Models
        BY OwnBreaker DEF BreakersAreFound
    <2>3. CASE k # j
        BY <1>1, <2>1, <2>2, <2>3, OthersUntouched
    <2>4. CASE k = j /\ Lookup(j)
        <3>1. Current(j)' = Current(j)
            BY <2>4, LookupEffect DEF Current
        <3> QED
            BY <2>4, <3>1, LookupEffect, OwnBreaker
    <2>5. CASE k = j /\ Store(j)
        <3>1. Current(j)' = Current(j) /\ registry'[Current(j)] = <<Current(j), j>>
            BY <2>2, <2>5, StoreEffect DEF Current, TypeOK
        <3> QED
            BY <2>5, <3>1, StoreEffect, OwnBreaker, NoBreakerAssumption
    <2>6. CASE /\ k = j
               /\ at[j] \in {"call", "network"} /\ at'[j] = "network"
               /\ held'[j] = held[j] /\ position'[j] = position[j]
        BY <2>1, <2>2, <2>6 DEF Current
    <2>7. CASE k = j /\ at'[j] \in {"lookup", "done", "raised"}
        BY <2>7
    <2> QED
        BY <1>1, <2>3, <2>4, <2>5, <2>6, <2>7, JobMoves
<1>2. CASE UNCHANGED <<at, held, position, registry>>
    BY <1>2 DEF BreakersAreFound, Current
<1> QED
    BY <1>1, <1>2 DEF BreakersAreFound, Next, ResetElapses, vars, scoring, breakers

-----------------------------------------------------------------------------
(* Breakers yet to be stored                                                 *)

\* Whoever holds a breaker in a call holds one of a model the cache knows.
LEMMA FreshBefore ==
    ASSUME TypeOK, BreakersAreFound, StreaksAreCounted, NEW j \in Jobs,
           registry[Current(j)] = NoBreaker
    PROVE  /\ counter[<<Current(j), j>>] = 0
           /\ \A k \in Jobs : at[k] \in {"call", "network"} => held[k] # <<Current(j), j>>
<1>1. /\ Current(j) \in Models /\ <<Current(j), j>> \in Breakers
      /\ <<Current(j), j>>[1] = Current(j)
    BY OwnBreaker
<1>2. counter[<<Current(j), j>>] = 0
    BY <1>1 DEF StreaksAreCounted
<1>3. ASSUME NEW k \in Jobs, at[k] \in {"call", "network"}, held[k] = <<Current(j), j>>
      PROVE  FALSE
    <2>1. held[k][1] = Current(k) /\ registry[Current(k)] # NoBreaker
        BY <1>3 DEF BreakersAreFound
    <2> QED
        BY <1>1, <1>3, <2>1
<1> QED
    BY <1>2, <1>3

\* A breaker that is yet to be stored stays unknown and unused.
LEMMA FreshStep ==
    ASSUME TypeOK, BreakersAreFound, CacheIsKeyed, StreaksAreCounted, FreshIsUnused, [Next]_vars
    PROVE  FreshIsUnused'
<1> DEFINE Fresh(k) ==
             at[k] = "store" =>
               /\ registry[Current(k)] # held[k]
               /\ counter[held[k]] = 0
               /\ \A i \in Jobs : at[i] \in {"call", "network"} => held[i] # held[k]
<1>1. ASSUME NEW j \in Jobs, Step(j), NEW k \in Jobs, k = j PROVE Fresh(k)'
    <2>1. CASE Lookup(j)
        <3>1. CASE registry[Current(j)] # NoBreaker
            BY <1>1, <2>1, <3>1, LookupEffect
        <3>2. CASE registry[Current(j)] = NoBreaker
            <4>1. /\ held'[j] = <<Current(j), j>> /\ at'[j] = "store"
                  /\ registry' = registry /\ counter' = counter /\ position' = position
                BY <2>1, <3>2, LookupEffect
            <4>2. /\ counter[<<Current(j), j>>] = 0
                  /\ \A i \in Jobs : at[i] \in {"call", "network"} => held[i] # <<Current(j), j>>
                BY <3>2, FreshBefore
            <4>3. Current(j)' = Current(j)
                BY <4>1 DEF Current
            <4>4. <<Current(j), j>> # NoBreaker
                BY OwnBreaker, NoBreakerAssumption
            <4>5. ASSUME NEW i \in Jobs, at'[i] \in {"call", "network"}
                  PROVE  held'[i] # held'[j]
                BY <1>1, <4>1, <4>2, <4>5, OthersUntouched
            <4> QED
                BY <1>1, <3>2, <4>1, <4>2, <4>3, <4>4, <4>5
        <3> QED
            BY <3>1, <3>2
    <2>2. CASE Store(j)
        BY <1>1, <2>2, StoreEffect
    <2> QED
        BY <1>1, <2>1, <2>2, JobMoves
<1>2. ASSUME NEW j \in Jobs, Step(j), NEW k \in Jobs, k # j, at[k] = "store" PROVE Fresh(k)'
    <2>1. held'[k] = held[k] /\ Current(k)' = Current(k)
        BY <1>2, OthersUntouched
    <2>2. /\ held[k] = <<Current(k), k>> /\ registry[Current(k)] # held[k]
          /\ counter[held[k]] = 0
          /\ \A i \in Jobs : at[i] \in {"call", "network"} => held[i] # held[k]
        BY <1>2 DEF BreakersAreFound, FreshIsUnused
    <2>3. /\ Current(k) \in Models /\ <<Current(k), k>> \in Breakers
          /\ <<Current(k), k>>[1] = Current(k) /\ <<Current(j), j>> # <<Current(k), k>>
        BY <1>2, OwnBreaker
    <2>4. registry'[Current(k)] # held[k]
        <3>1. CASE Store(j)
            BY <2>2, <2>3, <3>1, StoreEffect DEF TypeOK
        <3> QED
            BY <1>2, <2>2, <3>1, CacheChanges
    <2>5. counter'[held[k]] = 0
        <3>1. CASE at[j] = "network" /\ \/ counter' = [counter EXCEPT ![held[j]] = @ + 1]
                                        \/ counter' = [counter EXCEPT ![held[j]] = 0]
            <4>1. held[j] # held[k]
                BY <2>2, <3>1
            <4>2. held[k] \in Breakers /\ counter \in [Breakers -> Nat]
                BY <2>2, <2>3 DEF TypeOK
            <4> QED
                BY <2>2, <3>1, <4>1, <4>2
        <3> QED
            BY <1>2, <2>2, <3>1, CounterChanges DEF CallRaises, CallReturns
    <2>6. ASSUME NEW i \in Jobs, at'[i] \in {"call", "network"} PROVE held'[i] # held[k]
        <3>1. CASE i # j
            BY <1>2, <2>2, <2>6, <3>1, OthersUntouched
        <3>2. CASE i = j /\ Lookup(j)
            <4>1. registry[Current(j)] = held'[j] /\ held'[j][1] = Current(j)
                BY <2>6, <3>2, LookupEffect
            <4> QED
                BY <2>2, <2>3, <3>2, <4>1
        <3>3. CASE i = j /\ Store(j)
            BY <2>2, <2>3, <3>3, StoreEffect
        <3>4. CASE i = j /\ at[j] \in {"call", "network"} /\ held'[j] = held[j]
            BY <2>2, <3>4
        <3> QED
            BY <1>2, <2>6, <3>1, <3>2, <3>3, <3>4, JobMoves
    <2> QED
        BY <2>1, <2>2, <2>4, <2>5, <2>6
<1>3. ASSUME NEW j \in Jobs, Step(j), NEW k \in Jobs PROVE Fresh(k)'
    BY <1>1, <1>2, <1>3, OthersUntouched
<1>4. CASE UNCHANGED <<at, held, position, registry, counter>>
    BY <1>4 DEF FreshIsUnused, Current
<1> QED
    BY <1>3, <1>4 DEF FreshIsUnused, Next, ResetElapses, vars, scoring, breakers

-----------------------------------------------------------------------------
(* What the breakers count                                                   *)

\* The breaker of a call in progress is one of the model being tried.
LEMMA OwnCall ==
    ASSUME TypeOK, BreakersAreFound, NEW j \in Jobs, at[j] = "network"
    PROVE  /\ held[j] \in Breakers /\ Current(j) \in Models /\ held[j][1] = Current(j)
           /\ registry[Current(j)] # NoBreaker
BY OwnBreaker DEF BreakersAreFound

\* A call that raised adds one failure to its breaker and to its model.
LEMMA RaiseEffect ==
    ASSUME TypeOK, BreakersAreFound, NEW j \in Jobs, CallRaises(j)
    PROVE  /\ at[j] = "network" /\ registry' = registry
           /\ counter'[held[j]] = counter[held[j]] + 1
           /\ streak'[Current(j)] = streak[Current(j)] + 1
           /\ failures'[Current(j)] = failures[Current(j)] + 1
           /\ \/ state'[held[j]] = "open"
                 /\ (state[held[j]] = "half_open" \/ counter[held[j]] + 1 >= FailMax)
              \/ state'[held[j]] = state[held[j]] /\ counter[held[j]] + 1 < FailMax
           /\ \A b \in Breakers \ {held[j]} : counter'[b] = counter[b] /\ state'[b] = state[b]
           /\ \A m \in Models \ {Current(j)} : streak'[m] = streak[m] /\ failures'[m] = failures[m]
<1>1. at[j] = "network"
    BY DEF CallRaises
<1>2. held[j] \in Breakers /\ Current(j) \in Models
    BY <1>1, OwnCall
<1>3. /\ counter \in [Breakers -> Nat] /\ streak \in [Models -> Nat]
      /\ failures \in [Models -> Nat] /\ FailMax \in Nat
      /\ state \in [Breakers -> {"closed", "open", "elapsed", "half_open"}]
    BY ScoringAssumption DEF TypeOK
<1>4. /\ counter' = [counter EXCEPT ![held[j]] = counter[held[j]] + 1]
      /\ streak' = [streak EXCEPT ![Current(j)] = streak[Current(j)] + 1]
      /\ failures' = [failures EXCEPT ![Current(j)] = failures[Current(j)] + 1]
      /\ state' = [state EXCEPT ![held[j]] =
                     IF state[held[j]] = "half_open" \/ counter[held[j]] + 1 >= FailMax
                     THEN "open" ELSE state[held[j]]]
      /\ registry' = registry
    BY DEF CallRaises
<1> QED
    BY <1>1, <1>2, <1>3, <1>4

\* A call that returned closes its breaker and ends the row of failures.
LEMMA ReturnEffect ==
    ASSUME TypeOK, BreakersAreFound, NEW j \in Jobs, CallReturns(j)
    PROVE  /\ at[j] = "network" /\ registry' = registry /\ failures' = failures
           /\ counter'[held[j]] = 0 /\ streak'[Current(j)] = 0 /\ state'[held[j]] = "closed"
           /\ \A b \in Breakers \ {held[j]} : counter'[b] = counter[b] /\ state'[b] = state[b]
           /\ \A m \in Models \ {Current(j)} : streak'[m] = streak[m]
<1>1. at[j] = "network"
    BY DEF CallReturns
<1>2. held[j] \in Breakers /\ Current(j) \in Models
    BY <1>1, OwnCall
<1> QED
    BY <1>1, <1>2 DEF CallReturns, TypeOK

\* What else happens to a breaker: its time passes, or it lets a trial through.
LEMMA StateChanges ==
    ASSUME TypeOK, NEW j \in Jobs, Step(j)
    PROVE  \/ CallRaises(j) \/ CallReturns(j)
           \/ /\ counter' = counter /\ failures' = failures
              /\ \A b \in Breakers : \/ state'[b] = state[b]
                                     \/ state[b] = "elapsed" /\ state'[b] = "half_open"
<1>1. CASE Enter(j)
    <2>1. /\ counter' = counter /\ failures' = failures
          /\ state' = [state EXCEPT ![held[j]] = IF state[held[j]] = "elapsed"
                                                 THEN "half_open" ELSE state[held[j]]]
        BY <1>1 DEF Enter, history
    <2>2. state \in [Breakers -> {"closed", "open", "elapsed", "half_open"}]
        BY DEF TypeOK
    <2> QED
        BY <2>1, <2>2
<1>2. CASE Start(j) \/ Lookup(j) \/ Store(j) \/ Reject(j) \/ TryAgain(j)
    <2>1. counter' = counter /\ failures' = failures /\ state' = state
        BY <1>2 DEF Start, Lookup, Store, Reject, TryAgain, breakers, history
    <2> QED
        BY <2>1
<1> QED
    BY <1>1, <1>2 DEF Step, Usable, Malformed, Unusable, NotAnObject

\* Breakers go on counting failures of their own model, and open for those only.
LEMMA EarnedStep ==
    ASSUME TypeOK, BreakersAreFound, CountersAreEarned, OpenIsEarned, [Next]_vars
    PROVE  CountersAreEarned' /\ OpenIsEarned'
<1> DEFINE Earned(b) ==
             /\ counter[b] <= failures[b[1]]
             /\ state[b] = "closed" => counter[b] < FailMax
             /\ state[b] # "closed" => failures[b[1]] >= FailMax
<1>1. /\ counter \in [Breakers -> Nat] /\ failures \in [Models -> Nat]
      /\ FailMax \in Nat \ {0}
    BY ScoringAssumption DEF TypeOK
<1>2. \A b \in Breakers : Earned(b) /\ b[1] \in Models
    BY BreakerHasModel DEF CountersAreEarned, OpenIsEarned
<1>3. ASSUME NEW j \in Jobs, CallRaises(j), NEW b \in Breakers PROVE Earned(b)'
    <2>1. at[j] = "network" /\ held[j] \in Breakers /\ held[j][1] = Current(j)
        BY <1>3, RaiseEffect, OwnCall
    <2>2. b[1] \in Models /\ counter[b] \in Nat /\ failures[b[1]] \in Nat /\ Earned(b)
        BY <1>1, <1>2
    <2>3. CASE b = held[j]
        <3>1. /\ counter'[b] = counter[b] + 1 /\ failures'[b[1]] = failures[b[1]] + 1
              /\ \/ state'[b] = "open" /\ (state[b] = "half_open" \/ counter[b] + 1 >= FailMax)
                 \/ state'[b] = state[b] /\ counter[b] + 1 < FailMax
            BY <1>3, <2>1, <2>3, RaiseEffect
        <3> QED
            BY <1>1, <2>2, <3>1
    <2>4. CASE b # held[j]
        <3>1. /\ counter'[b] = counter[b] /\ state'[b] = state[b]
              /\ failures'[b[1]] \in {failures[b[1]], failures[b[1]] + 1}
            BY <1>3, <2>2, <2>4, RaiseEffect
        <3> QED
            BY <1>1, <2>2, <3>1
    <2> QED
        BY <2>3, <2>4
<1>4. ASSUME NEW j \in Jobs, CallReturns(j), NEW b \in Breakers PROVE Earned(b)'
    <2>1. b[1] \in Models /\ counter[b] \in Nat /\ failures[b[1]] \in Nat /\ Earned(b)
        BY <1>1, <1>2
    <2>2. /\ failures' = failures
          /\ \/ counter'[b] = 0 /\ state'[b] = "closed"
             \/ counter'[b] = counter[b] /\ state'[b] = state[b]
        BY <1>4, ReturnEffect
    <2> QED
        BY <1>1, <2>1, <2>2
<1>5. ASSUME counter' = counter, failures' = failures, NEW b \in Breakers,
             \/ state'[b] = state[b]
             \/ state[b] = "elapsed" /\ state'[b] = "half_open"
             \/ state[b] = "open" /\ state'[b] = "elapsed"
      PROVE  Earned(b)'
    BY <1>2, <1>5
<1>6. ASSUME NEW j \in Jobs, Step(j), NEW b \in Breakers PROVE Earned(b)'
    BY <1>3, <1>4, <1>5, <1>6, StateChanges
<1>7. ASSUME NEW c \in Breakers, ResetElapses(c), NEW b \in Breakers PROVE Earned(b)'
    BY <1>5, <1>7 DEF ResetElapses, TypeOK, history
<1>8. ASSUME UNCHANGED vars, NEW b \in Breakers PROVE Earned(b)'
    BY <1>5, <1>8 DEF vars, breakers, history
<1>9. \A b \in Breakers : Earned(b)'
    BY <1>6, <1>7, <1>8 DEF Next
<1> QED
    BY <1>9 DEF CountersAreEarned, OpenIsEarned

-----------------------------------------------------------------------------
(* Failures in a row                                                         *)

\* They stay counted by the breaker in the cache, or one it replaced has counted some.
LEMMA StreakStep ==
    ASSUME TypeOK, BreakersAreFound, CacheIsKeyed, FreshIsUnused, StreaksAreCounted, [Next]_vars
    PROVE  StreaksAreCounted'
<1> DEFINE Replaced(m) == \A b \in Breakers : b[1] = m /\ b # registry[m] => counter[b] = 0
           Counted(m) ==
             /\ registry[m] = NoBreaker =>
                   streak[m] = 0 /\ \A b \in Breakers : b[1] = m => counter[b] = 0
             /\ registry[m] # NoBreaker /\ Replaced(m) => streak[m] <= counter[registry[m]]
<1>1. /\ counter \in [Breakers -> Nat] /\ streak \in [Models -> Nat]
      /\ registry \in [Models -> Breakers \union {NoBreaker}]
    BY DEF TypeOK
<1>2. \A m \in Models : Counted(m)
    BY DEF StreaksAreCounted
<1>3. \A m \in Models : registry[m] # NoBreaker => registry[m] \in Breakers /\ registry[m][1] = m
    BY DEF CacheIsKeyed
<1>4. ASSUME NEW j \in Jobs, Store(j), NEW m \in Models PROVE Counted(m)'
    <2>1. /\ registry' = [registry EXCEPT ![Current(j)] = held[j]]
          /\ counter' = counter /\ streak' = streak /\ at[j] = "store"
        BY <1>4, StoreEffect
    <2>2. /\ held[j] \in Breakers /\ held[j] # NoBreaker /\ held[j][1] = Current(j)
          /\ registry[Current(j)] # held[j] /\ counter[held[j]] = 0
        BY <2>1, OwnBreaker, NoBreakerAssumption DEF BreakersAreFound, FreshIsUnused
    <2>3. CASE m # Current(j)
        <3>1. registry'[m] = registry[m]
            BY <1>1, <2>1, <2>3
        <3> QED
            BY <1>2, <2>1, <3>1
    <2>4. CASE m = Current(j)
        <3>1. registry'[m] = held[j]
            BY <1>1, <2>1, <2>4
        <3>2. ASSUME Replaced(m)' PROVE streak[m] <= 0
            <4>1. \A b \in Breakers : b[1] = m => counter[b] = 0
                BY <2>1, <2>2, <3>1, <3>2
            <4>2. CASE registry[m] = NoBreaker
                BY <1>2, <4>2
            <4>3. CASE registry[m] # NoBreaker
                BY <1>2, <1>3, <4>1, <4>3
            <4> QED
                BY <4>2, <4>3
        <3> QED
            BY <2>1, <2>2, <3>1, <3>2
    <2> QED
        BY <2>3, <2>4
<1>5. ASSUME NEW j \in Jobs, CallRaises(j), NEW m \in Models PROVE Counted(m)'
    <2>1. /\ held[j] \in Breakers /\ held[j][1] = Current(j) /\ Current(j) \in Models
          /\ registry[Current(j)] # NoBreaker
        BY <1>5, RaiseEffect, OwnCall
    <2>2. /\ registry' = registry /\ counter'[held[j]] = counter[held[j]] + 1
          /\ streak'[Current(j)] = streak[Current(j)] + 1
          /\ \A b \in Breakers \ {held[j]} : counter'[b] = counter[b]
          /\ \A n \in Models \ {Current(j)} : streak'[n] = streak[n]
        BY <1>5, RaiseEffect
    <2>3. CASE m # Current(j)
        <3>1. streak'[m] = streak[m] /\ \A b \in Breakers : b[1] = m => counter'[b] = counter[b]
            BY <2>1, <2>2, <2>3
        <3> QED
            BY <1>2, <1>3, <2>2, <3>1
    <2>4. CASE m = Current(j) /\ registry[m] = held[j]
        <3>1. ASSUME Replaced(m)' PROVE Replaced(m)
            BY <2>2, <2>4, <3>1
        <3>2. streak[m] \in Nat /\ counter[held[j]] \in Nat
            BY <1>1, <2>1
        <3> QED
            BY <1>2, <2>1, <2>2, <2>4, <3>1, <3>2
    <2>5. CASE m = Current(j) /\ registry[m] # held[j]
        <3>1. counter[held[j]] \in Nat
            BY <1>1, <2>1
        <3>2. ~Replaced(m)'
            BY <2>1, <2>2, <2>5, <3>1
        <3> QED
            BY <2>1, <2>2, <2>5, <3>2
    <2> QED
        BY <2>3, <2>4, <2>5
<1>6. ASSUME NEW j \in Jobs, CallReturns(j), NEW m \in Models PROVE Counted(m)'
    <2>1. /\ held[j] \in Breakers /\ held[j][1] = Current(j) /\ Current(j) \in Models
          /\ registry[Current(j)] # NoBreaker
        BY <1>6, ReturnEffect, OwnCall
    <2>2. /\ registry' = registry /\ counter'[held[j]] = 0 /\ streak'[Current(j)] = 0
          /\ \A b \in Breakers \ {held[j]} : counter'[b] = counter[b]
          /\ \A n \in Models \ {Current(j)} : streak'[n] = streak[n]
        BY <1>6, ReturnEffect
    <2>3. CASE m # Current(j)
        <3>1. streak'[m] = streak[m] /\ \A b \in Breakers : b[1] = m => counter'[b] = counter[b]
            BY <2>1, <2>2, <2>3
        <3> QED
            BY <1>2, <1>3, <2>2, <3>1
    <2>4. CASE m = Current(j)
        <3>1. registry[m] \in Breakers /\ counter'[registry[m]] >= 0
            BY <1>1, <1>3, <2>1, <2>2, <2>4
        <3> QED
            BY <2>1, <2>2, <2>4, <3>1
    <2> QED
        BY <2>3, <2>4
<1>7. ASSUME registry' = registry, counter' = counter, streak' = streak, NEW m \in Models
      PROVE  Counted(m)'
    BY <1>2, <1>7
<1>8. ASSUME NEW j \in Jobs, Step(j), NEW m \in Models PROVE Counted(m)'
    BY <1>4, <1>5, <1>6, <1>7, <1>8, CacheChanges, CounterChanges
<1>9. CASE UNCHANGED <<registry, counter, streak>>
    BY <1>9 DEF StreaksAreCounted
<1> QED
    BY <1>8, <1>9 DEF StreaksAreCounted, Next, ResetElapses, vars, breakers, history

-----------------------------------------------------------------------------
(* Conversations                                                             *)

\* A job that gives a model up drops the conversation with it.
LEMMA FailOverEffect ==
    ASSUME TypeOK, NEW j \in Jobs, FailOver(j)
    PROVE  /\ messages'[j] = <<>> /\ reprompted'[j] = FALSE
           /\ \/ at'[j] = "lookup" /\ position'[j] = position[j] + 1 /\ result'[j] = result[j]
              \/ at'[j] = "done" /\ result'[j] = Fallback
BY ChainLength DEF TypeOK, FailOver, Goto, Finish

\* Conversations stay with the model they were started with.
LEMMA ConversationStep ==
    ASSUME TypeOK, ConversationsStartFresh, ConversationIsOwn, [Next]_vars
    PROVE  ConversationsStartFresh' /\ ConversationIsOwn'
<1> DEFINE Own(k) ==
             /\ at[k] = "new" => messages[k] = <<>> /\ ~reprompted[k]
             /\ at[k] # "done" => result[k] = NoResult
             /\ at[k] \in Active => messages[k] = IF reprompted[k] THEN <<Current(k)>> ELSE <<>>
             /\ result[k].source = "llm" => messages[k] = <<>>
             /\ result[k].source = "llm_selfcorrected" => messages[k] = <<result[k].model>>
<1>1. \A k \in Jobs : Own(k)
    BY DEF ConversationsStartFresh, ConversationIsOwn
<1>2. ASSUME NEW j \in Jobs, Start(j) PROVE Own(j)'
    <2>1. /\ messages'[j] = <<>> /\ ~reprompted'[j]
          /\ \/ at'[j] = "done" /\ result'[j] = Fallback
             \/ at'[j] \in {"raised", "lookup"} /\ result'[j] = NoResult
        BY <1>1, <1>2 DEF TypeOK, Start, Goto, Finish
    <2> QED
        BY <2>1 DEF Fallback, NoResult, None, Active
<1>3. ASSUME NEW j \in Jobs, Lookup(j) \/ Store(j) \/ Enter(j) \/ TryAgain(j) PROVE Own(j)'
    <2>1. /\ at[j] \in Active /\ at'[j] \in Active /\ position' = position
          /\ messages' = messages /\ reprompted' = reprompted /\ result' = result
        BY <1>3 DEF TypeOK, Lookup, Store, Enter, TryAgain, Goto, Active
    <2>2. at[j] # "done" /\ at'[j] # "new"
        BY <2>1 DEF Active
    <2>3. Current(j)' = Current(j)
        BY <2>1 DEF Current
    <2> QED
        BY <1>1, <2>1, <2>2, <2>3
<1>4. ASSUME NEW j \in Jobs, FailOver(j), at[j] \in {"call", "network"} PROVE Own(j)'
    <2>1. /\ messages'[j] = <<>> /\ ~reprompted'[j]
          /\ \/ at'[j] = "done" /\ result'[j] = Fallback
             \/ at'[j] = "lookup" /\ result'[j] = NoResult
        BY <1>1, <1>4, FailOverEffect
    <2> QED
        BY <2>1 DEF Fallback, NoResult, None, Active
<1>5. ASSUME NEW j \in Jobs, Usable(j) PROVE Own(j)'
    <2>1. at[j] \in Active
        BY <1>5 DEF Usable, CallReturns, Active
    <2>2. /\ at'[j] = "done" /\ messages' = messages
          /\ result'[j] = [source |-> IF reprompted[j] THEN "llm_selfcorrected" ELSE "llm",
                           model |-> Current(j)]
        BY <1>5 DEF TypeOK, Usable, Goto, Finish
    <2>3. messages[j] = IF reprompted[j] THEN <<Current(j)>> ELSE <<>>
        BY <1>1, <2>1
    <2>4. CASE reprompted[j]
        <3>1. result'[j] = [source |-> "llm_selfcorrected", model |-> Current(j)]
            BY <2>2, <2>4
        <3>2. messages'[j] = <<Current(j)>>
            BY <2>2, <2>4, <2>3
        <3> QED
            BY <2>2, <3>1, <3>2 DEF Active
    <2>5. CASE ~reprompted[j]
        <3>1. result'[j] = [source |-> "llm", model |-> Current(j)]
            BY <2>2, <2>5
        <3>2. messages'[j] = <<>>
            BY <2>2, <2>5, <2>3
        <3> QED
            BY <2>2, <3>1, <3>2 DEF Active
    <2> QED
        BY <2>4, <2>5
<1>6. ASSUME NEW j \in Jobs, Malformed(j) PROVE Own(j)'
    <2>1. at[j] = "network" /\ ~reprompted[j]
        BY <1>6 DEF Malformed, CallReturns
    <2>2. messages[j] = <<>> /\ result[j] = NoResult
        BY <1>1, <2>1 DEF Active
    <2>3. /\ at'[j] = "lookup" /\ reprompted'[j] = TRUE /\ result' = result
          /\ messages'[j] = Append(<<>>, Current(j)) /\ position' = position
        BY <1>6, <2>2 DEF TypeOK, Malformed, Goto
    <2>4. messages'[j] = <<Current(j)'>>
        BY <2>3 DEF Current
    <2> QED
        BY <2>2, <2>3, <2>4 DEF NoResult, None, Active
<1>7. ASSUME NEW j \in Jobs, NotAnObject(j) PROVE Own(j)'
    <2>1. at[j] = "network"
        BY <1>7 DEF NotAnObject, CallReturns
    <2>2. at'[j] = "raised" /\ result'[j] = NoResult
        BY <1>1, <1>7, <2>1 DEF TypeOK, NotAnObject, Goto
    <2> QED
        BY <2>2 DEF NoResult, None, Active
<1>8. ASSUME NEW j \in Jobs, Step(j) PROVE Own(j)'
    BY <1>2, <1>3, <1>4, <1>5, <1>6, <1>7, <1>8
    DEF Step, Reject, CallRaises, Unusable, CallReturns
<1>9. ASSUME NEW j \in Jobs, Step(j), NEW k \in Jobs, k # j PROVE Own(k)'
    BY <1>1, <1>9, OthersUntouched
<1>10. CASE UNCHANGED scoring
    BY <1>10 DEF ConversationsStartFresh, ConversationIsOwn, Current, scoring
<1>11. (\E j \in Jobs : Step(j)) => \A k \in Jobs : Own(k)'
    BY <1>8, <1>9
<1> QED
    BY <1>10, <1>11 DEF ConversationsStartFresh, ConversationIsOwn, Next, ResetElapses, vars

-----------------------------------------------------------------------------
(* Progress of a job                                                         *)

\* How far a job is in its breaker call.
Phase(j) ==
    CASE at[j] = "lookup"  -> 0
      [] at[j] = "store"   -> 1
      [] at[j] = "call"    -> 2
      [] at[j] = "network" -> 2 + tries[j]
      [] OTHER -> 0

\* Every step of a job brings it nearer to its end: to a later model, from the first
\* prompt to the only re-prompt, or further in one call.
LEMMA StepAdvances ==
    ASSUME TypeOK, NEW j \in Jobs, Step(j)
    PROVE  \/ at[j] = "new"
           \/ at[j] \notin Ended /\ at'[j] \in Ended
           \/ position'[j] > position[j]
           \/ position'[j] = position[j] /\ ~reprompted[j] /\ reprompted'[j]
           \/ position'[j] = position[j] /\ reprompted'[j] = reprompted[j] /\ Phase(j)' > Phase(j)
<1>1. position[j] \in Nat /\ tries[j] \in Nat
    BY ChainLength, ScoringAssumption DEF TypeOK
<1>2. CASE Start(j)
    BY <1>2 DEF Start
<1>3. CASE Lookup(j)
    <2>1. /\ at[j] = "lookup" /\ at'[j] \in {"store", "call"}
          /\ position' = position /\ reprompted' = reprompted
        BY <1>3 DEF TypeOK, Lookup, Goto
    <2>2. Phase(j) = 0 /\ Phase(j)' \in {1, 2}
        BY <2>1 DEF Phase
    <2> QED
        BY <2>1, <2>2
<1>4. CASE Store(j)
    <2>1. /\ at[j] = "store" /\ at'[j] = "call"
          /\ position' = position /\ reprompted' = reprompted
        BY <1>4 DEF TypeOK, Store, Goto
    <2>2. Phase(j) = 1 /\ Phase(j)' = 2
        BY <2>1 DEF Phase
    <2> QED
        BY <2>1, <2>2
<1>5. CASE Enter(j)
    <2>1. /\ at[j] = "call" /\ at'[j] = "network" /\ tries'[j] = 1
          /\ position' = position /\ reprompted' = reprompted
        BY <1>5 DEF TypeOK, Enter, Goto
    <2>2. Phase(j) = 2 /\ Phase(j)' = 2 + tries'[j]
        BY <2>1 DEF Phase
    <2> QED
        BY <2>1, <2>2
<1>6. CASE TryAgain(j)
    <2>1. /\ at[j] = "network" /\ at'[j] = "network" /\ tries'[j] = tries[j] + 1
          /\ position' = position /\ reprompted' = reprompted
        BY <1>6 DEF TypeOK, TryAgain
    <2>2. Phase(j) = 2 + tries[j] /\ Phase(j)' = 2 + tries'[j]
        BY <2>1 DEF Phase
    <2> QED
        BY <1>1, <2>1, <2>2
<1>7. CASE at[j] \in {"call", "network"} /\ FailOver(j)
    <2>1. at'[j] = "done" \/ position'[j] = position[j] + 1
        BY <1>7, FailOverEffect
    <2>2. at[j] \notin Ended /\ "done" \in Ended
        BY <1>7 DEF Ended
    <2>3. CASE at'[j] = "done"
        BY <2>2, <2>3
    <2>4. CASE position'[j] = position[j] + 1
        BY <1>1, <2>4
    <2> QED
        BY <2>1, <2>3, <2>4
<1>8. CASE Usable(j) \/ NotAnObject(j)
    BY <1>8 DEF TypeOK, Usable, NotAnObject, CallReturns, Goto, Finish, Ended
<1>9. CASE Malformed(j)
    BY <1>9 DEF TypeOK, Malformed
<1> QED
    BY <1>2, <1>3, <1>4, <1>5, <1>6, <1>7, <1>8, <1>9
    DEF Step, Reject, CallRaises, Unusable, CallReturns

-----------------------------------------------------------------------------
(* The theorems                                                              *)

\* A process that has scored before starts in the invariant.
LEMMA ScoringInit == Init => ScoringInv
<1> SUFFICES ASSUME Init PROVE ScoringInv
    OBVIOUS
<1>1. FailMax \in Nat \ {0} /\ MaxTries \in Nat \ {0}
    BY ScoringAssumption
<1>2. \A m \in Models : /\ <<m, Earlier>> \in Breakers
                        /\ counter[<<m, Earlier>>] \in 0..(FailMax - 1)
    BY DEF Init, Breakers
<1>3. /\ streak \in [Models -> Nat] /\ failures = streak
      /\ \A m \in Models : streak[m] = counter[<<m, Earlier>>]
    BY <1>1, <1>2 DEF Init
<1>4. /\ counter \in [Breakers -> 0..(FailMax - 1)]
      /\ \A b \in Breakers : b # registry[b[1]] => counter[b] = 0
      /\ \A m \in Models : registry[m] \in {NoBreaker, <<m, Earlier>>}
      /\ \A b \in Breakers : state[b] = "closed"
    BY DEF Init
<1>5. TypeOK
    <2>1. <<>> \in Seq(Models) /\ 1 \in DOMAIN Chain /\ 0 \in 0..MaxTries
        BY <1>1, ChainLength
    <2>2. counter \in [Breakers -> Nat]
        BY <1>1, <1>4
    <2> QED
        BY <1>3, <2>1, <2>2, ResultTypes DEF Init, TypeOK
<1>6. BreakersAreFound /\ FreshIsUnused /\ ConversationsStartFresh /\ ConversationIsOwn
    BY DEF Init, BreakersAreFound, FreshIsUnused, ConversationsStartFresh, ConversationIsOwn,
           NoResult, None, Active
<1>7. CacheIsKeyed
    BY <1>2, <1>4 DEF CacheIsKeyed
<1>8. CountersAreEarned
    <2> SUFFICES ASSUME NEW b \in Breakers
                 PROVE  counter[b] <= failures[b[1]] /\ counter[b] < FailMax
        BY DEF CountersAreEarned
    <2>1. b[1] \in Models /\ counter[b] \in 0..(FailMax - 1) /\ failures[b[1]] \in Nat
        BY <1>3, <1>4, BreakerHasModel
    <2>2. CASE b = registry[b[1]]
        <3>1. b \in {NoBreaker, <<b[1], Earlier>>} /\ b # NoBreaker
            BY <1>4, <2>1, <2>2, NoBreakerAssumption
        <3> QED
            BY <1>1, <1>3, <2>1, <3>1
    <2>3. CASE b # registry[b[1]]
        BY <1>1, <1>4, <2>1, <2>3
    <2> QED
        BY <2>2, <2>3
<1>9. OpenIsEarned
    BY <1>4 DEF OpenIsEarned
<1>10. StreaksAreCounted
    <2> SUFFICES ASSUME NEW m \in Models
                 PROVE  /\ registry[m] = NoBreaker =>
                              streak[m] = 0 /\ \A b \in Breakers : b[1] = m => counter[b] = 0
                        /\ registry[m] # NoBreaker => streak[m] <= counter[registry[m]]
        BY DEF StreaksAreCounted
    <2>1. CASE registry[m] = NoBreaker
        <3>1. \A b \in Breakers : b[1] = m => counter[b] = 0
            BY <1>4, <2>1, NoBreakerAssumption
        <3> QED
            BY <1>2, <1>3, <2>1, <3>1
    <2>2. CASE registry[m] # NoBreaker
        BY <1>1, <1>2, <1>3, <1>4, <2>2
    <2> QED
        BY <2>1, <2>2
<1> QED
    BY <1>5, <1>6, <1>7, <1>8, <1>9, <1>10 DEF ScoringInv

\* The invariant of score_lead and its breakers holds for any number of scorings.
THEOREM ScoringInvariant == Spec => []ScoringInv
<1>1. ScoringInv /\ [Next]_vars => ScoringInv'
    BY TypeStep, FoundStep, CacheStep, FreshStep, EarnedStep, StreakStep, ConversationStep
    DEF ScoringInv
<1> QED
    BY <1>1, ScoringInit, PTL DEF Spec

\* The variables keep their types; in particular no call requests more than MaxTries
\* completions (stop_after_attempt(3)).
THEOREM TypeCorrect == Spec => []TypeOK
BY ScoringInvariant, PTL DEF ScoringInv

\* A model's breaker opens for failures of that model only (the per-model breakers of
\* _get_llm_breaker).
THEOREM OpeningIsEarned == Spec => []OpenIsEarned
BY ScoringInvariant, PTL DEF ScoringInv

\* Unless a concurrent first use replaced a breaker that had counted failures, the
\* breaker trips before fail_max failures in a row go by (_get_llm_breaker, CircuitBreaker).
THEOREM BreakersTripInTime == Spec => []TripsInTime
<1>1. ScoringInv => TripsInTime
    <2> SUFFICES ASSUME ScoringInv, NEW m \in Models, registry[m] # NoBreaker,
                        state[registry[m]] = "closed",
                        \A b \in Breakers : b[1] = m /\ b # registry[m] => counter[b] = 0
                 PROVE  streak[m] < FailMax
        BY DEF TripsInTime
    <2>1. streak[m] <= counter[registry[m]]
        BY DEF ScoringInv, StreaksAreCounted
    <2>2. registry[m] \in Breakers
        BY DEF ScoringInv, CacheIsKeyed
    <2>3. counter[registry[m]] < FailMax
        BY <2>2 DEF ScoringInv, CountersAreEarned
    <2>4. streak[m] \in Nat /\ counter[registry[m]] \in Nat /\ FailMax \in Nat
        BY <2>2, ScoringAssumption DEF ScoringInv, TypeOK
    <2> QED
        BY <2>1, <2>3, <2>4
<1> QED
    BY <1>1, ScoringInvariant, PTL

\* A conversation quotes the malformed answer of its own model only (_score_with_model).
THEOREM ConversationsAreOwn == Spec => []ConversationIsOwn
BY ScoringInvariant, PTL DEF ScoringInv

-----------------------------------------------------------------------------
(* The length of a scoring                                                   *)

\* A prompt takes two steps to find the breaker, one to enter it, one per retry and one
\* to end; every model of the chain is prompted twice at most.
PerPrompt == MaxTries + 3
MaxSteps  == 2 * Len(Chain) * PerPrompt + 1

\* The prompts that can follow the one a job is at, and the steps it can still take.
PromptsLeft(j) == 2 * (Len(Chain) - position[j]) + (IF reprompted[j] THEN 0 ELSE 1)
StepsLeft(j) ==
    IF at[j] \in Ended THEN 0
    ELSE IF at[j] = "new" THEN MaxSteps
    ELSE PromptsLeft(j) * PerPrompt + (PerPrompt - Phase(j))

\* A smaller number of blocks leaves room for one more.
LEMMA OneBlockMore ==
    ASSUME NEW m \in Nat, NEW n \in Nat, NEW k \in Nat, m < n
    PROVE  m * k + k <= n * k
<1>1. PICK d \in Nat : n = m + 1 + d
    <2>1. n - m - 1 \in Nat /\ n = m + 1 + (n - m - 1)
        OBVIOUS
    <2> QED
        BY <2>1
<1>2. n * k = m * k + k + d * k /\ d * k \in Nat /\ m * k \in Nat
    BY <1>1
<1> QED
    BY <1>2

\* The parts of the measure and their ranges.
LEMMA MeasureTypes ==
    ASSUME TypeOK, NEW j \in Jobs
    PROVE  /\ PromptsLeft(j) \in Nat /\ PromptsLeft(j) < 2 * Len(Chain)
           /\ Phase(j) \in Nat /\ Phase(j) < PerPrompt /\ PerPrompt \in Nat
           /\ Len(Chain) \in Nat /\ position[j] \in 1..Len(Chain) /\ reprompted[j] \in BOOLEAN
<1>1. /\ position[j] \in 1..Len(Chain) /\ Len(Chain) \in Nat /\ reprompted[j] \in BOOLEAN
      /\ tries[j] \in 0..MaxTries /\ MaxTries \in Nat
    BY ChainLength, ScoringAssumption DEF TypeOK
<1>2. PromptsLeft(j) \in Nat /\ PromptsLeft(j) < 2 * Len(Chain)
    BY <1>1 DEF PromptsLeft
<1>3. Phase(j) \in 0..(2 + tries[j])
    BY <1>1 DEF Phase
<1> QED
    BY <1>1, <1>2, <1>3 DEF PerPrompt

\* A job that has not ended has a step left, and none has more than MaxSteps.
LEMMA MeasureBound ==
    ASSUME TypeOK, NEW j \in Jobs
    PROVE  /\ StepsLeft(j) \in 0..MaxSteps /\ MaxSteps \in Nat
           /\ at[j] \notin Ended => StepsLeft(j) > 0
           /\ at[j] # "new" => StepsLeft(j) < MaxSteps
<1> DEFINE m == PromptsLeft(j)
           n == 2 * Len(Chain)
<1>1. m \in Nat /\ n \in Nat /\ m < n /\ Phase(j) \in Nat /\ Phase(j) < PerPrompt
      /\ PerPrompt \in Nat
    BY MeasureTypes
<1>2. MaxSteps = n * PerPrompt + 1
    BY DEF MaxSteps
<1> HIDE DEF m, n
<1>3. m * PerPrompt + PerPrompt <= n * PerPrompt
    BY <1>1, OneBlockMore
<1>4. m * PerPrompt \in Nat /\ n * PerPrompt \in Nat
    BY <1>1
<1>5. m * PerPrompt + (PerPrompt - Phase(j)) \in 1..(n * PerPrompt)
    BY <1>1, <1>3, <1>4
<1> QED
    BY <1>2, <1>4, <1>5 DEF StepsLeft, m, Ended

\* So it is after a step.
LEMMA MeasureAfter ==
    (TypeOK => \A j \in Jobs :
        /\ at[j] # "new" => StepsLeft(j) < MaxSteps
        /\ PromptsLeft(j) \in Nat /\ Phase(j) \in Nat /\ Phase(j) < PerPrompt)'
<1>1. TypeOK => \A j \in Jobs :
         /\ at[j] # "new" => StepsLeft(j) < MaxSteps
         /\ PromptsLeft(j) \in Nat /\ Phase(j) \in Nat /\ Phase(j) < PerPrompt
    BY MeasureTypes, MeasureBound
<1> QED
    BY <1>1, PTL

\* A step takes a job that has not ended to its start, to another prompt, further in its
\* call, or to its end.
LEMMA StepMoves ==
    ASSUME TypeOK, NEW j \in Jobs, Step(j)
    PROVE  at[j] \notin Ended /\ at'[j] # "new"
<1>1. at[j] \notin Ended
    BY DEF Step, Start, Lookup, Store, Enter, Reject, TryAgain, CallRaises, Usable, Malformed,
           Unusable, NotAnObject, CallReturns, Ended
<1>2. at'[j] # "new"
    <2>1. CASE Lookup(j)
        BY <2>1 DEF TypeOK, Lookup, Goto
    <2>2. CASE Store(j)
        BY <2>2 DEF TypeOK, Store, Goto
    <2> QED
        BY <2>1, <2>2, JobMoves
<1> QED
    BY <1>1, <1>2

\* Every step of a job uses up at least one of the steps it has left.
LEMMA StepShortens ==
    ASSUME TypeOK, TypeOK', NEW j \in Jobs, Step(j)
    PROVE  StepsLeft(j)' < StepsLeft(j)
<1> DEFINE m == PromptsLeft(j)
           p == Phase(j)
           n == PromptsLeft(j)'
           q == Phase(j)'
<1>1. at[j] \notin Ended /\ at'[j] # "new"
    BY StepMoves
<1>2. (/\ at[j] # "new" => StepsLeft(j) < MaxSteps
       /\ PromptsLeft(j) \in Nat /\ Phase(j) \in Nat /\ Phase(j) < PerPrompt)'
    BY MeasureAfter
<1>3. CASE at'[j] \in Ended
    <2>1. StepsLeft(j)' = 0
        BY <1>3 DEF StepsLeft
    <2> QED
        BY <1>1, <2>1, MeasureBound
<1>4. CASE at[j] = "new"
    <2>1. StepsLeft(j)' < MaxSteps'
        BY <1>1, <1>2
    <2>2. StepsLeft(j) = MaxSteps /\ MaxSteps' = MaxSteps
        BY <1>4 DEF StepsLeft, Ended, MaxSteps, PerPrompt
    <2> QED
        BY <2>1, <2>2
<1>5. CASE at[j] # "new" /\ at'[j] \notin Ended
    <2>1. /\ m \in Nat /\ p \in Nat /\ p < PerPrompt /\ PerPrompt \in Nat
          /\ n \in Nat /\ q \in Nat /\ q < PerPrompt
        <3>1. n \in Nat /\ q \in Nat /\ (Phase(j) < PerPrompt)'
            BY <1>2
        <3>2. PerPrompt' = PerPrompt
            BY DEF PerPrompt
        <3> QED
            BY <3>1, <3>2, MeasureTypes
    <2>2. /\ StepsLeft(j) = m * PerPrompt + (PerPrompt - p)
          /\ StepsLeft(j)' = n * PerPrompt + (PerPrompt - q)
        BY <1>1, <1>5 DEF StepsLeft, PerPrompt
    <2>3. n < m \/ (n = m /\ q > p)
        <3>1. /\ position[j] \in 1..Len(Chain) /\ position'[j] \in 1..Len(Chain)
              /\ reprompted[j] \in BOOLEAN /\ reprompted'[j] \in BOOLEAN
              /\ Len(Chain) \in Nat
            BY ChainLength DEF TypeOK
        <3>2. \/ position'[j] > position[j]
              \/ position'[j] = position[j] /\ ~reprompted[j] /\ reprompted'[j]
              \/ position'[j] = position[j] /\ reprompted'[j] = reprompted[j] /\ q > p
            BY <1>5, StepAdvances
        <3> QED
            BY <3>1, <3>2 DEF PromptsLeft
    <2> HIDE DEF m, n, p, q
    <2>4. CASE n < m
        <3>1. n * PerPrompt + PerPrompt <= m * PerPrompt
            BY <2>1, <2>4, OneBlockMore
        <3>2. n * PerPrompt \in Nat /\ m * PerPrompt \in Nat
            BY <2>1
        <3> QED
            BY <2>1, <2>2, <3>1, <3>2
    <2>5. CASE n = m /\ q > p
        <3>1. m * PerPrompt \in Nat
            BY <2>1
        <3> QED
            BY <2>1, <2>2, <2>5, <3>1
    <2> QED
        BY <2>3, <2>4, <2>5
<1> QED
    BY <1>3, <1>4, <1>5

\* A scoring is over after MaxSteps steps of its own at the latest, however many scorings
\* share its breakers and whatever the models answer: what is left of ScoringEnds when
\* scheduling is left out (score_lead, stop_after_attempt).
THEOREM ScoringIsBounded ==
    Spec => /\ [](\A j \in Jobs : StepsLeft(j) \in 0..MaxSteps)
            /\ [][\A j \in Jobs : /\ Step(j) => StepsLeft(j)' < StepsLeft(j)
                                  /\ ~Step(j) => StepsLeft(j)' = StepsLeft(j)]_vars
<1>1. ScoringInv => \A j \in Jobs : StepsLeft(j) \in 0..MaxSteps
    BY MeasureBound DEF ScoringInv
<1>2. ScoringInv /\ ScoringInv' /\ [Next]_vars =>
          [\A j \in Jobs : /\ Step(j) => StepsLeft(j)' < StepsLeft(j)
                           /\ ~Step(j) => StepsLeft(j)' = StepsLeft(j)]_vars
    <2> SUFFICES ASSUME ScoringInv, ScoringInv', Next, NEW j \in Jobs
                 PROVE  /\ Step(j) => StepsLeft(j)' < StepsLeft(j)
                        /\ ~Step(j) => StepsLeft(j)' = StepsLeft(j)
        OBVIOUS
    <2>1. TypeOK /\ TypeOK'
        BY DEF ScoringInv
    <2>2. Step(j) => StepsLeft(j)' < StepsLeft(j)
        BY <2>1, StepShortens
    <2>3. ASSUME ~Step(j) PROVE StepsLeft(j)' = StepsLeft(j)
        <3>1. UNCHANGED <<at[j], position[j], reprompted[j], tries[j]>>
            <4>1. CASE \E k \in Jobs : Step(k)
                BY <2>1, <2>3, <4>1, OthersUntouched
            <4>2. CASE \E b \in Breakers : ResetElapses(b)
                BY <4>2 DEF ResetElapses, scoring
            <4> QED
                BY <4>1, <4>2 DEF Next
        <3> QED
            BY <3>1 DEF StepsLeft, PromptsLeft, Phase, MaxSteps, PerPrompt
    <2> QED
        BY <2>2, <2>3
<1> QED
    BY <1>1, <1>2, ScoringInvariant, PTL DEF Spec

-----------------------------------------------------------------------------
(* The scorings implement ScoreLead                                          *)

\* A scoring that no model was asked for looks the same to its caller.
LEMMA InitImplements == Init => Score!Init
<1> SUFFICES ASSUME Init PROVE Score!Init
    OBVIOUS
<1>1. Phases = [j \in Jobs |-> "new"] /\ Quoted = [j \in Jobs |-> FALSE]
    BY DEF Init, Phases, Quoted, Active
<1>2. /\ position = [j \in Jobs |-> 1]
      /\ result = [j \in Jobs |-> [source |-> "none", model |-> "none"]]
    BY DEF Init, NoResult, None
<1> QED
    BY <1>1, <1>2 DEF Score!Init, Score!NoScore, Score!None

\* What a step of a job shows its caller is about that job alone.
LEMMA OneCaller ==
    ASSUME TypeOK, TypeOK', NEW j \in Jobs, Step(j)
    PROVE  /\ Phases' = [Phases EXCEPT ![j] = Phases'[j]]
           /\ Quoted' = [Quoted EXCEPT ![j] = Quoted'[j]]
           /\ position' = [position EXCEPT ![j] = position'[j]]
           /\ result' = [result EXCEPT ![j] = result'[j]]
<1>1. \A k \in Jobs \ {j} : /\ at'[k] = at[k] /\ reprompted'[k] = reprompted[k]
                            /\ position'[k] = position[k] /\ result'[k] = result[k]
    BY OthersUntouched
<1>2. \A k \in Jobs \ {j} : Phases'[k] = Phases[k] /\ Quoted'[k] = Quoted[k]
    BY <1>1 DEF Phases, Quoted
<1>3. /\ DOMAIN Phases = Jobs /\ DOMAIN Quoted = Jobs
      /\ Phases = [k \in Jobs |-> Phases[k]] /\ Phases' = [k \in Jobs |-> Phases'[k]]
      /\ Quoted = [k \in Jobs |-> Quoted[k]] /\ Quoted' = [k \in Jobs |-> Quoted'[k]]
    BY DEF Phases, Quoted
<1> HIDE DEF Phases, Quoted
<1>4. /\ Phases' = [Phases EXCEPT ![j] = Phases'[j]]
      /\ Quoted' = [Quoted EXCEPT ![j] = Quoted'[j]]
    BY <1>2, <1>3
<1>5. /\ position' = [position EXCEPT ![j] = position'[j]]
      /\ result' = [result EXCEPT ![j] = result'[j]]
    BY <1>1 DEF TypeOK
<1> QED
    BY <1>4, <1>5

\* A step that ends the scoring is an end to its caller.
LEMMA EndImplements ==
    ASSUME TypeOK, TypeOK', NEW j \in Jobs, Step(j), at'[j] \in Ended,
           position'[j] = position[j]
    PROVE  Score!End(j, at'[j], result'[j])
<1>1. Phases'[j] = at'[j] /\ Quoted'[j] = FALSE
    BY DEF Phases, Quoted, Active, Ended
<1>2. position' = position
    <2>1. position \in [Jobs -> DOMAIN Chain]
        BY DEF TypeOK
    <2>2. position' = [position EXCEPT ![j] = position[j]]
        BY OneCaller
    <2> QED
        BY <2>1, <2>2
<1> QED
    BY <1>1, <1>2, OneCaller DEF Score!End

\* Failing over is the next model's turn or the rules'.
LEMMA FailOverImplements ==
    ASSUME TypeOK, TypeOK', NEW j \in Jobs, Step(j), at[j] \in {"call", "network"},
           FailOver(j)
    PROVE  Score!NextModel(j) \/ Score!FallBack(j)
<1>1. Phases[j] \in {"ready", "waiting"}
    BY DEF Phases, Active
<1>2. CASE position[j] < Len(Chain) /\ at'[j] = "lookup"
    <2>1. /\ Phases'[j] = "ready" /\ position'[j] = position[j] + 1
          /\ Quoted'[j] = FALSE /\ result' = result
        BY <1>2 DEF TypeOK, FailOver, Goto, Finish, Phases, Quoted, Active
    <2> QED
        BY <1>1, <1>2, <2>1, OneCaller DEF Score!NextModel
<1>3. CASE position[j] = Len(Chain) /\ at'[j] = "done"
    <2>1. /\ position'[j] = position[j]
          /\ result'[j] = [source |-> "rules_fallback", model |-> "none"]
        BY <1>3 DEF TypeOK, FailOver, Goto, Finish, Fallback, None
    <2>2. Score!End(j, "done", [source |-> "rules_fallback", model |-> "none"])
        BY <1>3, <2>1, EndImplements DEF Ended
    <2> QED
        BY <1>1, <1>3, <2>2 DEF Score!FallBack, Score!ByRules, Score!None
<1> QED
    BY <1>2, <1>3 DEF TypeOK, FailOver, Goto, Finish

\* A step of a job is a step its caller knows, or hidden from it.
LEMMA JobImplements ==
    ASSUME ScoringInv, TypeOK', NEW j \in Jobs, Step(j)
    PROVE  Score!Next \/ UNCHANGED Score!vars
<1>1. TypeOK
    BY DEF ScoringInv
<1>2. CASE Start(j)
    <2>1. Phases[j] = "new" /\ Quoted[j] = FALSE /\ result[j] = NoResult
        BY <1>2 DEF Start, ScoringInv, ConversationsStartFresh, Phases, Quoted, Active
    <2>2. position' = position /\ reprompted' = reprompted
        BY <1>2 DEF Start
    <2>3. CASE FALSE \in LlmEnabled /\ Finish(j, Fallback)
        <3>1. /\ at'[j] = "done"
              /\ result'[j] = [source |-> "rules_fallback", model |-> "none"]
            BY <1>1, <2>3 DEF TypeOK, Finish, Goto, Fallback, None
        <3> QED
            BY <1>1, <2>1, <2>2, <2>3, <3>1, EndImplements
               DEF Ended, Score!Begin, Score!ByRules, Score!None, Score!Next
    <2>4. CASE TRUE \in LlmEnabled /\ Goto(j, "raised") /\ UNCHANGED result
        <3>1. /\ at'[j] = "raised"
              /\ result'[j] = [source |-> "none", model |-> "none"]
            BY <1>1, <2>1, <2>4 DEF TypeOK, Goto, NoResult, None
        <3> QED
            BY <1>1, <2>1, <2>2, <2>4, <3>1, EndImplements
               DEF Ended, Score!Begin, Score!NoScore, Score!None, Score!Next
    <2>5. CASE TRUE \in LlmEnabled /\ Goto(j, "lookup") /\ UNCHANGED result
        <3>1. at'[j] = "lookup" /\ Phases'[j] = "ready"
            BY <1>1, <2>5 DEF TypeOK, Goto, Phases, Active
        <3>2. ~reprompted[j]
            BY <1>2 DEF Start, ScoringInv, ConversationsStartFresh
        <3>3. Quoted'[j] = Quoted[j]
            BY <2>1, <2>2, <3>2 DEF Quoted
        <3>4. Quoted' = Quoted
            <4>1. Quoted' = [Quoted EXCEPT ![j] = Quoted[j]]
                BY <1>1, <3>3, OneCaller
            <4>2. Quoted = [k \in Jobs |-> Quoted[k]]
                BY DEF Quoted
            <4> QED
                BY <4>1, <4>2
        <3> QED
            BY <1>1, <2>1, <2>2, <2>5, <3>1, <3>4, OneCaller DEF Score!Begin, Score!Next
    <2> QED
        BY <1>2, <2>3, <2>4, <2>5 DEF Start
<1>3. CASE Lookup(j) \/ Store(j) \/ TryAgain(j)
    <2>1. /\ Phases'[j] = Phases[j] /\ Quoted'[j] = Quoted[j]
          /\ position' = position /\ result' = result
        <3>1. /\ position' = position /\ result' = result /\ reprompted' = reprompted
              /\ \/ at[j] \in {"lookup", "store"} /\ at'[j] \in {"store", "call"}
                 \/ at[j] = "network" /\ at'[j] = "network"
            BY <1>1, <1>3 DEF TypeOK, Lookup, Store, TryAgain, Goto
        <3> QED
            BY <3>1 DEF Phases, Quoted, Active
    <2>2. Phases' = Phases /\ Quoted' = Quoted
        <3>1. /\ Phases' = [Phases EXCEPT ![j] = Phases[j]]
              /\ Quoted' = [Quoted EXCEPT ![j] = Quoted[j]]
            BY <1>1, <2>1, OneCaller
        <3>2. /\ Phases = [k \in Jobs |-> Phases[k]]
              /\ Quoted = [k \in Jobs |-> Quoted[k]]
            BY DEF Phases, Quoted
        <3> QED
            BY <3>1, <3>2
    <2> QED
        BY <2>1, <2>2 DEF Score!vars
<1>4. CASE Enter(j)
    <2>1. /\ Phases[j] = "ready" /\ Phases'[j] = "waiting" /\ Quoted'[j] = Quoted[j]
          /\ position' = position /\ result' = result
        <3>1. /\ at[j] = "call" /\ at'[j] = "network" /\ reprompted' = reprompted
              /\ position' = position /\ result' = result
            BY <1>1, <1>4 DEF TypeOK, Enter, Goto
        <3> QED
            BY <3>1 DEF Phases, Quoted, Active
    <2>2. Quoted' = Quoted
        <3>1. Quoted' = [Quoted EXCEPT ![j] = Quoted[j]]
            BY <1>1, <2>1, OneCaller
        <3>2. Quoted = [k \in Jobs |-> Quoted[k]]
            BY DEF Quoted
        <3> QED
            BY <3>1, <3>2
    <2> QED
        BY <1>1, <2>1, <2>2, OneCaller DEF Score!Prompt, Score!Next
<1>5. CASE Reject(j) \/ CallRaises(j) \/ Unusable(j)
    <2>1. FailOver(j) /\ at[j] \in {"call", "network"}
        BY <1>5 DEF Reject, CallRaises, Unusable, CallReturns
    <2> QED
        BY <1>1, <2>1, FailOverImplements DEF Score!Next
<1>6. CASE Usable(j)
    <2>1. /\ Phases[j] = "waiting" /\ Quoted[j] = reprompted[j]
          /\ at'[j] = "done" /\ position' = position
          /\ result'[j] = [source |-> IF reprompted[j] THEN "llm_selfcorrected" ELSE "llm",
                           model |-> Chain[position[j]]]
        BY <1>1, <1>6
           DEF TypeOK, Usable, CallReturns, Finish, Goto, Current, Phases, Quoted, Active
    <2> QED
        BY <1>1, <2>1, EndImplements DEF Ended, Score!Answer, Score!Next
<1>7. CASE Malformed(j)
    <2>1. /\ Phases[j] = "waiting" /\ Phases'[j] = "ready"
          /\ ~Quoted[j] /\ Quoted'[j] = TRUE /\ position' = position /\ result' = result
        BY <1>1, <1>7 DEF TypeOK, Malformed, CallReturns, Goto, Phases, Quoted, Active
    <2> QED
        BY <1>1, <2>1, OneCaller DEF Score!Quote, Score!Next
<1>8. CASE NotAnObject(j)
    <2>1. /\ Phases[j] = "waiting" /\ at'[j] = "raised" /\ position' = position
          /\ result'[j] = [source |-> "none", model |-> "none"]
        BY <1>1, <1>8
           DEF TypeOK, NotAnObject, CallReturns, Goto, Phases, ScoringInv,
               ConversationsStartFresh, NoResult, None
    <2> QED
        BY <1>1, <2>1, EndImplements
           DEF Ended, Score!Raise, Score!NoScore, Score!None, Score!Next
<1> QED
    BY <1>2, <1>3, <1>4, <1>5, <1>6, <1>7, <1>8 DEF Step

\* Whatever the scorings do to the breakers they share, each goes through the chain in
\* order, prompts a model twice at most, and falls back on the rules only when the last
\* model has failed or was passed over (score_lead, _score_with_model).
THEOREM ScoreRefinement == Spec => ScoreSpec
<1>1. ScoringInv /\ ScoringInv' /\ [Next]_vars => [Score!Next]_(Score!vars)
    <2> SUFFICES ASSUME ScoringInv, ScoringInv', [Next]_vars
                 PROVE  Score!Next \/ UNCHANGED Score!vars
        OBVIOUS
    <2>1. CASE \E j \in Jobs : Step(j)
        BY <2>1, JobImplements DEF ScoringInv
    <2>2. CASE UNCHANGED scoring
        BY <2>2 DEF scoring, Score!vars, Phases, Quoted
    <2> QED
        BY <2>1, <2>2 DEF Next, ResetElapses, vars
<1> QED
    BY <1>1, InitImplements, ScoringInvariant, PTL DEF Spec, ScoreSpec, Score!Spec
=============================================================================
