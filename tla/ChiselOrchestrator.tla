------------------------- MODULE ChiselOrchestrator -------------------------
(***************************************************************************)
(* Chisel's calls of language models (chisel/core/src/ai): an orchestrator *)
(* asks its providers in turn, again after a pause when the error of the   *)
(* last of them is one that may pass (retry.rs), and keeps the answer for  *)
(* a while (cache.rs), whether or not its caller can make anything of it   *)
(* (orchestrator.rs).                                                      *)
(***************************************************************************)
EXTENDS Integers, Sequences, FiniteSets, SequencesExt

CONSTANTS
    ProviderCounts, \* how many providers there may be
    Callers,       \* calls that run at the same time
    Prompts,
    MaxRetries,    \* max_retries
    Ttl,           \* the cache's time to live, in ticks
    CacheCap,      \* the cache's capacity
    MaxClock,      \* bound: ticks
    MaxAnswers     \* bound: answers of providers

ASSUME OrchestratorAssumption ==
    /\ ProviderCounts \subseteq Nat /\ MaxRetries \in Nat /\ Ttl \in Nat /\ CacheCap \in Nat \ {0} /\ MaxClock \in Nat /\ MaxAnswers \in Nat

VARIABLES
    aProviders,    \* how many providers there are, asked in order
    aNow,          \* the clock
    aCache,        \* the cache, the entry used last at the end: [prompt, answer, at]
    aCall,         \* what each call does
    aSaid          \* history: [prompt, good, at] of the answers of providers, in order

aVars == <<aProviders, aNow, aCache, aCall, aSaid>>

Errors == {"RateLimit", "Unavailable", "Network"}   \* Network stands for those that are not tried again
NoAnswer == 0
CallResting ==
    [at |-> "idle", prompt |-> CHOOSE p \in Prompts : TRUE, attempt |-> 0, provider |-> 1, err |-> "none",
     asked |-> 0, answer |-> NoAnswer]

ATypeOK ==
    /\ aProviders \in ProviderCounts /\ aNow \in 0 .. MaxClock /\ Len(aSaid) <= MaxAnswers
    /\ Len(aCache) <= CacheCap /\ \A i \in DOMAIN aCache : aCache[i].prompt \in Prompts /\ aCache[i].answer \in DOMAIN aSaid
    /\ \A c \in Callers :
         /\ aCall[c].at \in {"idle", "ask", "sleep", "failed", "answered", "parsed", "unparsable"}
         /\ aCall[c].attempt \in 0 .. MaxRetries /\ aCall[c].answer \in 0 .. MaxAnswers

AInit == aProviders \in ProviderCounts /\ aNow = 0 /\ aCache = <<>> /\ aCall = [c \in Callers |-> CallResting] /\ aSaid = <<>>

PassTime == aNow < MaxClock /\ aNow' = aNow + 1 /\ UNCHANGED <<aProviders, aCache, aCall, aSaid>>
-----------------------------------------------------------------------------
(* PromptCache *)

Cached(p) == \E i \in DOMAIN aCache : aCache[i].prompt = p
PlaceOf(p) == CHOOSE i \in DOMAIN aCache : aCache[i].prompt = p
EntryOf(p) == aCache[PlaceOf(p)]
EntriesBut(p) == IF Cached(p) THEN RemoveAt(aCache, PlaceOf(p)) ELSE aCache
IsFresh(e) == aNow - e.at < Ttl

\* get: a hit makes the entry the one used last, an entry that is too old is
\* removed.
CacheAfterGet(p) ==
    IF Cached(p) /\ IsFresh(EntryOf(p)) THEN Append(EntriesBut(p), EntryOf(p)) ELSE EntriesBut(p)

\* put: the entry used longest ago makes room.
CacheAfterPut(p, answer) ==
    LET kept == Append(EntriesBut(p), [prompt |-> p, answer |-> answer, at |-> aNow])
    IN IF Len(kept) > CacheCap THEN Tail(kept) ELSE kept
-----------------------------------------------------------------------------
(* call_llm and RetryPolicy::execute *)

Ask(c) ==
    /\ aCall[c].at = "idle" /\ Len(aSaid) < MaxAnswers
    /\ \E p \in Prompts :
         /\ aCache' = CacheAfterGet(p)
         /\ aCall' = [aCall EXCEPT ![c] =
              IF Cached(p) /\ IsFresh(EntryOf(p))
                THEN [CallResting EXCEPT !.at = "answered", !.prompt = p, !.answer = EntryOf(p).answer]
                ELSE [CallResting EXCEPT !.at = "ask", !.prompt = p]]
    /\ UNCHANGED <<aProviders, aNow, aSaid>>

\* A provider answers: the others are not asked, the answer is kept.
ProviderAnswers(c) ==
    /\ aCall[c].at = "ask" /\ aProviders # 0 /\ Len(aSaid) < MaxAnswers
    /\ \E good \in BOOLEAN : aSaid' = Append(aSaid, [prompt |-> aCall[c].prompt, good |-> good, at |-> aNow])
    /\ aCache' = CacheAfterPut(aCall[c].prompt, Len(aSaid'))
    /\ aCall' = [aCall EXCEPT ![c].at = "answered", ![c].answer = Len(aSaid'), ![c].asked = @ + 1]
    /\ UNCHANGED <<aProviders, aNow>>

\* A failed round: what follows is decided by the error of its last provider.
\* A rate limit is slept over even when no attempt is left.
AfterRoundOnce(call, err) == [call EXCEPT !.at = "failed", !.err = err]
AfterRound(call, err) ==
    CASE err = "RateLimit" -> [call EXCEPT !.at = "sleep", !.err = err]
      [] err = "Unavailable" /\ call.attempt < MaxRetries -> [call EXCEPT !.at = "sleep", !.err = err]
      [] OTHER -> [call EXCEPT !.at = "failed", !.err = err]

ProviderFails(c) ==
    /\ aCall[c].at = "ask" /\ aProviders # 0
    /\ \E err \in Errors :
         LET asked == [aCall[c] EXCEPT !.asked = @ + 1]
         IN aCall' = [aCall EXCEPT ![c] =
              IF asked.provider < aProviders THEN [asked EXCEPT !.provider = @ + 1]
              ELSE AfterRound([asked EXCEPT !.provider = 1], err)]
    /\ UNCHANGED <<aProviders, aNow, aCache, aSaid>>

NoProviders(c) ==
    /\ aCall[c].at = "ask" /\ aProviders = 0
    /\ aCall' = [aCall EXCEPT ![c] = AfterRound(@, "Unavailable")]
    /\ UNCHANGED <<aProviders, aNow, aCache, aSaid>>

Wake(c) ==
    /\ aCall[c].at = "sleep"
    /\ aCall' = IF aCall[c].attempt < MaxRetries THEN [aCall EXCEPT ![c].at = "ask", ![c].attempt = @ + 1]
                                                 ELSE [aCall EXCEPT ![c].at = "failed"]
    /\ UNCHANGED <<aProviders, aNow, aCache, aSaid>>

\* The caller parses the answer it got; nothing is taken out of the cache.
Parse(c) ==
    /\ aCall[c].at = "answered"
    /\ aCall' = [aCall EXCEPT ![c].at = IF aSaid[aCall[c].answer].good THEN "parsed" ELSE "unparsable"]
    /\ UNCHANGED <<aProviders, aNow, aCache, aSaid>>

EndCall(c) ==
    /\ aCall[c].at \in {"failed", "parsed", "unparsable"} /\ aCall' = [aCall EXCEPT ![c] = CallResting]
    /\ UNCHANGED <<aProviders, aNow, aCache, aSaid>>

ANext ==
    PassTime \/ \E c \in Callers :
       Ask(c) \/ ProviderAnswers(c) \/ ProviderFails(c) \/ NoProviders(c) \/ Wake(c) \/ Parse(c) \/ EndCall(c)

ASpec == AInit /\ [][ANext]_aVars
-----------------------------------------------------------------------------
\* What the cache holds was said of that prompt, at the time the entry bears,
\* and is the last thing said of it.
CacheIsLastSaid ==
    \A i \in DOMAIN aCache :
       LET e == aCache[i]
       IN /\ aSaid[e.answer].prompt = e.prompt /\ aSaid[e.answer].at = e.at
          /\ \A j \in e.answer + 1 .. Len(aSaid) : aSaid[j].prompt # e.prompt
          /\ \A j \in DOMAIN aCache : aCache[j].prompt = e.prompt => i = j

\* A call gives up only after whole rounds of providers, and unless the last
\* error is one that does not pass, after all the rounds it has; an answer ends
\* it at once (retry.rs, execute).
GivesUpLast ==
    \A c \in Callers : aCall[c].at = "failed" /\ aProviders # 0 =>
       /\ aCall[c].asked = (aCall[c].attempt + 1) * aProviders
       /\ aCall[c].err # "Network" => aCall[c].attempt = MaxRetries

AnswersSound == CacheIsLastSaid /\ GivesUpLast
=============================================================================
