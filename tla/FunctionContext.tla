---------------------------- MODULE FunctionContext ----------------------------
(***************************************************************************)
(* telemetry/function_context.rs: the context of the function, which is    *)
(* obtained at an invoke event, with tags fetched from AWS if configured,  *)
(* and kept for some time.  The handlers of the extension call it one at a *)
(* time; the lock of the cache is held while tags are fetched.  Of a       *)
(* context the model keeps whether it is a degraded one, whether it has    *)
(* tags, and when its tags were true, or the attempt to fetch them failed. *)
(***************************************************************************)
EXTENDS Integers

CONSTANTS
  TagCacheValidity,  \* configured, may be negative
  MaxTime,           \* bound of the clock
  MaxFetchTime       \* no fetch of tags takes longer

ASSUME ContextAssumption ==
  TagCacheValidity \in Int /\ MaxTime \in Nat /\ MaxFetchTime \in Nat

VARIABLES
  now,       \* the clock
  cache,     \* the time it was filled, and the context if it was
  fetching,  \* when the fetch of tags that goes on began
  answer     \* the last context given to a handler, and when it was asked for

contextVars == <<now, cache, fetching, answer>>

NoTime == -1
Times == 0..MaxTime

Context == [degraded : BOOLEAN, tags : BOOLEAN, read : Times]
NoContext == [degraded |-> TRUE, tags |-> FALSE, read |-> 0]
MakeFunctionContext(tags, read) == [degraded |-> FALSE, tags |-> tags, read |-> read]

ContextTypeOK ==
  /\ now \in Times
  /\ cache \in [timestamp : Times, context : Context]
  /\ fetching \in Times \cup {NoTime}
  /\ answer \in [context : Context, asked : Times]

ContextInit ==
  /\ now = 0
  /\ cache = [timestamp |-> 0, context |-> NoContext]
  /\ fetching = NoTime
  /\ answer = [context |-> NoContext, asked |-> 0]

ContextTick ==
  /\ now < MaxTime
  /\ fetching # NoTime => now < fetching + MaxFetchTime
  /\ now' = now + 1
  /\ UNCHANGED <<cache, fetching, answer>>

IsCached == ~cache.context.degraded

IsValid == IsCached /\ now - cache.timestamp <= TagCacheValidity

\* Mutant of Fill: the time at which the entry expires is kept as if it were its age.
FillWithExpiry(context, asked) ==
  /\ cache' = [timestamp |-> now + TagCacheValidity, context |-> context]
  /\ answer' = [context |-> context, asked |-> asked]

Fill(context, asked) ==
  /\ cache' = [timestamp |-> now, context |-> context]
  /\ answer' = [context |-> context, asked |-> asked]

-----------------------------------------------------------------------------
(* on_invoke_event.                                                        *)

AnswerFromCache ==
  /\ fetching = NoTime /\ IsValid
  /\ answer' = [context |-> cache.context, asked |-> now]
  /\ UNCHANGED <<now, cache, fetching>>

\* Mutant of FailToParseArn: the entry is taken out of the cache before it is renewed.
FailToParseArnForgetting ==
  /\ fetching = NoTime /\ ~IsValid
  /\ cache' = [cache EXCEPT !.context = NoContext]
  /\ UNCHANGED <<now, fetching, answer>>

\* obtain_function_context fails: the ARN of the event is not one of a function.
FailToParseArn ==
  /\ fetching = NoTime /\ ~IsValid
  /\ UNCHANGED contextVars

ObtainWithoutTags ==
  /\ fetching = NoTime /\ ~IsValid
  /\ Fill(MakeFunctionContext(FALSE, now), now)
  /\ UNCHANGED <<now, fetching>>

StartFetchingTags ==
  /\ fetching = NoTime /\ ~IsValid
  /\ fetching' = now
  /\ UNCHANGED <<now, cache, answer>>

\* The tags were read at some time of the fetch, or it failed.
FinishFetchingTags ==
  /\ fetching # NoTime
  /\ \/ \E t \in fetching..now : Fill(MakeFunctionContext(TRUE, t), fetching)
     \/ Fill(MakeFunctionContext(FALSE, now), fetching)
  /\ fetching' = NoTime
  /\ UNCHANGED now

\* get_function_context_even_if_degraded: the cache may have expired.
AnswerEvenIfDegraded ==
  /\ fetching = NoTime
  /\ answer' = [context |-> cache.context, asked |-> now]
  /\ UNCHANGED <<now, cache, fetching>>

=============================================================================
