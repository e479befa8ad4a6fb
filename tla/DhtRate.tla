------------------------------- MODULE DhtRate -------------------------------
(***************************************************************************)
(* The rate at which dht.c lets requests through (token_bucket).  The      *)
(* bucket is refilled only when it is empty, for the time since the last   *)
(* refill.  A tick is a second.                                            *)
(***************************************************************************)
EXTENDS Integers

CONSTANTS
  MaxTokens,   \* MAX_TOKEN_BUCKET_TOKENS, 400
  Rate         \* 100: the tokens of a second

ASSUME DhtRateAssumption == MaxTokens \in Nat \ {0} /\ Rate \in Nat \ {0}

VARIABLES
  tokens,      \* token_bucket_tokens
  token_age,   \* the time since token_bucket_time, up to what fills the bucket
  load         \* history: requests let through, less Rate in every second

rateVars == <<tokens, token_age, load>>

AtMost(a, limit) == IF a > limit THEN limit ELSE a

\* Beyond this time a refill fills the bucket (Rate is at least 1).
FillTime == MaxTokens

RateInit == tokens = MaxTokens /\ token_age = 0 /\ load = 0   \* dht_init

\* The tokens of a refill.  Mutant: not limited to a full bucket.
MutantUnlimited(elapsed) == Rate * elapsed
Refill(elapsed) == AtMost(Rate * elapsed, MaxTokens)

Available == IF tokens = 0 THEN Refill(token_age) ELSE tokens

\* token_bucket: the request is let through ...
Admit ==
  /\ Available > 0
  /\ tokens' = Available - 1
  /\ token_age' = IF tokens = 0 THEN 0 ELSE token_age
  /\ load' = load + 1

\* ... or dropped; the attempt to refill counts as one.
Drop ==
  /\ Available = 0
  /\ token_age' = 0
  /\ UNCHANGED <<tokens, load>>

Second ==
  /\ token_age' = AtMost(token_age + 1, FillTime)
  /\ load' = IF load > Rate THEN load - Rate ELSE 0
  /\ UNCHANGED tokens

RateNext == Admit \/ Drop \/ Second
RateSpec == RateInit /\ [][RateNext]_rateVars

-----------------------------------------------------------------------------
(* Properties.                                                             *)

RateTypeOK == tokens \in 0 .. MaxTokens /\ token_age \in 0 .. FillTime /\ load \in Nat

\* In any stretch of T seconds at most 2 * MaxTokens + Rate * T requests are
\* served, however they arrive (token_bucket): a full bucket may be followed by
\* a full refill, as the time of the last refill may be long ago.
RateBounded == load <= 2 * MaxTokens
=============================================================================
