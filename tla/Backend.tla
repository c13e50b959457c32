------------------------------- MODULE Backend -------------------------------
(***************************************************************************)
(* One page through OpenAICompatTranslator (bt.translate): requests paced  *)
(* to the provider's budget, a refusal that will pass waited out and       *)
(* retried, every other failure raised, and an answer believed only when   *)
(* it is whole.  Time is counted in ticks.                                 *)
(***************************************************************************)
EXTENDS Integers

CONSTANTS
  Interval,     \* 60 / rpm; 0 for a server on this machine
  MaxRetries,
  RetryAfters,  \* how long a refusal may ask to be left alone
  Longest,      \* the longest of these waits that is waited out
  Doubling      \* attempt -> the wait when the refusal does not say

ASSUME BackendAssumption ==
  /\ Interval \in Nat /\ MaxRetries \in Nat /\ Longest \in Nat
  /\ RetryAfters \subseteq Nat
  /\ Doubling \in [0..MaxRetries -> Nat]

VARIABLES
  call,     \* "none", "ready" (to send), "posted", "text" or "error"
  attempt,  \* retries made for this page
  slot,     \* ticks until _wait_for_slot lets a request through
  pause,    \* ticks left of the sleep after a refusal
  quiet,    \* history: ticks since the last request was sent
  owed,     \* history: ticks the provider still asks to be left alone
  bound,    \* history: ticks left of the longest that may make the run wait
  fatal     \* history: refused in a way that retrying cannot mend

bvars == <<call, attempt, slot, pause, quiet, owed, bound, fatal>>

Lesser(a, b) == IF a < b THEN a ELSE b
Down(n) == IF n > 0 THEN n - 1 ELSE 0

(* A new process has a new translator, which has made no request yet.       *)
BackendInit ==
  /\ call = "none" /\ attempt = 0 /\ slot = 0 /\ pause = 0
  /\ quiet = Interval /\ owed = 0 /\ bound = 0 /\ fatal = FALSE
Forget ==
  /\ call' = "none" /\ attempt' = 0 /\ slot' = 0 /\ pause' = 0
  /\ quiet' = Interval /\ owed' = 0 /\ bound' = 0 /\ fatal' = FALSE

(* Of what is owed nothing is kept that the run will not wait for anyway.   *)
Tick ==
  /\ slot > 0 \/ pause > 0 \/ quiet < Interval \/ owed > 0
  /\ slot' = Down(slot) /\ pause' = Down(pause)
  /\ bound' = IF owed <= 1 THEN 0 ELSE Down(bound)
  /\ owed' = IF bound' = 0 THEN 0 ELSE Down(owed)
  /\ quiet' = Lesser(quiet + 1, Interval)
  /\ UNCHANGED <<call, attempt, fatal>>

Ask ==
  /\ call = "none"
  /\ call' = "ready"
  /\ UNCHANGED <<attempt, slot, pause, quiet, owed, bound, fatal>>

(* Sleep what the refusal asked, then until the slot is due; then send.     *)
DueIfRetried == attempt = 0 \/ (pause = 0 /\ slot = 0)   \* the slip
Due == pause = 0 /\ slot = 0

Post ==
  /\ call = "ready" /\ Due
  /\ call' = "posted"
  /\ quiet' = 0
  /\ UNCHANGED <<attempt, slot, pause, owed, bound, fatal>>

(* Any response moves the slot.                                             *)
Responded == call = "posted" /\ slot' = Interval

(* 200: _read raises on what is not JSON, not of the expected shape, cut    *)
(* off at max_tokens, or empty.                                             *)
Bodies == {"whole", "not JSON", "odd shape", "cut off", "empty"}
ReadBody(body) ==
  /\ Responded
  /\ call' = IF body = "whole" THEN "text" ELSE "error"
  /\ UNCHANGED <<attempt, pause, quiet, owed, bound, fatal>>

(* 429 or 5xx: wait what Retry-After says, if it is there and is a number   *)
(* (it may be a date), up to Longest; else twice as long as last time; and  *)
(* try again, MaxRetries times.  (Slips: to try for ever; once too often.)  *)
Forms == {"seconds", "date", "absent"}
Backoff(ra, form) == IF form = "seconds" THEN Lesser(ra, Longest)
                                         ELSE Doubling[attempt]
Asked(ra, form) ==
  /\ owed' = IF form = "absent" THEN 0 ELSE ra
  /\ bound' = IF form = "seconds" THEN Longest ELSE 0

ThrottledForEver(ra, form) ==
  /\ Responded /\ Asked(ra, form)
  /\ call' = "ready" /\ pause' = Backoff(ra, form)
  /\ UNCHANGED <<attempt, quiet, fatal>>

ThrottledOnceMore(ra, form) ==
  /\ Responded /\ Asked(ra, form)
  /\ IF attempt > MaxRetries
     THEN call' = "error" /\ UNCHANGED <<attempt, pause>>
     ELSE call' = "ready" /\ attempt' = attempt + 1 /\ pause' = Lesser(ra, Longest)
  /\ UNCHANGED <<quiet, fatal>>

Throttled(ra, form) ==
  /\ Responded /\ Asked(ra, form)
  /\ IF attempt = MaxRetries
     THEN call' = "error" /\ UNCHANGED <<attempt, pause>>
     ELSE call' = "ready" /\ attempt' = attempt + 1 /\ pause' = Backoff(ra, form)
  /\ UNCHANGED <<quiet, fatal>>

(* Any other status: an edge block, a retired model, a bad key.             *)
RefusedRetried ==   \* the slip: retried like a rate limit
  /\ Responded
  /\ IF attempt = MaxRetries
     THEN call' = "error" /\ UNCHANGED attempt
     ELSE call' = "ready" /\ attempt' = attempt + 1
  /\ fatal' = TRUE
  /\ UNCHANGED <<pause, quiet, owed, bound>>

Refused ==
  /\ Responded
  /\ call' = "error" /\ fatal' = TRUE
  /\ UNCHANGED <<attempt, pause, quiet, owed, bound>>

(* No connection, or no answer within the timeout: nothing is recorded.     *)
Unreachable ==
  /\ call = "posted"
  /\ call' = "error"
  /\ UNCHANGED <<attempt, slot, pause, quiet, owed, bound, fatal>>

Return ==
  /\ call \in {"text", "error"}
  /\ call' = "none" /\ attempt' = 0
  /\ UNCHANGED <<slot, pause, quiet, owed, bound, fatal>>

Response ==
  \/ \E body \in Bodies : ReadBody(body)
  \/ \E ra \in RetryAfters, form \in Forms : Throttled(ra, form)
  \/ Refused \/ Unreachable
------------------------------------------------------------------------------
(* No request is sent before the provider's interval has passed since the   *)
(* one before, whatever mix of answers, refusals and retries lies between;  *)
(* and none before the time is over that a refusal asked for in seconds or  *)
(* Longest has passed since.  A longer wait, and one asked for with a date, *)
(* is not waited out (translate.py:586-598, 646-654).                       *)
Paced == [][call = "ready" /\ call' = "posted" =>
               quiet >= Interval /\ (owed = 0 \/ bound = 0)]_bvars

(* A run told that its model, key or request is no good sends nothing more: *)
(* not for this page, not for the next (translate.py:636-639, 233).         *)
FatalMeansSilent == fatal => call \notin {"ready", "posted"}

BackendType ==
  /\ call \in {"none", "ready", "posted", "text", "error"}
  /\ attempt \in 0..MaxRetries
  /\ slot \in 0..Interval /\ quiet \in 0..Interval
  /\ pause \in Nat /\ owed \in Nat /\ bound \in 0..Longest
  /\ fatal \in BOOLEAN
==============================================================================
