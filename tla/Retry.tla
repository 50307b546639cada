------------------------------- MODULE Retry --------------------------------
(***************************************************************************)
(* The two retry loops, http::request and kubeapi::with_transport_retry,   *)
(* as functions of the number n of the attempt, which starts at 0: whether *)
(* an outcome is followed by another attempt, and how long the loop sleeps *)
(* before it.  Time is in ticks; the factor is a whole number of them.     *)
(***************************************************************************)
EXTENDS Integers

CONSTANTS
    Total,       \* REQ_RETRY_TOTAL, an unsigned integer
    Width,       \* of that many bits (32)
    Factor,      \* REQ_RETRY_BACKOFF_FACTOR
    Cap,         \* the longest delay, 120 seconds
    Enable5xx    \* ENABLE_5XX

ASSUME RetryAssumption ==
    /\ Width \in Nat
    /\ Total \in Nat /\ Total < 2^Width
    /\ Factor \in Nat
    /\ Cap \in Nat
    /\ Enable5xx \in BOOLEAN

(* How an attempt ends: a status below 500 or in no list, one of 500, 502, *)
(* 503 and 504, no response; of the API also an error status.              *)
HttpOutcomes == {"answer", "unavailable", "transport"}
ApiOutcomes == {"answer", "error", "error500", "transport"}

(* retry_total + 1 of type u32, without overflow checks in a release build. *)
Attempts == (Total + 1) % (2^Width)

(* Mutant: the exponential delay is not cut. *)
DelayUncut(n) == IF n > 1 THEN Factor * 2^(n - 1) ELSE 0

(* The sleep before attempt n: none before the first retry, then exponential  *)
(* while that is within the cap.                                              *)
Delay(n) == IF n <= 1 THEN 0
            ELSE IF Factor * 2^(n - 1) \in 0..Cap THEN Factor * 2^(n - 1) ELSE Cap

(* http::request goes on after attempt n. *)
RequestGoesOn(n, outcome) ==
    /\ outcome = "transport" \/ (outcome = "unavailable" /\ ~Enable5xx)
    /\ n + 1 < Attempts

(* Mutant: one attempt more. *)
TransportGoesOnce(n, outcome) == outcome = "transport" /\ n <= Total

(* with_transport_retry goes on after attempt n; API errors pass through. *)
TransportGoesOn(n, outcome) == outcome = "transport" /\ n < Total
=============================================================================
