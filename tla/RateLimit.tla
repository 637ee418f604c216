----------------------------- MODULE RateLimit -----------------------------
(***************************************************************************)
(* A request counter in Redis: there is one behind every limited route,    *)
(* behind the sending of one-time passwords and behind their verification. *)
(*                                                                         *)
(* RateLimitRepository.Allow counts a request with INCR, asks for the      *)
(* counter's TTL, and gives the counter an expiry when it has none.  These *)
(* are three commands: other requests, the expiry and failures come in     *)
(* between, and only the expiry ever lets a refused client in again.       *)
(***************************************************************************)
EXTENDS Naturals

CONSTANTS
  Callers,   \* requests being counted, how many at once
  Limit,     \* how many requests the counter lets through
  MaxCount   \* bound: a counter that is higher counts as this

ASSUME RateLimitAssumption ==
  /\ Limit \in Nat \ {0}
  /\ MaxCount \in Nat
  /\ Limit < MaxCount

VARIABLES
  count,   \* the counter; 0 when the key does not exist
  life,    \* its expiry: "endless" when none is set, "running", or "ending"
           \* in the last half second, which Redis's TTL rounds to 0
  call,    \* what each caller is doing
  served,  \* history: requests let through that the present counter counted
  broken   \* history: a call failed while the key had no expiry, and none has
           \* been answered since

vars == <<count, life, call, served, broken>>

Idle == [step |-> "idle", count |-> 0, late |-> FALSE]

Init ==
  /\ count = 0
  /\ life = "endless"
  /\ call = [c \in Callers |-> Idle]
  /\ served = 0
  /\ broken = FALSE

-----------------------------------------------------------------------------
(* INCR creates the key without an expiry.                                  *)
Incr(c) ==
  /\ call[c].step = "idle"
  /\ count' = IF count < MaxCount THEN count + 1 ELSE MaxCount
  /\ call' = [call EXCEPT ![c] = [step |-> "counted", count |-> count', late |-> FALSE]]
  /\ UNCHANGED <<life, served, broken>>

(* The answer, by the caller's own count.                                   *)
\* Mutant: one request more than the limit is served.
AnswerOffByOne(c) ==
  /\ call' = [call EXCEPT ![c] = Idle]
  /\ broken' = FALSE
  /\ served' = IF call[c].count <= Limit + 1 /\ ~call[c].late THEN served + 1 ELSE served
Answer(c) ==
  /\ call' = [call EXCEPT ![c] = Idle]
  /\ broken' = FALSE
  /\ served' = IF call[c].count <= Limit /\ ~call[c].late THEN served + 1 ELSE served

(* TTL, the pipeline's second command: not positive when the key has no     *)
(* expiry, is about to expire, or has just expired.                         *)
\* Mutant: only the first request sets the expiry.
NeedsExpiryFirstOnly(c) == call[c].count = 1
NeedsExpiry(c) == call[c].count = 1 \/ life # "running"

ReadTTL(c) ==
  /\ call[c].step = "counted"
  /\ IF NeedsExpiry(c)
     THEN call' = [call EXCEPT ![c].step = "expiring"] /\ UNCHANGED <<served, broken>>
     ELSE Answer(c)
  /\ UNCHANGED <<count, life>>

(* EXPIRE: an error when the key has gone meanwhile.                        *)
\* Mutant: EXPIRE is taken to create the key.
SetExpiryAnyway(c) ==
  /\ call[c].step = "expiring"
  /\ life' = "running"
  /\ Answer(c)
  /\ UNCHANGED count
SetExpiry(c) ==
  /\ call[c].step = "expiring" /\ count > 0
  /\ life' = "running"
  /\ Answer(c)
  /\ UNCHANGED count

KeyMissing(c) ==
  /\ call[c].step = "expiring" /\ count = 0
  /\ call' = [call EXCEPT ![c] = Idle]
  /\ UNCHANGED <<count, life, served, broken>>

(* Redis does not answer, or the process dies: what was counted stays.      *)
Fail(c) ==
  /\ call[c].step # "idle"
  /\ call' = [call EXCEPT ![c] = Idle]
  /\ broken' = (broken \/ (count > 0 /\ life = "endless"))
  /\ UNCHANGED <<count, life, served>>

(* Redis's own steps: the window runs down, and the key expires.            *)
WindowEnding ==
  /\ life = "running"
  /\ life' = "ending"
  /\ UNCHANGED <<count, call, served, broken>>

Expire ==
  /\ life = "ending"
  /\ count' = 0
  /\ life' = "endless"
  /\ served' = 0
  /\ call' = [c \in Callers |->
       IF call[c].step = "idle" THEN Idle ELSE [call[c] EXCEPT !.late = TRUE]]
  /\ UNCHANGED broken

Next ==
  \/ WindowEnding \/ Expire
  \/ \E c \in Callers : Incr(c) \/ ReadTTL(c) \/ SetExpiry(c) \/ KeyMissing(c) \/ Fail(c)

(* Redis's clock goes on, clients that are refused ask again, and Redis     *)
(* does not fail every one of the calls.  Nothing says when they ask: the   *)
(* calls may fall into the last half second of every window.                *)
Fairness ==
  /\ WF_vars(WindowEnding)
  /\ WF_vars(Expire)
  /\ WF_vars(\E c \in Callers : Incr(c))
  /\ SF_vars(\E c \in Callers : ReadTTL(c))
  /\ SF_vars(\E c \in Callers : SetExpiry(c))

Spec == Init /\ [][Next]_vars /\ Fairness
-----------------------------------------------------------------------------
Calls == [step : {"idle", "counted", "expiring"}, count : 0..MaxCount, late : BOOLEAN]

(* The type invariant of the component; a counter that does not exist has   *)
(* no expiry.                                                               *)
TypeOK ==
  /\ count \in 0..MaxCount
  /\ life \in {"endless", "running", "ending"}
  /\ call \in [Callers -> Calls]
  /\ served \in Nat
  /\ broken \in BOOLEAN
  /\ count = 0 => life = "endless"

(* However the calls interleave, and though one may answer long after it    *)
(* was counted, a counter lets through no more than its limit: 1 code sent, *)
(* 5 verifications (SendOTP, VerifyOTP), the limit of the route.            *)
AtMostLimit == served <= Limit

(* A counter without expiry would shut its clients out for ever.  There is  *)
(* one only while a call that will find it so is under way, or after such a *)
(* call failed, which the next one heals.                                   *)
Underway(c) == call[c].step # "idle" /\ ~call[c].late
NoEndlessWindow ==
  count > 0 /\ life = "endless" => broken \/ \E c \in Callers : Underway(c)

(* A call in the last half second of the window sets the expiry anew.       *)
Restart == life = "ending" /\ life' = "running"

(* "Please try again in %d seconds" (SendOTP, VerifyOTP), Retry-After (the  *)
(* middleware): a window ends, even one whose counter was left without an   *)
(* expiry by a call that failed after its INCR; only calls that restart it  *)
(* in its last half second, time after time, refused themselves, can keep   *)
(* it from ending.                                                          *)
WindowEnds == <>[][~Restart]_vars => (count > 0 ~> count = 0)
=============================================================================
