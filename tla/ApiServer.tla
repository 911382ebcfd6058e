----------------------------- MODULE ApiServer -----------------------------
(***************************************************************************)
(* api.py: admission and solving in the HTTP service.  Every request       *)
(* passes the middleware (body cap, sliding-window rate limit per client), *)
(* then runs on a worker thread of the framework; /solve and /plan solve   *)
(* under a semaphore they wait for with a timeout, /gen and /health/ready  *)
(* call the solver directly.                                               *)
(*                                                                         *)
(* The middleware runs on the event loop and does not yield between        *)
(* reading the clock and appending to the queue: one action.  What a solve *)
(* computes is the matter of Formulation.                                  *)
(***************************************************************************)
EXTENDS Integers, FiniteSets, Sequences

CONSTANTS
  Requests, Clients,
  Offered,               \* the routes the requests go to
  RatePerMin,            \* LIMITS.RATE_PER_MIN
  Window,                \* the 60 seconds, in ticks
  MaxConcurrentSolves,   \* LIMITS.MAX_CONCURRENT_SOLVES
  Probes,                \* the 6 attempts of /gen
  Threads,               \* worker threads of the framework
  Horizon                \* bound on the clock

ASSUME LimitAssumption ==
  /\ {RatePerMin, MaxConcurrentSolves, Probes, Threads} \subseteq Nat \ {0}
  /\ {Window, Horizon} \subseteq Nat
  /\ IsFiniteSet(Requests)

Routes == {"/health", "/health/ready", "/gen", "/solve", "/plan"}

ASSUME OfferedAssumption == Offered \subseteq Routes

VARIABLES
  now,
  rate,       \* _rate: client -> times of its admitted requests
  permits,    \* _solve_sem
  stage,      \* where each request is
  route, client, tries,
  code,       \* response status, 0 before the response
  hardened,   \* the response carries the security headers
  admitted    \* history: client -> times of every admitted request

vars == <<now, rate, permits, stage, route, client, tries, code, hardened,
          admitted>>

Stages ==
  {"new", "queued", "probing", "waiting", "solving", "sweeping", "building",
   "done"}

In(S) == {r \in Requests : stage[r] \in S}

\* requests between acquire and release
Holders == In({"solving", "sweeping"})

\* requests on a worker thread
OnThread == In({"probing", "waiting", "solving", "sweeping", "building"})

-----------------------------------------------------------------------------
Init ==
  /\ now = 0
  /\ rate = [c \in Clients |-> <<>>]
  /\ permits = MaxConcurrentSolves
  /\ stage = [r \in Requests |-> "new"]
  /\ route = [r \in Requests |-> "/health"]
  /\ client \in [Requests -> Clients]
  /\ tries = [r \in Requests |-> 0]
  /\ code = [r \in Requests |-> 0]
  /\ hardened = [r \in Requests |-> FALSE]
  /\ admitted = [c \in Clients |-> <<>>]

\* A response made in the route passes the middleware on its way out; one
\* the middleware makes itself, or an uncaught exception, does not.
Respond(r, status, viaMiddleware) ==
  /\ stage' = [stage EXCEPT ![r] = "done"]
  /\ code' = [code EXCEPT ![r] = status]
  /\ hardened' = [hardened EXCEPT ![r] = viaMiddleware]

\* mutant: an entry leaves one tick early
Expired_Early(q) ==
  CHOOSE n \in 0 .. Len(q) : /\ \A i \in 1 .. n : now - q[i] >= Window
                             /\ n < Len(q) => now - q[n + 1] < Window

\* the number of entries the loop pops: it stops at the first recent one
Expired(q) ==
  CHOOSE n \in 0 .. Len(q) : /\ \A i \in 1 .. n : now - q[i] > Window
                             /\ n < Len(q) => now - q[n + 1] <= Window

\* the queue after the loop
Recent(q) == SubSeq(q, Expired(q) + 1, Len(q))

Tick ==
  /\ now < Horizon
  /\ now' = now + 1
  /\ UNCHANGED <<rate, permits, stage, route, client, tries, code, hardened,
                 admitted>>

TooLarge(r) ==
  /\ stage[r] = "new"
  /\ Respond(r, 413, FALSE)
  /\ UNCHANGED <<now, rate, permits, route, client, tries, admitted>>

RateLimited(r) ==
  LET q == Recent(rate[client[r]])
  IN  /\ stage[r] = "new"
      /\ Len(q) >= RatePerMin
      /\ rate' = [rate EXCEPT ![client[r]] = q]
      /\ Respond(r, 429, FALSE)
      /\ UNCHANGED <<now, permits, route, client, tries, admitted>>

\* Admitted, and dispatched to one of the routes.
Admit(r) ==
  LET q == Recent(rate[client[r]])
  IN  /\ stage[r] = "new"
      /\ Len(q) < RatePerMin
      /\ rate' = [rate EXCEPT ![client[r]] = Append(q, now)]
      /\ admitted' = [admitted EXCEPT ![client[r]] = Append(@, now)]
      /\ stage' = [stage EXCEPT ![r] = "queued"]
      /\ \E x \in Offered : route' = [route EXCEPT ![r] = x]
      /\ UNCHANGED <<now, permits, client, tries, code, hardened>>

-----------------------------------------------------------------------------
(* The routes *)

\* the bounded schemas, checked before the route is called
Invalid(r) ==
  /\ stage[r] = "queued" /\ route[r] \in {"/gen", "/solve", "/plan"}
  /\ Respond(r, 422, TRUE)
  /\ UNCHANGED <<now, rate, permits, route, client, tries, admitted>>

Start(r) ==
  /\ stage[r] = "queued"
  /\ Cardinality(OnThread) < Threads
  /\ \/ /\ route[r] = "/health"
        /\ Respond(r, 200, TRUE)
     \/ /\ route[r] \in {"/health/ready", "/gen"}
        /\ stage' = [stage EXCEPT ![r] = "probing"]
        /\ UNCHANGED <<code, hardened>>
     \/ \* the instance is refused by the route: no source, unknown sample,
        \* unusable CBOM, a budget of the wrong length; or it is too large
        /\ route[r] \in {"/solve", "/plan"}
        /\ \E status \in IF route[r] = "/plan" THEN {413, 422, 503} ELSE {422} :
             Respond(r, status, TRUE)
     \/ \* a list of components that is none: the route raises
        route[r] = "/plan" /\ Respond(r, 500, FALSE)
     \/ /\ route[r] \in {"/solve", "/plan"}
        /\ stage' = [stage EXCEPT ![r] = "waiting"]
        /\ UNCHANGED <<code, hardened>>
  /\ UNCHANGED <<now, rate, permits, route, client, tries, admitted>>

Acquire(r) ==
  /\ stage[r] = "waiting"
  /\ permits > 0
  /\ permits' = permits - 1
  /\ stage' = [stage EXCEPT ![r] = "solving"]
  /\ UNCHANGED <<now, rate, route, client, tries, code, hardened, admitted>>

\* 15 seconds without a permit
Busy(r) ==
  /\ stage[r] = "waiting"
  /\ permits = 0
  /\ Respond(r, 503, TRUE)
  /\ UNCHANGED <<now, rate, permits, route, client, tries, admitted>>

\* /solve answers, after a Pareto sweep under the same permit if asked
SolveReturns(r) ==
  /\ \/ stage[r] = "sweeping"
     \/ stage[r] = "solving" /\ route[r] = "/solve"
  /\ permits' = permits + 1
  /\ Respond(r, 200, TRUE)
  /\ UNCHANGED <<now, rate, route, client, tries, admitted>>

StartPareto(r) ==
  /\ stage[r] = "solving" /\ route[r] = "/solve"
  /\ stage' = [stage EXCEPT ![r] = "sweeping"]
  /\ UNCHANGED <<now, rate, permits, route, client, tries, code, hardened,
                 admitted>>

\* /plan releases as soon as the solve returns
PlanSolved(r) ==
  /\ stage[r] = "solving" /\ route[r] = "/plan"
  /\ permits' = permits + 1
  /\ stage' = [stage EXCEPT ![r] = "building"]
  /\ UNCHANGED <<now, rate, route, client, tries, code, hardened, admitted>>

PlanReturns(r) ==
  /\ stage[r] = "building"
  /\ Respond(r, 200, TRUE)
  /\ UNCHANGED <<now, rate, permits, route, client, tries, admitted>>

\* mutant: release is not in a finally block
SolveRaises_Keeps(r) ==
  /\ stage[r] = "solving"
  /\ Respond(r, 500, FALSE)
  /\ UNCHANGED <<now, rate, permits, route, client, tries, admitted>>

\* The solve raises (a dependency on an unknown asset): finally releases,
\* the exception reaches the framework.
SolveRaises(r) ==
  /\ stage[r] = "solving"
  /\ permits' = permits + 1
  /\ Respond(r, 500, FALSE)
  /\ UNCHANGED <<now, rate, route, client, tries, admitted>>

\* mutant: the last attempt is not counted
ProbeFails_Forever(r) ==
  /\ stage[r] = "probing" /\ route[r] = "/gen"
  /\ tries' = [tries EXCEPT ![r] = (@ + 1) % Probes]
  /\ UNCHANGED <<now, rate, permits, stage, route, client, code, hardened,
                 admitted>>

\* /gen: INFEASIBLE, resample the seed
ProbeFails(r) ==
  /\ stage[r] = "probing" /\ route[r] = "/gen"
  /\ tries[r] + 1 < Probes
  /\ tries' = [tries EXCEPT ![r] = @ + 1]
  /\ UNCHANGED <<now, rate, permits, stage, route, client, code, hardened,
                 admitted>>

\* /gen returns an instance; the readiness check reports 503 on an exception
ProbeReturns(r) ==
  /\ stage[r] = "probing"
  /\ \E status \in IF route[r] = "/gen" THEN {200} ELSE {200, 503} :
       Respond(r, status, TRUE)
  /\ UNCHANGED <<now, rate, permits, route, client, tries, admitted>>

-----------------------------------------------------------------------------
Middleware(r) == TooLarge(r) \/ RateLimited(r) \/ Admit(r)

Waiting(r) == Acquire(r) \/ Busy(r)

Working(r) ==
  \/ SolveReturns(r) \/ StartPareto(r) \/ PlanSolved(r) \/ PlanReturns(r)
  \/ SolveRaises(r) \/ ProbeFails(r) \/ ProbeReturns(r)

Terminated == In({"new"}) = {} /\ In({"done"}) = Requests /\ UNCHANGED vars

Next ==
  \/ Tick
  \/ \E r \in Requests : \/ Middleware(r) \/ Invalid(r) \/ Start(r)
                         \/ Waiting(r) \/ Working(r)
  \/ Terminated

Spec == Init /\ [][Next]_vars

\* A free worker thread takes a queued request, a wait for the semaphore
\* ends, and every solve ends at its time limit.
FairSpec ==
  /\ Spec
  /\ \A r \in Requests : /\ WF_vars(Start(r))
                         /\ WF_vars(Waiting(r))
                         /\ WF_vars(Working(r))

-----------------------------------------------------------------------------
(* Properties *)

TypeOK ==
  /\ now \in 0 .. Horizon
  /\ permits \in 0 .. MaxConcurrentSolves
  /\ stage \in [Requests -> Stages]
  /\ route \in [Requests -> Routes]
  /\ client \in [Requests -> Clients]
  /\ tries \in [Requests -> 0 .. Probes - 1]
  /\ code \in [Requests -> {0, 200, 413, 422, 429, 500, 503}]
  /\ hardened \in [Requests -> BOOLEAN]
  /\ rate \in [Clients -> Seq(0 .. now)]
  /\ admitted \in [Clients -> Seq(0 .. now)]
  /\ \A c \in Clients : Len(rate[c]) <= RatePerMin
  /\ \A r \in Requests : stage[r] = "done" <=> code[r] # 0

(***************************************************************************)
(* The try/finally blocks of /solve and /plan (api.py:201-230, 373-378):   *)
(* no interleaving of solves, sweeps, exceptions and timeouts loses a      *)
(* permit or invents one.                                                  *)
(***************************************************************************)
PermitsConserved == permits + Cardinality(Holders) = MaxConcurrentSolves

(***************************************************************************)
(* api.py:81-89: whatever the arrival times, no client has more than       *)
(* RatePerMin requests admitted within any Window, not only the current    *)
(* one.                                                                    *)
(***************************************************************************)
RateBounded ==
  \A c \in Clients :
    \A i \in 1 .. Len(admitted[c]) - RatePerMin :
      admitted[c][i + RatePerMin] - admitted[c][i] > Window

(***************************************************************************)
(* api.py:85-88: a request is refused only if its client has had           *)
(* RatePerMin requests admitted within the last Window; refused requests   *)
(* do not prolong the refusal.                                             *)
(***************************************************************************)
RefusalsEarned ==
  \A r \in Requests : code'[r] = 429 /\ code[r] # 429 =>
    Cardinality({i \in DOMAIN admitted[client[r]] :
                   now - admitted[client[r]][i] <= Window}) >= RatePerMin

RefusedOnlyWhenSpent == [][RefusalsEarned]_vars

(***************************************************************************)
(* The quota of api.py:81-89 is exact, neither looser nor tighter than one *)
(* that looks at every window of the past: no step admits one too many or  *)
(* refuses one too early.                                                  *)
(***************************************************************************)
QuotaIsExact == [][RateBounded' /\ RefusalsEarned]_vars

(***************************************************************************)
(* Every admitted request is answered, although waiting solves and probes  *)
(* occupy the worker threads the others need (api.py:201, timeout=15).     *)
(***************************************************************************)
EveryRequestAnswered ==
  \A r \in Requests : stage[r] = "queued" ~> stage[r] = "done"

=============================================================================
