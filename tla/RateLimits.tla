----------------------------- MODULE RateLimits -----------------------------
(***************************************************************************)
(* RateLimitScheduler of rate_limits.py for one profile, used by several   *)
(* threads: there is no lock, so what acquire checked and what it then     *)
(* reserves are two steps.                                                 *)
(*                                                                         *)
(* request_timestamps and token_events are appended to and purged together *)
(* and are one queue.  Instead of time stamps it has ages, which stop at   *)
(* Window, and a sleep counts down; the unit is the poll of a full         *)
(* concurrency.  The averages are only reported.                           *)
(***************************************************************************)
EXTENDS Naturals, FiniteSets, Sequences, FiniteSetsExt

CONSTANTS Client,
          Rpm, Tpm,        \* effective_rpm_limit, effective_tpm_limit
          BaseCap,         \* concurrency_cap of the profile
          RestoreAfter,    \* restore_after_successes
          Window,          \* window_seconds
          Sizes,           \* token estimates, and what requests really use
          MaxRequests,     \* bound on the reservations made
          MaxRestarts      \* bound on the restarts

ASSUME RateAssumption == /\ IsFiniteSet(Client) /\ Client # {}
                         /\ {Rpm, Tpm, BaseCap, RestoreAfter, Window} \subseteq Nat \ {0}
                         /\ Sizes \subseteq Nat
                         /\ MaxRequests \in Nat /\ MaxRestarts \in Nat

VARIABLES
    events,      \* the requests of the window, oldest first
    active,      \* active_reservations
    inFlight,
    cap,         \* current_concurrency_cap
    streak,      \* success_streak
    counter,     \* _reservation_counter
    at,          \* where each client is
    size,        \* its estimate
    sleep,       \* what is left of its sleep
    mine,        \* its reservation
    restarts

window == <<events, active, inFlight>>
adaptive == <<cap, streak>>
rateVars == <<window, adaptive, counter, at, size, sleep, mine, restarts>>

Event == [age : 0..Window, tokens : Sizes, estimate : Sizes, id : 1..MaxRequests]

RateInit ==
    /\ events = <<>>
    /\ active = {}
    /\ inFlight = 0
    /\ cap = BaseCap
    /\ streak = 0
    /\ counter = 0
    /\ at = [c \in Client |-> "idle"]
    /\ size = [c \in Client |-> 0]
    /\ sleep = [c \in Client |-> 0]
    /\ mine = [c \in Client |-> 0]
    /\ restarts = 0

-----------------------------------------------------------------------------
(* The wait.                                                               *)

\* What the first k of some numbers make, for every k.
Sums(ns) == LET sum[k \in 0..Len(ns)] == IF k = 0 THEN 0 ELSE sum[k - 1] + ns[k] IN sum
Total(ns) == Sums(ns)[Len(ns)]

Used(es) == [n \in DOMAIN es |-> es[n].tokens]
Tokens(es) == Total(Used(es))

\* What is left of some events after w more: those before the first that has
\* not expired are gone.
After(es, w) ==
    LET left == {n \in DOMAIN es : es[n].age + w < Window}
    IN IF left = {} THEN <<>> ELSE SubSeq(es, Min(left), Len(es))

Purged(es) == After(es, 0)

RequestWait(es) == IF Len(es) + 1 > Rpm THEN Window - es[1].age ELSE 0

\* Faulty: waits for one more to go when those before it are just enough.
TokenWaitLong(es, n) ==
    IF Tokens(es) + n <= Tpm THEN 0
    ELSE LET enough == {k \in DOMAIN es : Sums(Used(es))[k] > Tokens(es) + n - Tpm}
         IN IF enough = {} THEN Window ELSE Window - es[Min(enough)].age

\* Faulty: asks whether the limit is reached, not whether the estimate fits.
TokenWaitIfReached(es, n) ==
    IF Tokens(es) < Tpm THEN 0
    ELSE LET enough == {k \in DOMAIN es : Sums(Used(es))[k] >= Tokens(es) + n - Tpm}
         IN IF enough = {} THEN Window ELSE Window - es[Min(enough)].age

\* Until the oldest have gone that make room for n; a whole window if all are not enough.
TokenWait(es, n) ==
    IF Tokens(es) + n <= Tpm THEN 0
    ELSE LET enough == {k \in DOMAIN es : Sums(Used(es))[k] >= Tokens(es) + n - Tpm}
         IN IF enough = {} THEN Window ELSE Window - es[Min(enough)].age

ConcurrencyWait == IF inFlight >= cap THEN 1 ELSE 0

-----------------------------------------------------------------------------
(* acquire().                                                              *)

acquire(c, n) == /\ at[c] = "idle"
                 /\ counter + Cardinality({d \in Client : at[d] \in {"asking", "admitted"}}) < MaxRequests
                 /\ at' = [at EXCEPT ![c] = "asking"]
                 /\ size' = [size EXCEPT ![c] = n]
                 /\ UNCHANGED <<window, adaptive, counter, sleep, mine, restarts>>

\* One turn of the loop.
Check(c) ==
    /\ at[c] = "asking"
    /\ sleep[c] = 0
    /\ events' = Purged(events)
    /\ LET wait == Max({RequestWait(events'), TokenWait(events', size[c]), ConcurrencyWait})
       IN IF wait = 0 THEN at' = [at EXCEPT ![c] = "admitted"] /\ UNCHANGED sleep
                      ELSE sleep' = [sleep EXCEPT ![c] = wait] /\ UNCHANGED at
    /\ UNCHANGED <<active, inFlight, adaptive, counter, size, mine, restarts>>

Reserve(c) ==
    /\ at[c] = "admitted"
    /\ at' = [at EXCEPT ![c] = "active"]
    /\ counter' = counter + 1
    /\ mine' = [mine EXCEPT ![c] = counter']
    /\ events' = Append(events, [age |-> 0, tokens |-> size[c], estimate |-> size[c], id |-> counter'])
    /\ active' = active \cup {counter'}
    /\ inFlight' = inFlight + 1
    /\ size' = [size EXCEPT ![c] = 0]
    /\ UNCHANGED <<adaptive, sleep, restarts>>

-----------------------------------------------------------------------------
(* The outcome, which a caller may report twice.                           *)

\* Faulty: counts down for a reservation that was released before.
ReleaseAgain(r) == active' = active \ {r} /\ inFlight' = IF inFlight > 0 THEN inFlight - 1 ELSE 0

Release(r) == IF r \in active THEN active' = active \ {r} /\ inFlight' = inFlight - 1
              ELSE UNCHANGED <<active, inFlight>>

Forgets(c) == at' = [at EXCEPT ![c] = "idle"] /\ mine' = [mine EXCEPT ![c] = 0]

Reports(c) == \/ at[c] = "active" /\ at' = [at EXCEPT ![c] = "reported"] /\ UNCHANGED mine
              \/ at[c] = "reported" /\ Forgets(c)

record_success(c) ==
    /\ Reports(c)
    /\ \E actual \in Sizes :
           events' = Purged([n \in DOMAIN events |->
                                IF events[n].id = mine[c] THEN [events[n] EXCEPT !.tokens = actual]
                                                          ELSE events[n]])
    /\ Release(mine[c])
    /\ IF cap = BaseCap THEN UNCHANGED adaptive
       ELSE IF streak + 1 < RestoreAfter THEN streak' = streak + 1 /\ UNCHANGED cap
       ELSE cap' = cap + 1 /\ streak' = 0
    /\ UNCHANGED <<counter, size, sleep, restarts>>

\* Faulty: the reservation that was turned away keeps its place.
LimitedWithoutRelease(c) ==
    /\ Reports(c)
    /\ cap' = (cap + 1) \div 2
    /\ streak' = 0
    /\ UNCHANGED <<window, counter, size, sleep, restarts>>

record_rate_limit(c) ==
    /\ Reports(c)
    /\ Release(mine[c])
    /\ cap' = (cap + 1) \div 2
    /\ streak' = 0
    /\ UNCHANGED <<events, counter, size, sleep, restarts>>

\* The other way to report it leaves the reservation and the streak alone.
on_rate_limit == /\ cap > 1
                 /\ cap' = cap - 1
                 /\ UNCHANGED <<window, streak, counter, at, size, sleep, mine, restarts>>

Forget(c) == /\ at[c] = "reported"
             /\ Forgets(c)
             /\ UNCHANGED <<window, adaptive, counter, size, sleep, restarts>>

\* export_state and import_state: some callers come back with their reservation.
Restart ==
    /\ restarts < MaxRestarts
    /\ restarts' = restarts + 1
    /\ \E back \in SUBSET {c \in Client : at[c] = "active"} :
           /\ at' = [c \in Client |-> IF c \in back THEN "active" ELSE "idle"]
           /\ mine' = [c \in Client |-> IF c \in back THEN mine[c] ELSE 0]
    /\ events' = Purged(events)
    /\ sleep' = [c \in Client |-> 0]
    /\ size' = [c \in Client |-> 0]
    /\ UNCHANGED <<active, inFlight, adaptive, counter>>

Tick == /\ (\E n \in DOMAIN events : events[n].age < Window) \/ (\E c \in Client : sleep[c] > 0)
        /\ events' = [n \in DOMAIN events |->
                         [events[n] EXCEPT !.age = IF @ < Window THEN @ + 1 ELSE @]]
        /\ sleep' = [c \in Client |-> IF sleep[c] > 0 THEN sleep[c] - 1 ELSE 0]
        /\ UNCHANGED <<active, inFlight, adaptive, counter, at, size, mine, restarts>>

RateNext == \/ \E c \in Client : \/ \E n \in Sizes : acquire(c, n)
                                 \/ Check(c) \/ Reserve(c)
                                 \/ record_success(c) \/ record_rate_limit(c) \/ Forget(c)
            \/ on_rate_limit \/ Restart \/ Tick

RateSpec == RateInit /\ [][RateNext]_rateVars

\* Time passes, threads run, and a request that was let through has an outcome.
FairRateSpec == /\ RateSpec
                /\ WF_rateVars(Tick)
                /\ \A c \in Client : /\ WF_rateVars(Check(c)) /\ WF_rateVars(Reserve(c))
                                     /\ WF_rateVars(at[c] = "active" /\ (record_success(c) \/ record_rate_limit(c)))

-----------------------------------------------------------------------------
RateTypeOK == /\ events \in Seq(Event)
              /\ active \subseteq 1..MaxRequests
              /\ inFlight \in Nat
              /\ cap \in 1..BaseCap
              /\ streak \in 0..RestoreAfter - 1
              /\ counter \in 0..MaxRequests
              /\ at \in [Client -> {"idle", "asking", "admitted", "active", "reported"}]
              /\ size \in [Client -> Sizes \cup {0}]
              /\ sleep \in [Client -> 0..Window]
              /\ mine \in [Client -> 0..MaxRequests]
              /\ restarts \in 0..MaxRestarts

Admitted == {c \in Client : at[c] = "admitted"}
Least(m, n) == IF m < n THEN m ELSE n
Fit == Max({n \in Sizes : n <= Tpm} \cup {0})

\* The window holds no more requests, and no more tokens as estimated, than the
\* limits allow, but for those that passed the check while others had passed it
\* and not reserved yet: the checks are not made under a lock.  (A success that
\* reports more tokens than were estimated adds them unchecked.)
WithinBudget ==
    LET live == Purged(events)
        certain == [n \in DOMAIN live |-> Least(live[n].tokens, live[n].estimate)]
        others == Cardinality(Client) - 1
    IN /\ Len(live) + Cardinality(Admitted) <= Rpm + others
       /\ Total(certain) <= Tpm + others * Fit

\* in_flight counts the reservations that are active, also when an outcome is
\* reported twice or after a restart, and those of running requests are among
\* them: none is released early.
InFlightExact == /\ inFlight = Cardinality(active)
                 /\ \A c \in Client : at[c] = "active" => mine[c] \in active

\* The wait for tokens is as long as it has to be and no longer: it ends when
\* the first of the events still in the window leaves room for the estimate.
WaitIsLeast ==
    LET live == Purged(events)
    IN \A n \in Sizes : n <= Tpm =>
           TokenWait(live, n) = Min({w \in 0..Window : Tokens(After(live, w)) + n <= Tpm})

\* A request that fits the limits is let through in the end, unless in the end
\* reservations that a restart orphaned take up all that is left of the
\* concurrency: nothing ever releases those.
Orphans == active \ {mine[c] : c \in Client}

FittingIsAdmitted ==
    \/ <>[](Cardinality(Orphans) >= cap)
    \/ \A c \in Client : at[c] = "asking" /\ size[c] <= Tpm ~> at[c] # "asking"
=============================================================================
