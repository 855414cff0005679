----------------------------- MODULE RestClient -----------------------------
(***************************************************************************)
(* The REST client of one exchange: calls of request(), each a coroutine,  *)
(* that share the rate limiter's semaphores and retry on two levels.       *)
(*                                                                         *)
(* The exchange's _request (mexc_retry, gateio_retry) calls the base       *)
(* class's _request, which has a retry decorator of its own: a send that   *)
(* fails may be repeated by the inner loop, and when that gives up, by the *)
(* outer one, which starts the inner loop again.  Every repetition asks    *)
(* for new permits.                                                        *)
(*                                                                         *)
(* The exchange is external.  An answer may be lost after the request was  *)
(* executed, and a request the client gave up may be executed later.       *)
(*                                                                         *)
(* A semaphore is its value; asyncio wakes its waiters in order, which is  *)
(* the strong fairness of FairSpec.  The spacing of requests in time, the  *)
(* length of the backoff, authentication and the session object are left   *)
(* out.                                                                    *)
(***************************************************************************)
EXTENDS Naturals, FiniteSets

CONSTANTS
    Calls,       \* calls of request()
    Placements,  \* those that change the exchange's state
    Endpoints,
    Listed,      \* the endpoints that have a semaphore of their own
    EndpointOf,  \* the endpoint of a call
    GlobalLimit, \* global_limit
    Burst,       \* burst_capacity
    MaxAttempts, \* max_attempts, the same on both levels
    MaxCancels   \* bound: how many calls are cancelled

ASSUME CallsAssumption == IsFiniteSet(Calls) /\ Placements \subseteq Calls
ASSUME EndpointsAssumption == Listed \subseteq Endpoints /\ EndpointOf \in [Calls -> Endpoints]
ASSUME LimitsAssumption == GlobalLimit \in Nat \ {0} /\ Burst \in Nat \ {0}
ASSUME AttemptsAssumption == MaxAttempts \in Nat \ {0} /\ MaxCancels \in Nat

VARIABLES
    pc,        \* what the call awaits
    outer,     \* attempt of the exchange's decorator
    inner,     \* attempt of the base class's decorator
    free,      \* value of _global_semaphore
    epFree,    \* value of _semaphores[endpoint]
    leaked,    \* (history) permits of an endpoint that nobody will release
    shutdown,  \* _is_shutdown
    cancels,   \* how many calls were cancelled
    executed,  \* the exchange: how often it has executed a placement
    late,      \* the exchange: requests given up by the client, executed later or never
    uncertain  \* (history) sends whose answer does not tell what happened

attempt  == <<outer, inner>>
effects  == <<executed, late, uncertain>>
vars     == <<pc, attempt, free, epFree, leaked, shutdown, cancels, effects>>

Returned == {"ok", "refused", "failed", "cancelled"}

\* Where a call holds the global permit, and where the one of its endpoint.
HoldsGlobal   == {"globalDelay", "endpointWait", "endpointDelay", "sent"}
HoldsEndpoint == {"endpointDelay", "sent"}

GlobalWaiters    == {c \in Calls : pc[c] = "globalWait"}
GlobalHolders    == {c \in Calls : pc[c] \in HoldsGlobal}
EndpointHolders(e) == {c \in Calls : EndpointOf[c] = e /\ pc[c] \in HoldsEndpoint}

\* What can go wrong with a send: no answer (connection error, timeout), a rate
\* limit or a timestamp out of the window, a server error, an answer that
\* cannot be read, a refusal.
Errors    == {"lost", "limited", "server", "garbled", "business"}
Inside    == {"lost", "limited"}               \* repeated by the inner decorator
Outside   == Inside \union {"server"}          \* repeated by the outer one
Uncertain == {"lost", "server", "garbled"}     \* may have been executed

TypeOK ==
    /\ pc \in [Calls -> {"idle", "globalWait", "backoff"} \union HoldsGlobal \union Returned]
    /\ outer \in [Calls -> 1..MaxAttempts]
    /\ inner \in [Calls -> 1..MaxAttempts]
    /\ free \in Nat
    /\ epFree \in [Listed -> 0..Burst]
    /\ leaked \in [Listed -> 0..Burst]
    /\ shutdown \in BOOLEAN
    /\ cancels \in 0..MaxCancels
    /\ executed \in [Placements -> Nat]
    /\ late \in [Placements -> Nat]
    /\ uncertain \in [Placements -> Nat]

Init ==
    /\ pc = [c \in Calls |-> "idle"]
    /\ outer = [c \in Calls |-> 1]
    /\ inner = [c \in Calls |-> 1]
    /\ free = GlobalLimit
    /\ epFree = [e \in Listed |-> Burst]
    /\ leaked = [e \in Listed |-> 0]
    /\ shutdown = FALSE
    /\ cancels = 0
    /\ executed = [p \in Placements |-> 0]
    /\ late = [p \in Placements |-> 0]
    /\ uncertain = [p \in Placements |-> 0]

-----------------------------------------------------------------------------
Go(c, where) == pc' = [pc EXCEPT ![c] = where]

\* The call returns; its attempts are gone with its frame.
Return(c, how) ==
    /\ Go(c, how)
    /\ outer' = [outer EXCEPT ![c] = 1]
    /\ inner' = [inner EXCEPT ![c] = 1]

\* Mutant: the endpoint's permit is kept.
ReleaseGlobalOnly(c) ==
    /\ free' = free + 1
    /\ UNCHANGED epFree

\* release_permit
ReleasePermit(c) ==
    /\ free' = free + 1
    /\ epFree' = [e \in Listed |-> epFree[e] + IF e = EndpointOf[c] THEN 1 ELSE 0]

Count(f, c) == [p \in Placements |-> f[p] + IF p = c THEN 1 ELSE 0]

\* The client does not know whether the exchange executes what it sent.
Doubt(c) ==
    /\ late' = Count(late, c)
    /\ uncertain' = Count(uncertain, c)
    /\ UNCHANGED executed

-----------------------------------------------------------------------------
(* acquire_permit *)

AskPermit(c) ==
    /\ pc[c] \in {"idle", "backoff"}
    /\ ~shutdown
    /\ Go(c, "globalWait")
    /\ UNCHANGED <<attempt, free, epFree, leaked, shutdown, cancels, effects>>

\* A RuntimeError, which neither decorator repeats.
RejectPermit(c) ==
    /\ pc[c] \in {"idle", "backoff"}
    /\ shutdown
    /\ Return(c, "failed")
    /\ UNCHANGED <<free, epFree, leaked, shutdown, cancels, effects>>

AcquireGlobal(c) ==
    /\ pc[c] = "globalWait"
    /\ free > 0
    /\ free' = free - 1
    /\ Go(c, "globalDelay")
    /\ UNCHANGED <<attempt, epFree, leaked, shutdown, cancels, effects>>

\* Only an endpoint that is listed as it stands has a semaphore.
GlobalDelayEnds(c) ==
    /\ pc[c] = "globalDelay"
    /\ Go(c, IF EndpointOf[c] \in Listed THEN "endpointWait" ELSE "sent")
    /\ UNCHANGED <<attempt, free, epFree, leaked, shutdown, cancels, effects>>

AcquireEndpoint(c) ==
    /\ pc[c] = "endpointWait"
    /\ epFree[EndpointOf[c]] > 0
    /\ epFree' = [epFree EXCEPT ![EndpointOf[c]] = @ - 1]
    /\ Go(c, "endpointDelay")
    /\ UNCHANGED <<attempt, free, leaked, shutdown, cancels, effects>>

\* The permit is complete and the request is sent without another await.
EndpointDelayEnds(c) ==
    /\ pc[c] = "endpointDelay"
    /\ Go(c, "sent")
    /\ UNCHANGED <<attempt, free, epFree, leaked, shutdown, cancels, effects>>

-----------------------------------------------------------------------------
(* The answer, and the two decorators *)

Succeed(c) ==
    /\ pc[c] = "sent"
    /\ ReleasePermit(c)
    /\ Return(c, "ok")
    /\ executed' = Count(executed, c)
    /\ UNCHANGED <<leaked, shutdown, cancels, late, uncertain>>

\* Mutant: no finally, an error keeps the permits.
FailSendKeeps(c, error) ==
    /\ pc[c] = "sent"
    /\ UNCHANGED <<free, epFree>>
    /\ IF error \in Uncertain THEN Doubt(c) ELSE UNCHANGED effects
    /\ UNCHANGED <<leaked, shutdown, cancels>>

FailSend(c, error) ==
    /\ pc[c] = "sent"
    /\ ReleasePermit(c)
    /\ IF error \in Uncertain THEN Doubt(c) ELSE UNCHANGED effects
    /\ UNCHANGED <<leaked, shutdown, cancels>>

\* Mutant: one attempt more.
CanRepeatOnceMore(c, error) == error \in Inside /\ inner[c] <= MaxAttempts

CanRepeatInside(c, error) == error \in Inside /\ inner[c] < MaxAttempts

CanRepeatOutside(c, error) ==
    /\ error \in Outside
    /\ ~CanRepeatInside(c, error)
    /\ outer[c] < MaxAttempts

\* Mutant: the attempt is not counted.
RepeatUncounted(c, error) ==
    /\ CanRepeatInside(c, error)
    /\ FailSend(c, error)
    /\ Go(c, "backoff")
    /\ UNCHANGED attempt

RepeatInside(c, error) ==
    /\ CanRepeatInside(c, error)
    /\ FailSend(c, error)
    /\ Go(c, "backoff")
    /\ inner' = [inner EXCEPT ![c] = @ + 1]
    /\ UNCHANGED outer

\* A new call of the base class's _request starts with its first attempt.
RepeatOutside(c, error) ==
    /\ CanRepeatOutside(c, error)
    /\ FailSend(c, error)
    /\ Go(c, "backoff")
    /\ outer' = [outer EXCEPT ![c] = @ + 1]
    /\ inner' = [inner EXCEPT ![c] = 1]

\* Mutant: an answer that cannot be read counts as empty.
GiveUpUnread(c, error) ==
    /\ ~CanRepeatInside(c, error)
    /\ ~CanRepeatOutside(c, error)
    /\ FailSend(c, error)
    /\ Return(c, CASE error = "business" -> "refused"
                   [] error = "garbled" -> "ok"
                   [] OTHER -> "failed")

GiveUp(c, error) ==
    /\ ~CanRepeatInside(c, error)
    /\ ~CanRepeatOutside(c, error)
    /\ FailSend(c, error)
    /\ Return(c, IF error = "business" THEN "refused" ELSE "failed")

-----------------------------------------------------------------------------
(* Cancellation of the caller's task, by where it reaches the call *)

CancelAt(c, where) ==
    /\ pc[c] = where
    /\ cancels < MaxCancels
    /\ cancels' = cancels + 1
    /\ Return(c, "cancelled")
    /\ UNCHANGED shutdown

CancelWaiting(c) ==
    /\ CancelAt(c, "globalWait") \/ CancelAt(c, "backoff")
    /\ UNCHANGED <<free, epFree, leaked, effects>>

\* acquire_permit's handler returns the global permit.
CancelInPermit(c) ==
    /\ CancelAt(c, "globalDelay") \/ CancelAt(c, "endpointWait")
    /\ free' = free + 1
    /\ UNCHANGED <<epFree, leaked, effects>>

\* Its handler does not know of the endpoint's permit.
CancelInEndpointDelay(c) ==
    /\ CancelAt(c, "endpointDelay")
    /\ free' = free + 1
    /\ leaked' = [leaked EXCEPT ![EndpointOf[c]] = @ + 1]
    /\ UNCHANGED <<epFree, effects>>

CancelSent(c) ==
    /\ CancelAt(c, "sent")
    /\ ReleasePermit(c)
    /\ Doubt(c)
    /\ UNCHANGED leaked

Cancel(c) == CancelWaiting(c) \/ CancelInPermit(c) \/ CancelInEndpointDelay(c) \/ CancelSent(c)

-----------------------------------------------------------------------------
\* Mutant: the flag only.
CloseFlag ==
    /\ ~shutdown
    /\ shutdown' = TRUE
    /\ UNCHANGED <<pc, attempt, free, epFree, leaked, cancels, effects>>

\* close: the flag and the forced release, before the session is closed.  Each
\* release wakes one waiter; the loop ends when the value has reached the limit.
\* The endpoints' semaphores keep their value: _initial_value does not exist.
Close ==
    /\ ~shutdown
    /\ shutdown' = TRUE
    /\ free' = GlobalLimit + Cardinality(GlobalWaiters)
    /\ UNCHANGED <<pc, attempt, epFree, leaked, cancels, effects>>

\* The exchange executes a request the client has given up, if it ever does.
ExecuteLate(p) ==
    /\ late[p] > 0
    /\ late' = [late EXCEPT ![p] = @ - 1]
    /\ executed' = [executed EXCEPT ![p] = @ + 1]
    /\ UNCHANGED <<pc, attempt, free, epFree, leaked, shutdown, cancels, uncertain>>

Permit(c) ==
    AskPermit(c) \/ RejectPermit(c) \/ AcquireGlobal(c) \/ GlobalDelayEnds(c)
      \/ AcquireEndpoint(c) \/ EndpointDelayEnds(c)

Fail(c, error) == RepeatInside(c, error) \/ RepeatOutside(c, error) \/ GiveUp(c, error)

Answer(c) == Succeed(c) \/ \E error \in Errors : Fail(c, error)

Next ==
    \/ \E c \in Calls : Permit(c) \/ Answer(c) \/ Cancel(c)
    \/ \E p \in Placements : ExecuteLate(p)
    \/ Close

Spec == Init /\ [][Next]_vars

\* What only takes time: a sleep, the exchange's answer or the timeout.
Proceed(c) ==
    \/ pc[c] = "backoff" /\ (AskPermit(c) \/ RejectPermit(c))
    \/ GlobalDelayEnds(c) \/ EndpointDelayEnds(c) \/ Answer(c)

\* A sleep ends, a request is answered or times out, and a semaphore serves
\* its waiters in order.
FairSpec ==
    /\ Spec
    /\ \A c \in Calls :
         /\ WF_vars(Proceed(c))
         /\ SF_vars(AcquireGlobal(c) \/ AcquireEndpoint(c))

-----------------------------------------------------------------------------
(* Properties *)

\* No permit is lost but the ones a cancellation in the endpoint's delay loses,
\* and none is returned twice, whatever the order in which calls fail, are
\* repeated and are cancelled.  close breaks the first part and not the second.
PermitsAccounted ==
    /\ ~shutdown => free + Cardinality(GlobalHolders) = GlobalLimit
    /\ \A e \in Listed : epFree[e] + Cardinality(EndpointHolders(e)) + leaked[e] = Burst

\* close lets every call pass that waits for the global semaphore.
CloseServesWaiters == shutdown => Cardinality(GlobalWaiters) <= free

\* The exchange has executed a call at most once more than the answers the
\* client could not know, and only a successful call has the extra one: an
\* order that is repeated may exist several times, also when the call failed
\* or was refused.
EffectsExplained ==
    \A p \in Placements :
        /\ executed[p] + late[p] = uncertain[p] + IF pc[p] = "ok" THEN 1 ELSE 0
        /\ pc[p] = "ok" => executed[p] > 0

\* The sends of a call that are behind it.
Behind(c) == (outer[c] - 1) * MaxAttempts + inner[c] - 1

\* The two decorators together send a call at most MaxAttempts squared times.
AttemptsBounded ==
    \A p \in Placements :
        /\ pc[p] \notin Returned => uncertain[p] <= Behind(p)
        /\ uncertain[p] + (IF pc[p] = "ok" THEN 1 ELSE 0) <= MaxAttempts * MaxAttempts

\* What the caller of a placement sees of it.
Result == [p \in Placements |-> CASE pc[p] = "ok" -> "ok"
                                  [] pc[p] \in Returned \ {"ok"} -> "error"
                                  [] OTHER -> "none"]

\* A caller may rely on AtLeastOnce: a call that returned took effect once or
\* more, an error tells nothing, and there is a bound to the repetitions.
Caller == INSTANCE AtLeastOnce WITH
            MaxEffects <- MaxAttempts * MaxAttempts,
            result <- Result

ImplementsAtLeastOnce == Caller!Spec

\* A call returns, unless cancellations have taken all permits of an endpoint:
\* the calls of that endpoint then wait for ever, and with the global permits
\* they hold so do the others.
CallsReturn ==
    \/ <>[](\A c \in Calls : pc[c] \in Returned \union {"idle"})
    \/ <>(\E e \in Listed : leaked[e] = Burst)
=============================================================================
