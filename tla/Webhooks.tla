------------------------------ MODULE Webhooks ------------------------------
(***************************************************************************)
(* Webhook deliveries.  A delivery is recorded for each subscribed         *)
(* endpoint in the transaction of the event; dispatchers claim due ones    *)
(* for a lease, post them, and record the outcome by the delivery's id     *)
(* alone.  Administrators change, move, disable and delete endpoints and   *)
(* queue deliveries again meanwhile.                                       *)
(*                                                                         *)
(* Delays are countdowns.  A secret is known to the host it was made for.  *)
(***************************************************************************)
EXTENDS Integers, FiniteSets

CONSTANTS
    Endpoints,
    Deliveries,
    EndpointOf,    \* [Deliveries -> Endpoints]
    EventOf,       \* [Deliveries -> EventNames]
    EventNames,
    Hosts,
    Inputs,        \* the settings administrators send
    AllowHttp,     \* webhooks.allow_http
    Tasks,         \* attempts running at once, over all dispatchers
    Admins,        \* administrators' requests running at once
    MaxAttempts,
    FirstRetry,
    MaxRetry,
    Lease,         \* LEASE
    AttemptTime,   \* longest time from a claim to its record
    MaxFaults,     \* bound on crashes
    MaxChanges,    \* bound on administrators' changes
    Changes,       \* the changes they make
    None

\* Settings as an administrator sends them, checked or not.
EndpointInput ==
    [url: [scheme: {"https", "http"}, host: Hosts \cup {None},
           bare: BOOLEAN],   \* no credentials, no fragment
     events: SUBSET (EventNames \cup {"*", "other"}), enabled: BOOLEAN]

ASSUME WebhooksAssumption ==
    /\ EndpointOf \in [Deliveries -> Endpoints]
    /\ EventOf \in [Deliveries -> EventNames]
    /\ Inputs \subseteq EndpointInput
    /\ AllowHttp \in BOOLEAN
    /\ MaxAttempts \in Nat \ {0}
    /\ FirstRetry \in Nat \ {0} /\ MaxRetry \in Nat \ {0}
    /\ Lease \in Nat \ {0}
    /\ AttemptTime \in Nat
    /\ MaxFaults \in Nat /\ MaxChanges \in Nat
    /\ Changes \subseteq {"create", "update", "secret", "delete", "redeliver"}
    /\ None \notin Hosts \cup Deliveries \cup Endpoints

VARIABLES
    endpoint,   \* webhook_endpoints
    delivery,   \* webhook_deliveries
    received,   \* the deliveries an endpoint answered with success
    task,       \* the attempts
    admin,      \* the administrators' requests
    faults,
    changes

webhookVars == <<endpoint, delivery, received, task, admin, faults, changes>>

Endpoint == [state: {"unused", "registered", "deleted"}, host: Hosts, secret: Hosts,
             events: SUBSET (EventNames \cup {"*"}), enabled: BOOLEAN,
             crossed: BOOLEAN]   \* history: moved between an update's read and its write

\* attempts counts up to two more than the limit: two attempts may overlap.
Delivery == [state: {"none", "queued", "gone"}, attempts: 0..(MaxAttempts + 2),
             wait: 0..(IF Lease > MaxRetry THEN Lease ELSE MaxRetry),
             delivered: BOOLEAN, failed: BOOLEAN,
             round: 0..MaxChanges]   \* history: how often it was queued again

Task == [pc: {"idle", "sending", "ok", "error"}, delivery: Deliveries \cup {None},
         attempts: Nat, age: Nat]

Admin == [pc: {"idle", "update"}, endpoint: Endpoints \cup {None}, previous: Hosts \cup {None},
          input: Inputs \cup {None}]

IdleTask == [pc |-> "idle", delivery |-> None, attempts |-> 0, age |-> 0]
IdleAdmin == [pc |-> "idle", endpoint |-> None, previous |-> None, input |-> None]

WebhooksInit ==
    /\ endpoint \in [Endpoints -> {[state |-> s, host |-> h, secret |-> h, events |-> {"*"},
                                     enabled |-> TRUE, crossed |-> FALSE] :
                                       h \in Hosts, s \in {"unused", "registered"}}]
    /\ delivery = [d \in Deliveries |-> [state |-> "none", attempts |-> 0, wait |-> 0,
                                         delivered |-> FALSE, failed |-> FALSE,
                                         round |-> 0]]
    /\ received = {}
    /\ task = [w \in Tasks |-> IdleTask]
    /\ admin = [a \in Admins |-> IdleAdmin]
    /\ faults = 0
    /\ changes = 0

-----------------------------------------------------------------------------
\* retry_delay: doubling from the first delay, sixteen times at most.
retry_delay(failed_attempts) ==
    IF failed_attempts <= 0 THEN 0
    ELSE LET doublings == IF failed_attempts - 1 < 16 THEN failed_attempts - 1 ELSE 16
             delay == FirstRetry * 2^doublings
         IN IF delay < MaxRetry THEN delay ELSE MaxRetry

Pending(d) == delivery[d].state = "queued" /\ ~delivery[d].delivered /\ ~delivery[d].failed

\* subscribes, and the WHERE clause of record_event.
subscribes(events, event) == "*" \in events \/ event \in events

\* record_event, for the endpoints enabled and subscribed at that moment.
record_event(d) ==
    /\ delivery[d].state = "none"
    /\ endpoint[EndpointOf[d]].state = "registered" /\ endpoint[EndpointOf[d]].enabled
    /\ subscribes(endpoint[EndpointOf[d]].events, EventOf[d])
    /\ delivery' = [delivery EXCEPT ![d].state = "queued"]
    /\ UNCHANGED <<endpoint, received, task, admin, faults, changes>>

-----------------------------------------------------------------------------
(***************************************************************************)
(* The dispatchers.                                                        *)
(***************************************************************************)
Due(d) == Pending(d) /\ delivery[d].wait = 0 /\ endpoint[EndpointOf[d]].enabled

\* Mutant: a claim that leaves the delivery due.
claim_due_no_lease(w, d) ==
    /\ task[w].pc = "idle" /\ Due(d)
    /\ task' = [task EXCEPT ![w] = [pc |-> "sending", delivery |-> d,
                                    attempts |-> delivery[d].attempts, age |-> 0]]
    /\ UNCHANGED <<endpoint, delivery, received, admin, faults, changes>>

\* claim_due: FOR UPDATE SKIP LOCKED and the lease, in one statement.
claim_due(w, d) ==
    /\ task[w].pc = "idle" /\ Due(d)
    /\ delivery' = [delivery EXCEPT ![d].wait = Lease]
    /\ task' = [task EXCEPT ![w] = [pc |-> "sending", delivery |-> d,
                                    attempts |-> delivery[d].attempts, age |-> 0]]
    /\ UNCHANGED <<endpoint, received, admin, faults, changes>>

\* attempt: the endpoint answers with success, or the secret, the address, the
\* connection, the status or the timeout fails it.
attempt(w) ==
    /\ task[w].pc = "sending"
    /\ \/ /\ task' = [task EXCEPT ![w].pc = "ok"]
          /\ received' = received \cup {task[w].delivery}
       \/ /\ task' = [task EXCEPT ![w].pc = "error"]
          /\ UNCHANGED received
    /\ UNCHANGED <<endpoint, delivery, admin, faults, changes>>

Forget(w) == task' = [task EXCEPT ![w] = IdleTask]

\* mark_delivered.  Nothing is updated when the row is gone, or when the outcome
\* contradicts the one it has: the CHECK refuses it and the run ends.
mark_delivered(w) ==
    LET d == task[w].delivery IN
    /\ task[w].pc = "ok"
    /\ delivery' = IF delivery[d].state = "queued" /\ ~delivery[d].failed
                   THEN [delivery EXCEPT ![d].delivered = TRUE, ![d].attempts = @ + 1]
                   ELSE delivery
    /\ Forget(w)
    /\ UNCHANGED <<endpoint, received, admin, faults, changes>>

\* The UPDATE of mark_attempt_failed: another attempt after the delay, or given up
\* without one.  Nothing is updated when the row is gone, or when the CHECK refuses it.
SetFailed(d, gives_up, retry_in) ==
    delivery' = IF delivery[d].state # "queued" \/ (gives_up /\ delivery[d].delivered)
                THEN delivery
                ELSE [delivery EXCEPT ![d].attempts = @ + 1, ![d].failed = gives_up,
                                      ![d].wait = IF gives_up THEN @ ELSE retry_in]

\* Mutant: the last attempt is retried too, for ever.
mark_attempt_failed_always(w) ==
    LET d == task[w].delivery IN
    /\ task[w].pc = "error"
    /\ delivery' = IF delivery[d].state # "queued" THEN delivery
                   ELSE [delivery EXCEPT ![d].wait = retry_delay(task[w].attempts + 1)]
    /\ Forget(w)
    /\ UNCHANGED <<endpoint, received, admin, faults, changes>>

\* record of a failure, on the attempts the claim returned: retried later, or
\* given up with the last one.
mark_attempt_failed(w) ==
    /\ task[w].pc = "error"
    /\ SetFailed(task[w].delivery, task[w].attempts + 1 >= MaxAttempts,
                 retry_delay(task[w].attempts + 1))
    /\ Forget(w)
    /\ UNCHANGED <<endpoint, received, admin, faults, changes>>

\* The dispatcher stops, or cannot record the outcome.
DispatcherStops(w) ==
    /\ task[w].pc # "idle" /\ faults < MaxFaults
    /\ Forget(w)
    /\ faults' = faults + 1
    /\ UNCHANGED <<endpoint, delivery, received, admin, changes>>

-----------------------------------------------------------------------------
(***************************************************************************)
(* The administrators.                                                     *)
(***************************************************************************)
Change(kind) == kind \in Changes /\ changes < MaxChanges /\ changes' = changes + 1

\* An address an endpoint may have: HTTPS unless allowed, a host, nothing else in it.
check_url(url) ==
    /\ url.scheme = "https" \/ AllowHttp
    /\ url.host # None
    /\ url.bare

\* At least one event, all of them known.
check_events(events) == events # {} /\ events \subseteq EventNames \cup {"*"}

checked(input) == check_url(input.url) /\ check_events(input.events)

url_host(url) == url.host

\* A new secret is shown once, to the one who set the endpoint's host.
new_secret(host) == host

find_endpoint(e) == endpoint[e].state = "registered"

\* The row of a new endpoint.
create_endpoint(input) ==
    [state |-> "registered", host |-> url_host(input.url), secret |-> new_secret(url_host(input.url)),
     events |-> input.events, enabled |-> input.enabled, crossed |-> FALSE]

\* The row with its new settings; its secret is its own.
update_endpoint(row, input) ==
    [row EXCEPT !.host = url_host(input.url), !.events = input.events, !.enabled = input.enabled]

replace_secret(row, secret) == [row EXCEPT !.secret = secret, !.crossed = FALSE]

delete_endpoint(row) == [row EXCEPT !.state = "deleted"]

\* Its deliveries go with an endpoint.
DropDeliveries(e) ==
    delivery' = [d \in Deliveries |->
            IF EndpointOf[d] = e THEN [delivery[d] EXCEPT !.state = "gone"] ELSE delivery[d]]

create(e, input) ==
    /\ endpoint[e].state = "unused" /\ checked(input)
    /\ endpoint' = [endpoint EXCEPT ![e] = create_endpoint(input)]

\* update checks the settings and reads the endpoint before its transaction.
UpdateRead(a, e, input) ==
    /\ checked(input) /\ find_endpoint(e)
    /\ admin' = [admin EXCEPT ![a] = [pc |-> "update", endpoint |-> e, input |-> input,
                                      previous |-> endpoint[e].host]]

\* Mutant: an endpoint keeps its secret when it moves.
update_keeps_secret(e, previous, input) ==
    endpoint' = IF find_endpoint(e) THEN [endpoint EXCEPT ![e] = update_endpoint(@, input)]
                ELSE endpoint

\* The new settings, and a new secret if the host read before is another.
update(e, previous, input) ==
    LET host == url_host(input.url)
        row == [update_endpoint(endpoint[e], input) EXCEPT
                    !.crossed = @ \/ endpoint[e].host # previous]
    IN endpoint' = IF ~find_endpoint(e) THEN endpoint
                   ELSE [endpoint EXCEPT ![e] = IF previous # host
                                                THEN replace_secret(row, new_secret(host)) ELSE row]

rotate_secret(e) ==
    /\ find_endpoint(e)
    /\ endpoint' = [endpoint EXCEPT ![e] = replace_secret(@, new_secret(@.host))]

delete(e) ==
    /\ find_endpoint(e)
    /\ endpoint' = [endpoint EXCEPT ![e] = delete_endpoint(@)]
    /\ DropDeliveries(e)

\* The row of a delivery that is due now, with a fresh budget.
QueueAgain(row) ==
    [row EXCEPT !.attempts = 0, !.failed = FALSE, !.delivered = FALSE, !.wait = 0,
                !.round = @ + 1]

\* redeliver, whatever is running: the row is found by its id and its endpoint's.
redeliver(e, d) ==
    /\ EndpointOf[d] = e /\ delivery[d].state = "queued"
    /\ delivery' = [delivery EXCEPT ![d] = QueueAgain(@)]

\* The handlers.
CreateEndpoint ==
    /\ Change("create")
    /\ \E e \in Endpoints, input \in Inputs : create(e, input)
    /\ UNCHANGED <<delivery, received, task, admin, faults>>

StartUpdate(a) ==
    /\ admin[a].pc = "idle" /\ Change("update")
    /\ \E e \in Endpoints, input \in Inputs : UpdateRead(a, e, input)
    /\ UNCHANGED <<endpoint, delivery, received, task, faults>>

UpdateEndpoint(a) ==
    /\ admin[a].pc = "update"
    /\ update(admin[a].endpoint, admin[a].previous, admin[a].input)
    /\ admin' = [admin EXCEPT ![a] = IdleAdmin]
    /\ UNCHANGED <<delivery, received, task, faults, changes>>

RotateSecret ==
    /\ Change("secret")
    /\ \E e \in Endpoints : rotate_secret(e)
    /\ UNCHANGED <<delivery, received, task, admin, faults>>

DeleteEndpoint ==
    /\ Change("delete")
    /\ \E e \in Endpoints : delete(e)
    /\ UNCHANGED <<received, task, admin, faults>>

retry ==
    /\ Change("redeliver")
    /\ \E e \in Endpoints, d \in Deliveries : redeliver(e, d)
    /\ UNCHANGED <<endpoint, received, task, admin, faults>>

\* cleanup_finished_webhook_deliveries, once the delivery is old.
SweepFinished(d) ==
    /\ delivery[d].state = "queued" /\ ~Pending(d)
    /\ delivery' = [delivery EXCEPT ![d].state = "gone"]
    /\ UNCHANGED <<endpoint, received, task, admin, faults, changes>>

\* Time passes; an attempt takes no longer than its timeouts allow.
WebhooksTick ==
    /\ \E d \in Deliveries : delivery[d].wait > 0
    /\ \A w \in Tasks : task[w].pc # "idle" => task[w].age < AttemptTime
    /\ delivery' = [d \in Deliveries |->
            [delivery[d] EXCEPT !.wait = IF @ > 0 THEN @ - 1 ELSE 0]]
    /\ task' = [w \in Tasks |->
            IF task[w].pc = "idle" THEN task[w] ELSE [task[w] EXCEPT !.age = @ + 1]]
    /\ UNCHANGED <<endpoint, received, admin, faults, changes>>

Dispatch == \E w \in Tasks : \/ \E d \in Deliveries : claim_due(w, d)
                             \/ attempt(w) \/ mark_delivered(w) \/ mark_attempt_failed(w)

WebhooksNext ==
    \/ Dispatch
    \/ \E w \in Tasks : DispatcherStops(w)
    \/ \E d \in Deliveries : record_event(d) \/ SweepFinished(d)
    \/ \E a \in Admins : StartUpdate(a) \/ UpdateEndpoint(a)
    \/ CreateEndpoint \/ RotateSecret \/ DeleteEndpoint \/ retry
    \/ WebhooksTick

WebhooksSpec == WebhooksInit /\ [][WebhooksNext]_webhookVars

\* The dispatchers keep polling, their timeouts fire, time passes.
WebhooksFairness == WF_webhookVars(Dispatch) /\ WF_webhookVars(WebhooksTick)

-----------------------------------------------------------------------------
\* As long as nobody queued it again, a delivery is posted by one dispatcher at a
\* time, the lease outliving the attempt it was taken for, and is recorded as it went:
\* delivered if it was answered with success, given up after exactly MaxAttempts, over
\* crashes, moves and slow answers.  (One queued again may be given up by the last
\* attempt of its former budget, which records its failure by the delivery's id.)
OneAttemptAtATime ==
    \A d \in {x \in Deliveries : delivery[x].round = 0} :
        /\ Cardinality({w \in Tasks : task[w].pc # "idle" /\ task[w].delivery = d}) <= 1
        /\ delivery[d].delivered => d \in received
        /\ delivery[d].failed => delivery[d].attempts = MaxAttempts

\* The secret an endpoint signs with was made for the host it points at: a former
\* host keeps none that is still valid, whatever administrators change at once.  The
\* exception is an endpoint moved between another update's read of it and its write,
\* which compares the hosts as they were (webhooks.rs:351).
SecretIsOfTheHost ==
    \A e \in Endpoints :
        find_endpoint(e) /\ ~endpoint[e].crossed => endpoint[e].secret = endpoint[e].host

\* A recorded delivery is delivered or given up, unless its endpoint is disabled
\* or deleted: a crashed dispatcher only delays its claims.
DeliveriesEnd ==
    \A d \in Deliveries :
        delivery[d].state = "queued" ~> ~Pending(d) \/ ~endpoint[EndpointOf[d]].enabled
=============================================================================
