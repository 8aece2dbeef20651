------------------------------ MODULE MCEvents ------------------------------
(***************************************************************************)
(* The two ways an event leaves the service, explored one at a time: the   *)
(* relay of the outbox, with two changes of one user, and the dispatchers  *)
(* of webhooks, with one endpoint.  They share no state.                   *)
(***************************************************************************)
EXTENDS Outbox, Webhooks

CONSTANTS t1, t2, e1, e2, shop, depot, hook

VARIABLE part

vars == <<part, outboxVars, webhookVars>>

MCTxOf == [e \in Events |-> IF e = e1 THEN t1 ELSE t2]
MCUserOf == [t \in Txs |-> "u1"]

MCEndpointOf == [d \in Deliveries |-> hook]
MCEventOf == [d \in Deliveries |-> "deleted"]

\* Both hosts, on and off, one subscription too few, and addresses that are refused.
MCInputs ==
    LET Url(scheme, host, bare) == [scheme |-> scheme, host |-> host, bare |-> bare] IN
    {[url |-> Url("https", h, TRUE), events |-> {"*"}, enabled |-> on] : h \in Hosts, on \in BOOLEAN}
    \cup {[url |-> Url("https", shop, TRUE), events |-> ev, enabled |-> TRUE] :
              ev \in {{"created"}, {"deleted"}, {}, {"other", "*"}}}
    \cup {[url |-> u, events |-> {"*"}, enabled |-> TRUE] :
              u \in {Url("http", shop, TRUE), Url("https", None, TRUE), Url("https", depot, FALSE)}}

Init ==
    /\ part \in {"relay", "webhooks"} /\ OutboxInit /\ WebhooksInit
    /\ part = "relay" => \A e \in Endpoints : endpoint[e].state = "unused" /\ endpoint[e].host = shop

Next ==
    /\ UNCHANGED part
    /\ \/ part = "relay" /\ OutboxNext /\ UNCHANGED webhookVars
       \/ part = "webhooks" /\ WebhooksNext /\ UNCHANGED outboxVars

Spec == Init /\ [][Next]_vars

\* The part that is not explored has nothing to do.
FairSpec == Spec /\ OutboxFairness /\ WebhooksFairness
=============================================================================
