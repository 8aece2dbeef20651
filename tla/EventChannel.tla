---------------------------- MODULE EventChannel ----------------------------
(***************************************************************************)
(* What an outbox promises whoever listens, without tables, relays or a    *)
(* broker.  A change announces its events when it commits, behind all that *)
(* was announced about the same user.  Listeners are told each event, at   *)
(* least once, and first after everything announced ahead of it; the       *)
(* service lets go of an event only once they were told.                   *)
(***************************************************************************)
CONSTANTS Events,
          Related       \* pairs of events told in the order they were announced

VARIABLES announced,    \* events of committed changes
          ahead,        \* <<e, f>>: e was announced ahead of f
          told,         \* events listeners were told, once or more
          settled       \* events the service is done with

vars == <<announced, ahead, told, settled>>

Init == announced = {} /\ ahead = {} /\ told = {} /\ settled = {}

\* An order of the events of one change, total where they are related.
Orders(es) ==
    {order \in SUBSET (Related \cap (es \X es)) :
        \A e, f \in es : <<e, f>> \in Related /\ e # f => (<<e, f>> \in order <=> <<f, e>> \notin order)}

Announce(es) ==
    /\ es \cap announced = {}
    /\ announced' = announced \cup es
    /\ \E order \in Orders(es) : ahead' = ahead \cup order \cup (Related \cap (announced \X es))
    /\ UNCHANGED <<told, settled>>

Tell(e) ==
    /\ e \in announced /\ \A f \in announced : <<f, e>> \in ahead => f \in told
    /\ told' = told \cup {e}
    /\ UNCHANGED <<announced, ahead, settled>>

Settle(e) ==
    /\ e \in told
    /\ settled' = settled \cup {e}
    /\ UNCHANGED <<announced, ahead, told>>

Next ==
    \/ \E es \in SUBSET Events : Announce(es)
    \/ \E e \in Events : Tell(e) \/ Settle(e)

Spec == Init /\ [][Next]_vars
=============================================================================
