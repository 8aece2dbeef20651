---------------------------- MODULE RequestSteps ----------------------------
(***************************************************************************)
(* The requests that run at once, for the modules that follow a request    *)
(* from one call to the database or Redis to the next.  A request's serial *)
(* number stands for whatever it draws at random: a row id, a secret, a    *)
(* batch of codes, a challenge.                                            *)
(***************************************************************************)
EXTENDS Integers, FiniteSets

CONSTANTS
    Reqs,           \* requests running at once
    MaxRequests,    \* bound on requests started
    None

ASSUME RequestsAssumption == MaxRequests \in Nat /\ None \notin Reqs

VARIABLES
    req,            \* where each request is, and what it has read
    started         \* requests started so far

Idle == [pc |-> "idle"]

RequestsInit == req = [r \in Reqs |-> Idle] /\ started = 0

Serial == started + 1

Counted == started < MaxRequests /\ started' = Serial

Begin(r, record) ==
    /\ req[r] = Idle /\ Counted
    /\ req' = [req EXCEPT ![r] = record]

\* A request of one step.
Single == Counted /\ UNCHANGED req

Goto(r, pc) == req' = [req EXCEPT ![r].pc = pc] /\ UNCHANGED started
Done(r) == req' = [req EXCEPT ![r] = Idle] /\ UNCHANGED started
=============================================================================
