----------------------------- MODULE MCSurface ------------------------------
(***************************************************************************)
(* The parts of the service that share no state with another, explored one *)
(* at a time: enrolment, the other ways in, the registered clients, the    *)
(* proof of the password again, the rate limiter and the audit log.        *)
(***************************************************************************)
EXTENDS Enrolment, AccessItems, RegisteredClients, Reauth, RateLimit, AuditLog, TLC

CONSTANTS
    Parts,
    MaxEnrolment,   \* bounds on the requests of these parts
    MaxExternal,
    MaxClients,
    MaxReauth,
    MaxUpkeep,      \* bound on the entries written beside the retention task
    MaxReading      \* bound on the months a reader may take

VARIABLE part

vars == <<part, req, started, enrolmentVars, accessVars, clientVars, reauthVars, rateVars, auditVars>>

MCAddresses == [family: {"v6"}, net: {1}, host: {1, 2}]

Init ==
    /\ part \in Parts /\ EnrolmentInit /\ AccessInit /\ ClientsInit
    /\ ReauthInit /\ RateInit /\ AuditInit
    /\ RequestsInit
    \* The part explored starts from each of its initial states, the others from one.
    /\ part # "enrolment" => \A k \in Kinds : row[k] = NoRow
    /\ part # "passkeys" => \A p \in Passkeys : sign_count[p] = 0
    /\ part # "external" => \A s \in Subjects : identity[s] = NoIdentity
    /\ part # "clients" => \A c \in ClientIds : client[c] = NoClient
    /\ part \notin {"upkeep", "reading"} => \A p \in People : people[p] = "active"

\* Requests of one of the parts that have some.
RequestNext ==
    \/ /\ part = "enrolment" /\ EnrolmentNext /\ started' <= MaxEnrolment
       /\ UNCHANGED <<accessVars, clientVars, reauthVars>>
    \/ part = "passkeys" /\ (PasskeyNext \/ AccessDrop) /\ UNCHANGED <<enrolmentVars, clientVars, reauthVars>>
    \/ /\ part = "external" /\ (ExternalNext \/ AccessDrop) /\ started' <= MaxExternal
       /\ UNCHANGED <<enrolmentVars, clientVars, reauthVars>>
    \/ part = "tokens" /\ (PatNext \/ AccessDrop) /\ UNCHANGED <<enrolmentVars, clientVars, reauthVars>>
    \/ /\ part = "clients" /\ ClientsNext /\ started' <= MaxClients
       /\ UNCHANGED <<enrolmentVars, accessVars, reauthVars>>
    \/ /\ part = "reauth" /\ ReauthNext /\ started' <= MaxReauth
       /\ UNCHANGED <<enrolmentVars, accessVars, clientVars>>

requestVars == <<req, started, enrolmentVars, accessVars, clientVars, reauthVars>>

Next ==
    /\ UNCHANGED part
    /\ \/ RequestNext /\ UNCHANGED <<rateVars, auditVars>>
       \/ part = "rate" /\ RateNext /\ UNCHANGED <<requestVars, auditVars>>
       \/ /\ part = "upkeep" /\ UpkeepNext /\ Cardinality(logged') <= MaxUpkeep
          /\ UNCHANGED <<requestVars, rateVars>>
       \/ /\ part = "reading" /\ ReadNext /\ month' <= MaxReading
          /\ UNCHANGED <<requestVars, rateVars>>

Spec == Init /\ [][Next]_vars

Symmetry == Permutations(Reqs) \cup Permutations(Browsers) \cup Permutations(Users)
            \cup Permutations(OwnSessions)
=============================================================================
