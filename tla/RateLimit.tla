----------------------------- MODULE RateLimit ------------------------------
(***************************************************************************)
(* The rate limiter: a sliding window estimated from the counts of two     *)
(* fixed windows, kept per bucket and per network a client comes from, and *)
(* checked for all the buckets of a route by one script.                   *)
(*                                                                         *)
(* Time is in ticks, and is the same for every instance.  The expiry of a  *)
(* key after two windows is left out: the counts of a key that old are     *)
(* taken as zero.                                                          *)
(***************************************************************************)
EXTENDS Integers, FiniteSets, Sequences

CONSTANTS
    Window,             \* WINDOW_MS
    Second,             \* ticks in a second
    RequestsPerMinute, AuthRequestsPerMinute,
    Addresses,          \* the addresses clients have
    FailOpen,           \* fail_open_on_redis_error
    AllowWithoutIp,     \* allow_requests_without_ip
    MaxNow              \* bound on time

ASSUME RateLimitAssumption ==
    /\ Window \in Nat \ {0} /\ Second \in Nat \ {0}
    \* validate refuses a limit of zero.
    /\ RequestsPerMinute \in Nat \ {0} /\ AuthRequestsPerMinute \in Nat \ {0}
    /\ Addresses \subseteq [family: {"v4", "mapped", "v6"}, net: Nat, host: Nat]
    /\ FailOpen \in BOOLEAN /\ AllowWithoutIp \in BOOLEAN

\* The buckets, in the order a request through the strict layer meets them.
Buckets == <<"rl", "rl_auth">>

Limit(b) == IF b = "rl" THEN RequestsPerMinute ELSE AuthRequestsPerMinute

\* The layers of build_router: every route counts in the general bucket, those of
\* sign-in and re-authentication in the strict one too.
Layer(strict) == IF strict THEN Buckets ELSE <<"rl">>

\* ip_bucket: an IPv4 address, mapped or not, as it is; an IPv6 address by its /64.
IpBucket(ip) == IF ip.family = "v6" THEN <<"v6", ip.net>> ELSE <<"v4", ip.net, ip.host>>

\* The clients there really are: an IPv6 subscriber has every address of a network.
Subscriber(ip) == <<ip.family = "v6", ip.net, IF ip.family = "v6" THEN 0 ELSE ip.host>>

Clients == {IpBucket(ip) : ip \in Addresses}
Subscribers == {Subscriber(ip) : ip \in Addresses}
Names == {Buckets[i] : i \in 1..Len(Buckets)}

VARIABLES
    now,
    verdict,    \* the answer to the last request
    hash,       \* {prefix}:{client}: the window, its count and the count before it
    \* history
    served,     \* requests of each subscriber that each bucket let through in the last minute
    promised    \* when a bucket said it would have a slot, while nothing was counted since

rateVars == <<now, verdict, hash, served, promised>>

Never == -1

RateInit ==
    /\ now = 0 /\ verdict = "allow"
    /\ hash = [k \in Names \X Clients |-> [w |-> Never, c |-> 0, p |-> 0]]
    /\ served = [k \in Names \X Subscribers |-> {}]
    /\ promised = [k \in Names \X Clients |-> Never]

-----------------------------------------------------------------------------
current == now \div Window
into == now % Window

\* Mutant: the count of the window before is forgotten at once.
CountsOfThis(b, c) ==
    LET h == hash[<<b, c>>] IN IF h.w = current THEN [c |-> h.c, p |-> 0] ELSE [c |-> 0, p |-> 0]

\* The two counts as of now.
Counts(b, c) ==
    LET h == hash[<<b, c>>] IN
    CASE h.w = current      -> [c |-> h.c, p |-> h.p]
      [] h.w = current - 1 /\ h.w # Never -> [c |-> 0, p |-> h.c]
      [] OTHER              -> [c |-> 0, p |-> 0]

\* p * (1 - into) + c + 1 > limit, times the window.
Over(b, n) == n.p * (Window - into) + (n.c + 1) * Window > Limit(b) * Window

\* Only the previous window is in the way.
Decays(b, n) == n.c + 1 <= Limit(b) /\ n.p > 0

\* The ticks until a slot: rounded up, at least one.
Wait(b, n) ==
    IF Decays(b, n)
    THEN LET needed == n.p * (Window - into) + (n.c + 1 - Limit(b)) * Window
         IN (needed + n.p - 1) \div n.p
    ELSE Window - into

\* retry_after_secs: whole seconds, rounded up, never none.
RetryAfter(wait) == LET secs == (wait + Second - 1) \div Second IN IF secs < 1 THEN 1 ELSE secs

\* The buckets a script call counts a request in: all of the layer, or none.
CountedIn(c, layer) ==
    IF \E i \in 1..Len(layer) : Over(layer[i], Counts(layer[i], c)) THEN {}
    ELSE {layer[i] : i \in 1..Len(layer)}

\* The first bucket that refuses.
Refusing(c, layer) ==
    LET over == {i \in 1..Len(layer) : Over(layer[i], Counts(layer[i], c))}
    IN layer[CHOOSE i \in over : \A j \in over : i <= j]

\* The limiter's answer to a client.
Answer(c, layer) ==
    IF \E i \in 1..Len(layer) : Over(layer[i], Counts(layer[i], c)) THEN "wait" ELSE "clear"

\* rate_limit_verdict: an answer decides, and only an outage follows the fallback.
Verdict(answer) ==
    CASE answer = "clear"       -> "allow"
      [] answer = "wait"        -> "refuse"
      [] answer = "unreachable" -> IF FailOpen THEN "allow" ELSE "unavailable"

\* Of the requests let through, those of this instant and of this window; one more now.
AtOnce(reqs) == {x \in reqs : x.at = now}
ThisWindow(reqs) == {x \in reqs : x.at >= now - into}
WithOneMore(reqs) == reqs \cup {[at |-> now, n |-> Cardinality(AtOnce(reqs)) + 1]}

\* SLIDING_WINDOW, for a client that shows address ip.
Check(ip, layer) ==
    LET c == IpBucket(ip)
        counted == CountedIn(c, layer)
        clear == Answer(c, layer) = "clear"
    IN
    /\ hash' = [k \in DOMAIN hash |->
            IF k[2] = c /\ k[1] \in counted
            THEN LET n == Counts(k[1], c) IN [w |-> current, c |-> n.c + 1, p |-> n.p]
            ELSE hash[k]]
    /\ served' = [k \in DOMAIN served |->
            IF clear /\ k[2] = Subscriber(ip) /\ k[1] \in {layer[i] : i \in 1..Len(layer)}
            THEN WithOneMore(served[k]) ELSE served[k]]
    /\ promised' = IF clear
                   THEN [k \in DOMAIN promised |->
                            IF k[2] = c /\ k[1] \in counted
                            THEN Never ELSE promised[k]]
                   ELSE LET b == Refusing(c, layer)
                            n == Counts(b, c)
                        IN [promised EXCEPT ![<<b, c>>] = now + RetryAfter(Wait(b, n)) * Second]

\* layer_with_state: checked, or, without Redis or an address to go by, let through
\* or refused and counted nowhere.
LayerWithState ==
    /\ \/ \E ip \in Addresses, strict \in BOOLEAN :
            /\ Check(ip, Layer(strict))
            /\ verdict' = Verdict(Answer(IpBucket(ip), Layer(strict)))
       \/ /\ verdict' = Verdict("unreachable")
          /\ UNCHANGED <<hash, served, promised>>
       \/ /\ verdict' = IF AllowWithoutIp THEN "allow" ELSE "unavailable"
          /\ UNCHANGED <<hash, served, promised>>
    /\ UNCHANGED now

RateTick ==
    /\ now < MaxNow
    /\ now' = now + 1
    /\ served' = [k \in DOMAIN served |-> {x \in served[k] : x.at > now' - Window}]
    /\ UNCHANGED <<verdict, hash, promised>>

RateNext == LayerWithState \/ RateTick

RateSpec == RateInit /\ [][RateNext]_rateVars

-----------------------------------------------------------------------------
\* check: in any minute, not only in the fixed ones, a subscriber gets fewer than
\* twice the limit through, however the requests are spread over addresses, and in a
\* fixed one the limit at most; and what a bucket counts in this window is what it let
\* through, so a request another bucket refuses consumes nothing.
AtMostTwiceTheLimit ==
    \A b \in Names, s \in Subscribers :
        /\ Cardinality(served[<<b, s>>]) < 2 * Limit(b)
        /\ Cardinality(ThisWindow(served[<<b, s>>])) <= Limit(b)
        /\ \A ip \in Addresses : Subscriber(ip) = s =>
                Counts(b, IpBucket(ip)).c = Cardinality(ThisWindow(served[<<b, s>>]))

\* retry_after_secs: "a client waiting that long finds a free slot".  It does, alone in
\* its bucket, when only the count of the earlier window was in the way; it does not when
\* this window is itself full: once it turns, its count weighs in full as the earlier one.
WaitingFindsASlot ==
    \A k \in DOMAIN promised :
        promised[k] # Never /\ now >= promised[k] => ~Over(k[1], Counts(k[1], k[2]))
=============================================================================
