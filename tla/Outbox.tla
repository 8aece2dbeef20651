------------------------------- MODULE Outbox -------------------------------
(***************************************************************************)
(* The transactional outbox of domain events.  A service records an event  *)
(* in the transaction of the change it announces; the relay of one         *)
(* instance at a time publishes the pending events to JetStream in order   *)
(* of their sequence numbers and marks each one published once it is       *)
(* stored.  Publications are lost, delayed or acknowledged too late, the   *)
(* connection that holds the relay's lock drops, instances crash.          *)
(*                                                                         *)
(* Delays are countdowns, so time passes without a clock to bound.         *)
(***************************************************************************)
EXTENDS Integers, FiniteSets, Sequences

CONSTANTS
    Txs,          \* the transactions that announce changes
    Events,
    TxOf,         \* [Events -> Txs]
    UserOf,       \* [Txs -> users]
    Locking,      \* transactions that update the users row before they enqueue
    Relays,       \* instances of the service
    Batch,        \* RELAY_BATCH
    RelayFirstRetry,
    RelayMaxRetry,
    DupWindow,    \* DUPLICATE_WINDOW
    MaxOutages,    \* bound on the crashes, drops and failed publications
    Nothing

ASSUME OutboxAssumption ==
    /\ TxOf \in [Events -> Txs]
    /\ Locking \subseteq Txs
    /\ Batch \in Nat \ {0}
    /\ RelayFirstRetry \in Nat \ {0} /\ RelayMaxRetry \in Nat \ {0}
    /\ DupWindow \in Nat
    /\ MaxOutages \in Nat
    /\ Nothing \notin Relays

VARIABLES
    tx,        \* the transactions
    seq,       \* event_outbox.seq, 0 until the event is recorded
    nextSeq,   \* the identity sequence, which no rollback takes back
    row,       \* the other columns of event_outbox
    lock,      \* the relay holding the advisory lock
    relay,     \* the relays
    orphans,   \* publications still on their way that nobody waits for
    stream,    \* the messages JetStream stored
    window,    \* for how long JetStream still knows a message id
    outages

outboxVars == <<tx, seq, nextSeq, row, lock, relay, orphans, stream, window, outages>>
producerVars == <<tx, seq, nextSeq>>
brokerVars == <<orphans, stream, window>>

TxStates == {"idle", "open", "committed", "rolledBack"}

Relay == [pc: {"idle", "locked", "next", "wait", "mark", "failed"}, batch: SUBSET Events,
          due: SUBSET Events, event: Events \cup {Nothing}, acked: BOOLEAN, conn: BOOLEAN]

IdleRelay == [pc |-> "idle", batch |-> {}, due |-> {}, event |-> Nothing,
              acked |-> FALSE, conn |-> TRUE]

OutboxInit ==
    /\ tx = [t \in Txs |-> "idle"]
    /\ seq = [e \in Events |-> 0]
    /\ nextSeq = 1
    /\ row = [e \in Events |-> [published |-> FALSE, swept |-> FALSE, attempts |-> 0, wait |-> 0]]
    /\ lock = Nothing
    /\ relay = [r \in Relays |-> IdleRelay]
    /\ orphans = [e \in Events |-> 0]
    /\ stream = <<>>
    /\ window = [e \in Events |-> 0]
    /\ outages = 0

-----------------------------------------------------------------------------
\* relay_retry_delay: doubling from the first delay, six times at most, up to a ceiling.
relay_retry_delay(failed_attempts) ==
    IF failed_attempts <= 0 THEN 0
    ELSE LET doublings == IF failed_attempts - 1 < 6 THEN failed_attempts - 1 ELSE 6
             delay == RelayFirstRetry * 2^doublings
         IN IF delay < RelayMaxRetry THEN delay ELSE RelayMaxRetry

Committed(e) == seq[e] # 0 /\ tx[TxOf[e]] = "committed"

\* The unpublished events a query sees.
pending == {e \in Events : Committed(e) /\ ~row[e].published}

\* head: the oldest of them.
head == {e \in pending : Cardinality({f \in pending : seq[f] < seq[e]}) < Batch}

-----------------------------------------------------------------------------
(***************************************************************************)
(* The services.  An UPDATE of the users row before the event is recorded  *)
(* keeps other such transactions of that user waiting until the commit.    *)
(***************************************************************************)
\* Mutant: the users row is updated after the event is recorded.
BeginTxUnlocked(t) ==
    /\ tx[t] = "idle"
    /\ tx' = [tx EXCEPT ![t] = "open"]
    /\ UNCHANGED <<seq, nextSeq, row, lock, relay, brokerVars, outages>>

\* A transaction, with the UPDATE if it has one.
BeginTx(t) ==
    /\ tx[t] = "idle"
    /\ t \in Locking =>
        \A u \in Locking : UserOf[u] = UserOf[t] => tx[u] # "open"
    /\ tx' = [tx EXCEPT ![t] = "open"]
    /\ UNCHANGED <<seq, nextSeq, row, lock, relay, brokerVars, outages>>

\* record_event: the sequence number is taken now, and seen at the commit.
enqueue(e) ==
    /\ tx[TxOf[e]] = "open"
    /\ seq[e] = 0
    /\ seq' = [seq EXCEPT ![e] = nextSeq]
    /\ nextSeq' = nextSeq + 1
    /\ UNCHANGED <<tx, row, lock, relay, brokerVars, outages>>

CommitTx(t) ==
    /\ tx[t] = "open"
    /\ \A e \in Events : TxOf[e] = t => seq[e] # 0
    /\ tx' = [tx EXCEPT ![t] = "committed"]
    /\ UNCHANGED <<seq, nextSeq, row, lock, relay, brokerVars, outages>>

RollbackTx(t) ==
    /\ tx[t] = "open"
    /\ tx' = [tx EXCEPT ![t] = "rolledBack"]
    /\ UNCHANGED <<seq, nextSeq, row, lock, relay, brokerVars, outages>>

-----------------------------------------------------------------------------
(***************************************************************************)
(* JetStream: a message id known for less than the window is acknowledged  *)
(* and not stored again.                                                   *)
(***************************************************************************)
Store(e) ==
    IF window[e] > 0
    THEN UNCHANGED <<stream, window>>
    ELSE /\ stream' = Append(stream, e)
         /\ window' = [window EXCEPT ![e] = DupWindow]

StoreAwaited(r) ==
    /\ relay[r].pc = "wait" /\ ~relay[r].acked
    /\ Store(relay[r].event)
    /\ relay' = [relay EXCEPT ![r].acked = TRUE]
    /\ UNCHANGED <<producerVars, row, lock, orphans, outages>>

StoreOrphan(e) ==
    /\ orphans[e] > 0
    /\ orphans' = [orphans EXCEPT ![e] = @ - 1]
    /\ Store(e) \/ UNCHANGED <<stream, window>>   \* it arrives, or is lost
    /\ UNCHANGED <<producerVars, row, lock, relay, outages>>

\* A publication whose relay stops waiting is still on its way.
Abandon(r) ==
    orphans' = IF relay[r].pc = "wait" /\ ~relay[r].acked
               THEN [orphans EXCEPT ![relay[r].event] = @ + 1]
               ELSE orphans

-----------------------------------------------------------------------------
(***************************************************************************)
(* relay_once and publish_pending.                                         *)
(***************************************************************************)
\* The end of a run: the lock goes, with the connection if need be.
Unlock(r) ==
    /\ lock' = IF lock = r THEN Nothing ELSE lock
    /\ relay' = [relay EXCEPT ![r] = IdleRelay]

\* Something is pending and pg_try_advisory_lock answers true.
RelayBegin(r) ==
    /\ relay[r].pc = "idle"
    /\ pending # {}
    /\ lock = Nothing
    /\ lock' = r
    /\ relay' = [relay EXCEPT ![r] = [IdleRelay EXCEPT !.pc = "locked"]]
    /\ UNCHANGED <<producerVars, row, brokerVars, outages>>

\* head, with whether each event is due.
RelayHead(r) ==
    /\ relay[r].pc = "locked" /\ relay[r].conn
    /\ relay' = [relay EXCEPT ![r].pc = "next", ![r].batch = head,
                              ![r].due = {e \in head : row[e].wait = 0}]
    /\ UNCHANGED <<producerVars, row, lock, brokerVars, outages>>

\* ensure_user_stream_once fails: the events wait.
StreamUnavailable(r) ==
    /\ relay[r].pc = "locked" /\ outages < MaxOutages
    /\ Unlock(r)
    /\ outages' = outages + 1
    /\ UNCHANGED <<producerVars, row, brokerVars>>

IsOldest(e, S) == e \in S /\ \A f \in S : seq[e] <= seq[f]

\* publish_one hands the oldest event of the batch over, if it is due.
RelayPublish(r) ==
    /\ relay[r].pc = "next"
    /\ \E e \in relay[r].due :
        /\ IsOldest(e, relay[r].batch)
        /\ relay' = [relay EXCEPT ![r].pc = "wait", ![r].event = e, ![r].acked = FALSE,
                                  ![r].batch = @ \ {e}]
    /\ UNCHANGED <<producerVars, row, lock, brokerVars, outages>>

\* The batch is done, or its oldest event is not due: the others wait behind it.
RelayEnd(r) ==
    /\ relay[r].pc = "next"
    /\ \A e \in relay[r].batch : IsOldest(e, relay[r].batch) => e \notin relay[r].due
    /\ Unlock(r)
    /\ UNCHANGED <<producerVars, row, brokerVars, outages>>

RelayAcked(r) ==
    /\ relay[r].pc = "wait" /\ relay[r].acked
    /\ relay' = [relay EXCEPT ![r].pc = "mark"]
    /\ UNCHANGED <<producerVars, row, lock, brokerVars, outages>>

\* ACKED_PUBLISH_TIMEOUT, or an error: the broker may have the message, have it
\* later, or never.
RelayTimeout(r) ==
    /\ relay[r].pc = "wait" /\ outages < MaxOutages
    /\ Abandon(r)
    /\ relay' = [relay EXCEPT ![r].pc = "failed"]
    /\ outages' = outages + 1
    /\ UNCHANGED <<producerVars, row, lock, stream, window>>

\* mark_published, on the connection that holds the lock.
RelayMark(r) ==
    LET e == relay[r].event IN
    /\ relay[r].pc = "mark" /\ relay[r].conn
    /\ row' = [row EXCEPT ![e].published = TRUE]
    /\ relay' = [relay EXCEPT ![r].pc = "next", ![r].event = Nothing]
    /\ UNCHANGED <<producerVars, lock, brokerVars, outages>>

\* Mutant: a failed publication does not hold the queue.
RelayFailGoesOn(r) ==
    LET e == relay[r].event IN
    /\ relay[r].pc = "failed" /\ relay[r].conn
    /\ row' = [row EXCEPT ![e].attempts = @ + 1, ![e].wait = relay_retry_delay(row[e].attempts + 1)]
    /\ relay' = [relay EXCEPT ![r].pc = "next", ![r].event = Nothing]
    /\ UNCHANGED <<producerVars, lock, brokerVars, outages>>

\* mark_failed, and the end of the run.
RelayFail(r) ==
    LET e == relay[r].event IN
    /\ relay[r].pc = "failed" /\ relay[r].conn
    /\ row' = [row EXCEPT ![e].attempts = @ + 1, ![e].wait = relay_retry_delay(row[e].attempts + 1)]
    /\ Unlock(r)
    /\ UNCHANGED <<producerVars, brokerVars, outages>>

\* A query on the dropped connection fails and ends the run.
RelayError(r) ==
    /\ relay[r].pc \in {"locked", "mark", "failed"} /\ ~relay[r].conn
    /\ Unlock(r)
    /\ UNCHANGED <<producerVars, row, brokerVars, outages>>

\* The relay's connection drops: PostgreSQL releases its lock, the relay does not
\* know until its next query.
ConnectionDrops(r) ==
    /\ relay[r].pc # "idle" /\ relay[r].conn /\ outages < MaxOutages
    /\ lock' = Nothing
    /\ relay' = [relay EXCEPT ![r].conn = FALSE]
    /\ outages' = outages + 1
    /\ UNCHANGED <<producerVars, row, brokerVars>>

\* Mutant: the lock outlives the run that took it.
RelayCrashKeepsLock(r) ==
    /\ relay[r].pc # "idle" /\ outages < MaxOutages
    /\ Abandon(r)
    /\ relay' = [relay EXCEPT ![r] = IdleRelay]
    /\ outages' = outages + 1
    /\ UNCHANGED <<producerVars, row, lock, stream, window>>

\* The instance stops anywhere and starts again.
RelayCrash(r) ==
    /\ relay[r].pc # "idle" /\ outages < MaxOutages
    /\ Abandon(r)
    /\ Unlock(r)
    /\ outages' = outages + 1
    /\ UNCHANGED <<producerVars, row, stream, window>>

-----------------------------------------------------------------------------
\* cleanup_published_events, once the event is old enough.
SweepPublished(e) ==
    /\ row[e].published /\ ~row[e].swept
    /\ row' = [row EXCEPT ![e].swept = TRUE]
    /\ UNCHANGED <<producerVars, lock, relay, brokerVars, outages>>

\* Time passes.
Less(n) == IF n > 0 THEN n - 1 ELSE 0

RelayTick ==
    /\ \E e \in Events : row[e].wait > 0 \/ window[e] > 0
    /\ row' = [e \in Events |-> [row[e] EXCEPT !.wait = Less(@)]]
    /\ window' = [e \in Events |-> Less(window[e])]
    /\ UNCHANGED <<producerVars, lock, relay, orphans, stream, outages>>

RelayStep(r) ==
    \/ RelayBegin(r) \/ RelayHead(r) \/ RelayPublish(r) \/ RelayEnd(r)
    \/ RelayAcked(r) \/ RelayMark(r) \/ RelayFail(r) \/ RelayError(r)

OutboxNext ==
    \/ \E t \in Txs : BeginTx(t) \/ CommitTx(t) \/ RollbackTx(t)
    \/ \E e \in Events : enqueue(e) \/ StoreOrphan(e) \/ SweepPublished(e)
    \/ \E r \in Relays : \/ RelayStep(r) \/ StoreAwaited(r)
                         \/ StreamUnavailable(r) \/ RelayTimeout(r)
                         \/ ConnectionDrops(r) \/ RelayCrash(r)
    \/ RelayTick

OutboxSpec == OutboxInit /\ [][OutboxNext]_outboxVars

\* The instances keep polling, the broker answers, time passes; a fault need not
\* happen.
OutboxFairness ==
    /\ WF_outboxVars(\E r \in Relays : RelayStep(r))
    /\ \A r \in Relays : WF_outboxVars(StoreAwaited(r))
    /\ WF_outboxVars(RelayTick)

-----------------------------------------------------------------------------
\* The position of the first copy of e in the stream.
FirstAt(e) == CHOOSE i \in 1..Len(stream) :
                  stream[i] = e /\ \A j \in 1..(i - 1) : stream[j] # e
Stored(e) == \E i \in 1..Len(stream) : stream[i] = e

SameUser(e, f) == UserOf[TxOf[e]] = UserOf[TxOf[f]]

\* What consumers are told is what was committed, in its order: a rolled-back change
\* announces nothing; mark_published and retention only follow the acknowledgement,
\* whichever relay, timeout, crash or lost connection came between; and of the events of
\* one user that locking transactions recorded, no retry, crash or second relay lets one
\* overtake another.
StreamIsTheHistory ==
    /\ \A e \in Events :
        /\ Stored(e) => Committed(e)
        /\ row[e].published \/ row[e].swept => Stored(e)
    /\ \A e, f \in Events :
        /\ SameUser(e, f) /\ TxOf[e] \in Locking /\ TxOf[f] \in Locking
        /\ Stored(f) /\ Committed(e) /\ seq[e] < seq[f]
        => Stored(e) /\ FirstAt(e) < FirstAt(f)

\* A committed change always gets its event, once the faults stop.
CommittedIsPublished ==
    \A e \in Events : Committed(e) ~> (row[e].published /\ Stored(e))

\* The channel the outbox is: an event is announced by the commit, told when it is first in
\* the stream, settled when its row is marked or swept.
Announced == {e \in Events : Committed(e)}
Locked == {p \in Events \X Events :
              SameUser(p[1], p[2]) /\ TxOf[p[1]] \in Locking /\ TxOf[p[2]] \in Locking}
AheadOf == {p \in Locked : Committed(p[1]) /\ Committed(p[2]) /\ seq[p[1]] < seq[p[2]]}
Told == {e \in Events : Stored(e)}
Marked == {e \in Events : row[e].published \/ row[e].swept}

Channel == INSTANCE EventChannel
               WITH Related <- Locked, announced <- Announced, ahead <- AheadOf,
                    told <- Told, settled <- Marked

\* Sequence numbers taken before the commit, batches, retries, duplicates, crashes and relays
\* at once come to that: every step of the services, of a relay and of JetStream announces the
\* events of a change behind those of the user's earlier ones, tells the next one or one
\* already told, settles one that was told, or changes none of it.
ImplementsChannel == Channel!Spec
=============================================================================
