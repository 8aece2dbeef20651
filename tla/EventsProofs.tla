---------------------------- MODULE EventsProofs ----------------------------
(***************************************************************************)
(* The two ways an event leaves the service, for any number of             *)
(* transactions, events, relays, endpoints, dispatchers and faults.        *)
(***************************************************************************)
EXTENDS Outbox, Webhooks, FiniteSetTheorems, SequenceTheorems, TLAPS

-----------------------------------------------------------------------------
(***************************************************************************)
(* The outbox.  Transactions that lock the same user do not overlap, so    *)
(* whatever is numbered before a committed event of that user is decided   *)
(* by then, and a batch, the oldest pending events, holds all of it that   *)
(* is not stored yet.  A relay goes on to the next event of its batch only *)
(* once the one before is stored.  The argument needs no word about the    *)
(* relays' lock: it spares duplicates, it does not keep the order.         *)
(***************************************************************************)
Over == {"committed", "rolledBack"}
SameLock(e, f) == SameUser(e, f) /\ TxOf[e] \in Locking /\ TxOf[f] \in Locking

\* e is committed, with transactions t and numbers sq; e is to be told before f.
Comm(t, sq, e) == sq[e] # 0 /\ t[TxOf[e]] = "committed"
Ahead(t, sq, e, f) == SameLock(e, f) /\ Comm(t, sq, e) /\ sq[e] < sq[f]

\* i is the place of the first copy of e in the stream st.
IsFirst(st, e, i) == i \in 1..Len(st) /\ st[i] = e /\ \A j \in 1..(i - 1) : st[j] # e
In(st, e) == \E i \in 1..Len(st) : st[i] = e
Before(st, e, f) == \E i, k \in 1..Len(st) : IsFirst(st, e, i) /\ IsFirst(st, f, k) /\ i < k

RowsTyped(rows) == /\ rows = [e \in Events |-> rows[e]]
                   /\ \A e \in Events : "published" \in DOMAIN rows[e] /\ "swept" \in DOMAIN rows[e]

OutboxTyped ==
    /\ tx \in [Txs -> TxStates] /\ seq \in [Events -> Nat] /\ nextSeq \in Nat \ {0}
    /\ RowsTyped(row) /\ relay \in [Relays -> Relay] /\ orphans \in [Events -> Nat]
    /\ stream \in Seq(Events) /\ window \in [Events -> Nat]

\* The numbers, and the transactions that took them.
NumberInv ==
    /\ \A e \in Events : seq[e] < nextSeq /\ (seq[e] # 0 => tx[TxOf[e]] # "idle")
    /\ IsFiniteSet({e \in Events : seq[e] # 0})
    /\ \A t, u \in Locking : t # u /\ UserOf[t] = UserOf[u] => tx[t] # "open" \/ tx[u] # "open"
    /\ \A e, f \in Events : SameLock(e, f) /\ TxOf[e] # TxOf[f] /\ seq[e] # 0 /\ seq[e] < seq[f] =>
         tx[TxOf[e]] \in Over

\* What a relay x has in hand: all of it committed, and what is to be told before an event of
\* its batch stored, in the batch too, or the event it is publishing.
Busy(x) == x.pc \in {"wait", "mark", "failed"}
InHand(x, t, sq, st) ==
    /\ \A f \in x.batch : Comm(t, sq, f)
    /\ Busy(x) => x.event \in Events /\ Comm(t, sq, x.event)
    /\ (x.pc = "wait" /\ x.acked) \/ x.pc = "mark" => In(st, x.event)
    /\ \A e \in Events, f \in x.batch : Ahead(t, sq, e, f) =>
         In(st, e) \/ e \in x.batch \/ (Busy(x) /\ e = x.event)
    /\ Busy(x) => \A e \in Events : Ahead(t, sq, e, x.event) => In(st, e)
RelayInv == \A r \in Relays : InHand(relay[r], tx, seq, stream)

\* A publication nobody waits for may still arrive.
OrphanInv ==
    \A f \in Events : orphans[f] > 0 =>
        Comm(tx, seq, f) /\ \A e \in Events : Ahead(tx, seq, e, f) => In(stream, e)

StreamInv ==
    /\ \A f \in Events : In(stream, f) =>
         Comm(tx, seq, f) /\ \E k \in 1..Len(stream) : IsFirst(stream, f, k)
    /\ \A e, f \in Events : In(stream, f) /\ Ahead(tx, seq, e, f) => Before(stream, e, f)

\* What JetStream and the table remember of a stored event.
StoredInv ==
    /\ \A e \in Events : window[e] > 0 => In(stream, e)
    /\ \A e \in Events : row[e].published \/ row[e].swept => In(stream, e)

OutboxInv == OutboxTyped /\ NumberInv /\ RelayInv /\ OrphanInv /\ StreamInv /\ StoredInv

LEMMA IdleRelayOK ==
    /\ IdleRelay \in Relay /\ IdleRelay.pc = "idle" /\ IdleRelay.batch = {}
    /\ \A t, sq, st : InHand(IdleRelay, t, sq, st)
<1>1. IdleRelay \in Relay /\ IdleRelay.pc = "idle" /\ IdleRelay.batch = {}
  BY DEF IdleRelay, Relay
<1> QED  BY <1>1 DEF InHand, Busy

LEMMA OutboxInitOK == OutboxInit => OutboxInv
<1> SUFFICES ASSUME OutboxInit PROVE OutboxInv
  OBVIOUS
<1>1. Len(stream) = 0 /\ stream \in Seq(Events) /\ \A e : ~In(stream, e)
  <2>1. stream = <<>>
    BY DEF OutboxInit
  <2>2. Len(stream) = 0 /\ stream \in Seq(Events)
    BY <2>1
  <2> QED  BY <2>2 DEF In
<1>2. RowsTyped(row) /\ \A e \in Events : row[e].published = FALSE /\ row[e].swept = FALSE
  BY DEF OutboxInit, RowsTyped
<1>3. OutboxTyped
  BY <1>1, <1>2, IdleRelayOK DEF OutboxInit, OutboxTyped, TxStates
<1>4. NumberInv
  <2>1. {e \in Events : seq[e] # 0} = {} /\ IsFiniteSet({})
    BY FS_EmptySet DEF OutboxInit
  <2>2. \A e \in Events : seq[e] = 0 /\ nextSeq = 1
    BY DEF OutboxInit
  <2>3. \A t \in Locking : tx[t] # "open"
    BY OutboxAssumption DEF OutboxInit
  <2> QED  BY <2>1, <2>2, <2>3 DEF NumberInv
<1>5. RelayInv
  BY IdleRelayOK DEF OutboxInit, RelayInv
<1>6. OrphanInv /\ StreamInv /\ StoredInv
  BY <1>1, <1>2 DEF OutboxInit, OrphanInv, StreamInv, StoredInv
<1> QED  BY <1>3, <1>4, <1>5, <1>6 DEF OutboxInv
-----------------------------------------------------------------------------
(***************************************************************************)
(* The services.  What is to be told before a committed event is settled.  *)
(***************************************************************************)
Settled(t, sq, t2, sq2) ==
    \A f \in Events : Comm(t, sq, f) =>
        Comm(t2, sq2, f) /\ \A e \in Events : Ahead(t2, sq2, e, f) => Ahead(t, sq, e, f)

LEMMA ProducerStep ==
    ASSUME OutboxInv, Settled(tx, seq, tx', seq'), NumberInv',
           tx' \in [Txs -> TxStates], seq' \in [Events -> Nat], nextSeq' \in Nat \ {0},
           UNCHANGED <<row, relay, brokerVars>>
    PROVE  OutboxInv'
<1>0. row' = row /\ relay' = relay /\ orphans' = orphans /\ stream' = stream /\ window' = window
  BY DEF brokerVars
<1>1. OutboxTyped'
  BY <1>0 DEF OutboxInv, OutboxTyped
<1>2. RelayInv'
  <2>1. ASSUME NEW r \in Relays PROVE InHand(relay[r], tx', seq', stream)
    <3> DEFINE x == relay[r]
    <3>1. InHand(x, tx, seq, stream) /\ x.batch \subseteq Events
      BY DEF OutboxInv, RelayInv, OutboxTyped, Relay
    <3> HIDE DEF x
    <3>2. \A f \in x.batch : /\ Comm(tx', seq', f)
                             /\ \A e \in Events : Ahead(tx', seq', e, f) => Ahead(tx, seq, e, f)
      BY <3>1 DEF InHand, Settled
    <3>3. Busy(x) => /\ x.event \in Events /\ Comm(tx', seq', x.event)
                     /\ \A e \in Events : Ahead(tx', seq', e, x.event) => Ahead(tx, seq, e, x.event)
      BY <3>1 DEF InHand, Settled
    <3>4. ASSUME NEW e \in Events, NEW f \in x.batch, Ahead(tx', seq', e, f)
          PROVE  In(stream, e) \/ e \in x.batch \/ (Busy(x) /\ e = x.event)
      <4>1. Ahead(tx, seq, e, f)
        BY <3>2, <3>4
      <4> QED  BY <4>1, <3>1 DEF InHand
    <3>5. ASSUME Busy(x), NEW e \in Events, Ahead(tx', seq', e, x.event)
          PROVE  In(stream, e)
      <4>1. Ahead(tx, seq, e, x.event)
        BY <3>3, <3>5
      <4> QED  BY <4>1, <3>1, <3>5 DEF InHand
    <3>6. (x.pc = "wait" /\ x.acked) \/ x.pc = "mark" => In(stream, x.event)
      BY <3>1 DEF InHand
    <3>7. InHand(x, tx', seq', stream)
      BY <3>2, <3>3, <3>4, <3>5, <3>6 DEF InHand
    <3> QED  BY <3>7 DEF x
  <2> QED  BY <2>1, <1>0 DEF RelayInv
<1>3. OrphanInv' /\ StreamInv' /\ StoredInv'
  BY <1>0 DEF OutboxInv, OrphanInv, StreamInv, StoredInv, Settled
<1> QED  BY <1>1, <1>2, <1>3 DEF OutboxInv

LEMMA BeginTxStep ==
    ASSUME OutboxInv, NEW t \in Txs, BeginTx(t)
    PROVE  OutboxInv'
<1>0. /\ tx' = [tx EXCEPT ![t] = "open"] /\ seq' = seq /\ nextSeq' = nextSeq /\ tx[t] = "idle"
      /\ t \in Locking => \A u \in Locking : UserOf[u] = UserOf[t] => tx[u] # "open"
      /\ UNCHANGED <<row, relay, brokerVars>>
  BY DEF BeginTx
<1>1. tx' \in [Txs -> TxStates] /\ tx'[t] = "open" /\ \A u \in Txs : u # t => tx'[u] = tx[u]
  BY <1>0 DEF OutboxInv, OutboxTyped, TxStates
<1>2. \A e \in Events : TxOf[e] \in Txs /\ (seq[e] # 0 => TxOf[e] # t)
  BY <1>0, OutboxAssumption DEF OutboxInv, NumberInv
<1>3. Settled(tx, seq, tx', seq')
  BY <1>0, <1>1, <1>2 DEF Settled, Comm, Ahead
<1>4. NumberInv'
  BY <1>0, <1>1, <1>2, OutboxAssumption DEF OutboxInv, NumberInv
<1> QED  BY <1>0, <1>1, <1>3, <1>4, ProducerStep DEF OutboxInv, OutboxTyped

LEMMA EndTxStep ==
    ASSUME OutboxInv, NEW t \in Txs, CommitTx(t) \/ RollbackTx(t)
    PROVE  OutboxInv'
<1>0. PICK over \in Over : /\ tx' = [tx EXCEPT ![t] = over] /\ tx[t] = "open"
                           /\ seq' = seq /\ nextSeq' = nextSeq /\ UNCHANGED <<row, relay, brokerVars>>
  BY DEF CommitTx, RollbackTx, Over
<1>1. tx' \in [Txs -> TxStates] /\ tx'[t] = over /\ \A u \in Txs : u # t => tx'[u] = tx[u]
  BY <1>0 DEF OutboxInv, OutboxTyped, TxStates, Over
<1>2. \A e \in Events : TxOf[e] \in Txs
  BY OutboxAssumption
<1>3. Settled(tx, seq, tx', seq')
  <2>1. ASSUME NEW f \in Events, Comm(tx, seq, f)
        PROVE  Comm(tx', seq', f) /\ \A e \in Events : Ahead(tx', seq', e, f) => Ahead(tx, seq, e, f)
    <3>1. TxOf[f] # t /\ Comm(tx', seq', f)
      BY <2>1, <1>0, <1>1, <1>2 DEF Comm
    <3>2. ASSUME NEW e \in Events, Ahead(tx', seq', e, f)
          PROVE  Ahead(tx, seq, e, f)
      <4>1. SameLock(e, f) /\ seq[e] # 0 /\ seq[e] < seq[f]
        BY <3>2, <1>0 DEF Ahead, Comm
      <4>2. TxOf[e] # t
        <5>1. CASE TxOf[e] = TxOf[f]
          BY <5>1, <3>1
        <5>2. CASE TxOf[e] # TxOf[f]
          BY <5>2, <4>1, <1>0 DEF OutboxInv, NumberInv, Over
        <5> QED  BY <5>1, <5>2
      <4> QED  BY <4>1, <4>2, <3>2, <1>0, <1>1, <1>2 DEF Ahead, Comm
    <3> QED  BY <3>1, <3>2
  <2> QED  BY <2>1 DEF Settled
<1>4. NumberInv'
  <2>1. over \in {"committed", "rolledBack"} /\ over # "open" /\ over # "idle"
    BY DEF Over
  <2>2. \A u \in Txs : /\ tx'[u] = "open" => tx[u] = "open" /\ u # t
                       /\ tx'[u] = "idle" => tx[u] = "idle"
                       /\ tx[u] \in Over => tx'[u] \in Over
    BY <2>1, <1>0, <1>1 DEF Over
  <2> QED  BY <2>2, <1>0, <1>2, OutboxAssumption DEF OutboxInv, NumberInv
<1> QED  BY <1>0, <1>1, <1>3, <1>4, ProducerStep DEF OutboxInv, OutboxTyped

LEMMA EnqueueStep ==
    ASSUME OutboxInv, NEW g \in Events, enqueue(g)
    PROVE  OutboxInv'
<1>0. /\ seq' = [seq EXCEPT ![g] = nextSeq] /\ nextSeq' = nextSeq + 1 /\ tx' = tx
      /\ tx[TxOf[g]] = "open" /\ seq[g] = 0 /\ UNCHANGED <<row, relay, brokerVars>>
  BY DEF enqueue
<1>1. /\ seq' \in [Events -> Nat] /\ seq'[g] = nextSeq /\ \A e \in Events : e # g => seq'[e] = seq[e]
      /\ nextSeq \in Nat \ {0} /\ nextSeq' \in Nat \ {0}
  BY <1>0 DEF OutboxInv, OutboxTyped
<1>2. \A e \in Events : seq[e] \in Nat /\ seq[e] < nextSeq /\ TxOf[e] \in Txs
  BY OutboxAssumption DEF OutboxInv, NumberInv, OutboxTyped
<1>3. Settled(tx, seq, tx', seq')
  BY <1>0, <1>1, <1>2 DEF Settled, Comm, Ahead
<1>4. NumberInv'
  <2>0. NumberInv
    BY DEF OutboxInv
  <2>1. \A e \in Events : seq'[e] < nextSeq' /\ (seq'[e] # 0 => tx'[TxOf[e]] # "idle")
    BY <2>0, <1>0, <1>1, <1>2 DEF NumberInv
  <2>2. IsFiniteSet({e \in Events : seq'[e] # 0})
    <3>1. IsFiniteSet({e \in Events : seq[e] # 0} \cup {g})
      BY <2>0, FS_AddElement DEF NumberInv
    <3>2. {e \in Events : seq'[e] # 0} \subseteq {e \in Events : seq[e] # 0} \cup {g}
      BY <1>1
    <3> QED  BY <3>1, <3>2, FS_Subset
  <2>3. ASSUME NEW e \in Events, NEW f \in Events, SameLock(e, f), TxOf[e] # TxOf[f], seq'[e] # 0, seq'[e] < seq'[f]
        PROVE  tx[TxOf[e]] \in Over
    <3>1. e # g /\ seq'[e] = seq[e]
      BY <2>3, <1>1, <1>2
    <3>2. CASE f = g
      <4>1. tx[TxOf[e]] # "open"
        BY <3>2, <2>0, <2>3, <1>0 DEF NumberInv, SameLock, SameUser
      <4>2. tx[TxOf[e]] # "idle" /\ tx[TxOf[e]] \in TxStates
        BY <3>1, <2>0, <2>3, <1>2 DEF NumberInv, OutboxInv, OutboxTyped
      <4> QED  BY <4>1, <4>2 DEF TxStates, Over
    <3>3. CASE f # g
      BY <3>1, <3>3, <2>0, <2>3, <1>1 DEF NumberInv
    <3> QED  BY <3>2, <3>3
  <2>4. \A t, u \in Locking : t # u /\ UserOf[t] = UserOf[u] => tx'[t] # "open" \/ tx'[u] # "open"
    BY <2>0, <1>0 DEF NumberInv
  <2> QED  BY <2>1, <2>2, <2>3, <2>4, <1>0 DEF NumberInv
<1> QED  BY <1>0, <1>1, <1>3, <1>4, ProducerStep DEF OutboxInv, OutboxTyped
-----------------------------------------------------------------------------
(***************************************************************************)
(* The stream.                                                             *)
(***************************************************************************)
LEMMA AppendFirst ==
    ASSUME NEW st \in Seq(Events), NEW g \in Events
    PROVE  LET st2 == Append(st, g) IN
           /\ st2 \in Seq(Events)
           /\ \A e : In(st2, e) <=> In(st, e) \/ e = g
           /\ \A e, i : IsFirst(st, e, i) => IsFirst(st2, e, i) /\ i \in 1..Len(st2)
           /\ ~In(st, g) => IsFirst(st2, g, Len(st) + 1) /\ Len(st) + 1 \in 1..Len(st2)
<1> DEFINE st2 == Append(st, g)
<1>1. /\ st2 \in Seq(Events) /\ Len(st2) = Len(st) + 1 /\ Len(st) \in Nat
      /\ \A i \in 1..Len(st) : st2[i] = st[i]
      /\ st2[Len(st) + 1] = g
  BY AppendProperties
<1> HIDE DEF st2
<1>2. ASSUME NEW e PROVE In(st2, e) <=> In(st, e) \/ e = g
  <2>1. 1..Len(st2) = (1..Len(st)) \cup {Len(st) + 1}
    BY <1>1
  <2> QED  BY <2>1, <1>1 DEF In
<1>3. ASSUME NEW e, NEW i, IsFirst(st, e, i) PROVE IsFirst(st2, e, i) /\ i \in 1..Len(st2)
  <2>1. i \in 1..Len(st) /\ i \in 1..Len(st2) /\ \A j \in 1..(i - 1) : j \in 1..Len(st)
    BY <1>1, <1>3 DEF IsFirst
  <2> QED  BY <2>1, <1>1, <1>3 DEF IsFirst
<1>4. ASSUME ~In(st, g) PROVE IsFirst(st2, g, Len(st) + 1) /\ Len(st) + 1 \in 1..Len(st2)
  <2>1. Len(st) + 1 \in 1..Len(st2) /\ \A j \in 1..((Len(st) + 1) - 1) : j \in 1..Len(st)
    BY <1>1
  <2> QED  BY <2>1, <1>1, <1>4 DEF IsFirst, In
<1> QED  BY <1>1, <1>2, <1>3, <1>4 DEF st2

\* What may be stored: an event committed, with all that is to be told before it stored.
MayStore(g) == Comm(tx, seq, g) /\ \A e \in Events : Ahead(tx, seq, e, g) => In(stream, e)

LEMMA StoreOK ==
    ASSUME OutboxInv, NEW g \in Events, MayStore(g), Store(g), UNCHANGED producerVars
    PROVE  /\ stream' \in Seq(Events) /\ window' \in [Events -> Nat]
           /\ \A e : In(stream, e) => In(stream', e)
           /\ In(stream', g) /\ StreamInv'
           /\ \A e \in Events : window'[e] > 0 => In(stream', e)
<1>0. /\ stream \in Seq(Events) /\ window \in [Events -> Nat] /\ tx' = tx /\ seq' = seq
      /\ StreamInv /\ \A e \in Events : window[e] > 0 => In(stream, e)
  BY DEF OutboxInv, OutboxTyped, producerVars, StoredInv
<1>1. CASE window[g] > 0 /\ UNCHANGED <<stream, window>>
  BY <1>0, <1>1 DEF StreamInv
<1>2. CASE stream' = Append(stream, g) /\ window' = [window EXCEPT ![g] = DupWindow]
  <2>1. /\ stream' \in Seq(Events)
        /\ \A e : In(stream', e) <=> In(stream, e) \/ e = g
        /\ \A e, i : IsFirst(stream, e, i) => IsFirst(stream', e, i) /\ i \in 1..Len(stream')
        /\ ~In(stream, g) => IsFirst(stream', g, Len(stream) + 1) /\ Len(stream) + 1 \in 1..Len(stream')
    BY <1>0, <1>2, AppendFirst
  <2>2. window' \in [Events -> Nat] /\ \A e \in Events : e # g => window'[e] = window[e]
    BY <1>0, <1>2, OutboxAssumption
  <2>3. ASSUME NEW f \in Events, In(stream', f)
        PROVE  Comm(tx, seq, f) /\ \E k \in 1..Len(stream') : IsFirst(stream', f, k)
    <3>1. CASE In(stream, f)
      BY <3>1, <2>1, <1>0 DEF StreamInv
    <3>2. CASE ~In(stream, f)
      BY <3>2, <2>1, <2>3 DEF MayStore
    <3> QED  BY <3>1, <3>2
  <2>4. ASSUME NEW e \in Events, NEW f \in Events, In(stream', f), Ahead(tx, seq, e, f)
        PROVE  Before(stream', e, f)
    <3>1. CASE In(stream, f)
      <4>1. Before(stream, e, f)
        BY <3>1, <2>4, <1>0 DEF StreamInv
      <4>2. PICK i \in 1..Len(stream), k \in 1..Len(stream) :
                IsFirst(stream, e, i) /\ IsFirst(stream, f, k) /\ i < k
        BY <4>1 DEF Before
      <4> QED  BY <4>2, <2>1 DEF Before
    <3>2. CASE ~In(stream, f)
      <4>1. f = g /\ In(stream, e)
        BY <3>2, <2>1, <2>4 DEF MayStore
      <4>2. PICK i \in 1..Len(stream) : IsFirst(stream, e, i)
        BY <4>1, <1>0 DEF StreamInv
      <4>3. i < Len(stream) + 1
        BY <4>2, <1>0
      <4> QED  BY <4>1, <4>2, <4>3, <3>2, <2>1 DEF Before
    <3> QED  BY <3>1, <3>2
  <2>5. StreamInv'
    BY <2>3, <2>4, <1>0 DEF StreamInv
  <2> QED  BY <2>1, <2>2, <2>5, <1>0
<1> QED  BY <1>1, <1>2 DEF Store

\* A relay keeps what it has in hand while the stream grows.
LEMMA InHandGrows ==
    ASSUME NEW x, NEW t, NEW sq, NEW st, NEW st2, InHand(x, t, sq, st), \A e : In(st, e) => In(st2, e)
    PROVE  InHand(x, t, sq, st2)
BY DEF InHand

\* The services and the broker's memory stay as they are, but for the orphans.
LEMMA RelayMoves ==
    ASSUME OutboxInv, UNCHANGED <<producerVars, stream, window>>, relay' \in [Relays -> Relay],
           RelayInv', orphans' \in [Events -> Nat], OrphanInv', RowsTyped(row'),
           \A e \in Events : row'[e].published \/ row'[e].swept => In(stream, e)
    PROVE  OutboxInv'
<1>0. tx' = tx /\ seq' = seq /\ nextSeq' = nextSeq /\ stream' = stream /\ window' = window
  BY DEF producerVars
<1>1. OutboxTyped'
  BY <1>0 DEF OutboxInv, OutboxTyped
<1>2. NumberInv'
  BY <1>0 DEF OutboxInv, NumberInv
<1>3. StreamInv' /\ StoredInv'
  BY <1>0 DEF OutboxInv, StreamInv, StoredInv
<1> QED  BY <1>1, <1>2, <1>3 DEF OutboxInv

\* The step of one relay, which is then x.
LEMMA RelayOne ==
    ASSUME OutboxInv, UNCHANGED <<producerVars, stream, window>>, NEW r \in Relays, NEW x \in Relay,
           relay' = [relay EXCEPT ![r] = x], InHand(x, tx, seq, stream)
    PROVE  relay' \in [Relays -> Relay] /\ RelayInv'
<1>0. tx' = tx /\ seq' = seq /\ stream' = stream
  BY DEF producerVars
<1>1. relay' \in [Relays -> Relay] /\ relay'[r] = x /\ \A s \in Relays : s # r => relay'[s] = relay[s]
  BY DEF OutboxInv, OutboxTyped
<1> QED  BY <1>0, <1>1 DEF OutboxInv, RelayInv

LEMMA RelayOnly ==
    ASSUME OutboxInv, UNCHANGED <<producerVars, row, brokerVars>>, NEW r \in Relays, NEW x \in Relay,
           relay' = [relay EXCEPT ![r] = x], InHand(x, tx, seq, stream)
    PROVE  OutboxInv'
<1>0. row' = row /\ orphans' = orphans /\ stream' = stream /\ window' = window /\ tx' = tx /\ seq' = seq
  BY DEF brokerVars, producerVars
<1>1. relay' \in [Relays -> Relay] /\ RelayInv'
  BY <1>0, RelayOne
<1>2. OrphanInv' /\ orphans' \in [Events -> Nat]
  BY <1>0 DEF OutboxInv, OrphanInv, OutboxTyped
<1>3. RowsTyped(row') /\ \A e \in Events : row'[e].published \/ row'[e].swept => In(stream, e)
  BY <1>0 DEF OutboxInv, OutboxTyped, StoredInv
<1> QED  BY <1>0, <1>1, <1>2, <1>3, RelayMoves
-----------------------------------------------------------------------------
(***************************************************************************)
(* The steps of a relay that store nothing.                                *)
(***************************************************************************)
LEMMA RelayRecords ==
    ASSUME OutboxInv, NEW r \in Relays
    PROVE  LET x == relay[r] IN
           x \in Relay /\ InHand(x, tx, seq, stream) /\ x.batch \subseteq Events
BY DEF OutboxInv, OutboxTyped, RelayInv, Relay

LEMMA UnlockStep ==
    ASSUME OutboxInv, NEW r \in Relays, UNCHANGED <<producerVars, row, brokerVars>>, Unlock(r)
    PROVE  OutboxInv'
<1>1. relay' = [relay EXCEPT ![r] = IdleRelay]
  BY DEF Unlock
<1> QED  BY <1>1, IdleRelayOK, RelayOnly

LEMMA RelayEndsStep ==
    ASSUME OutboxInv, NEW r \in Relays, RelayEnd(r) \/ StreamUnavailable(r) \/ RelayError(r)
    PROVE  OutboxInv'
<1>1. UNCHANGED <<producerVars, row, brokerVars>> /\ Unlock(r)
  BY DEF RelayEnd, StreamUnavailable, RelayError
<1> QED  BY <1>1, UnlockStep

LEMMA RelayBeginStep ==
    ASSUME OutboxInv, NEW r \in Relays, RelayBegin(r)
    PROVE  OutboxInv'
<1> DEFINE x == [IdleRelay EXCEPT !.pc = "locked"]
<1>1. x \in Relay /\ x.pc = "locked" /\ x.batch = {}
  BY IdleRelayOK DEF Relay, IdleRelay
<1>2. relay' = [relay EXCEPT ![r] = x] /\ UNCHANGED <<producerVars, row, brokerVars>>
  BY DEF RelayBegin
<1> HIDE DEF x
<1>3. InHand(x, tx, seq, stream)
  BY <1>1 DEF InHand, Busy
<1> QED  BY <1>1, <1>2, <1>3, RelayOnly

\* The oldest pending events are a batch: one that is to be told before them and is not
\* stored is pending too, and older.
LEMMA HeadIsClosed ==
    ASSUME OutboxInv, NEW f \in head
    PROVE  /\ f \in Events /\ Comm(tx, seq, f)
           /\ \A e \in Events : Ahead(tx, seq, e, f) => In(stream, e) \/ e \in head
<1> DEFINE Older(e) == {g \in pending : seq[g] < seq[e]}
<1>1. f \in Events /\ f \in pending /\ Comm(tx, seq, f) /\ Cardinality(Older(f)) < Batch
  BY DEF head, pending, Committed, Comm
<1>2. seq \in [Events -> Nat] /\ pending \subseteq Events
  BY DEF OutboxInv, OutboxTyped, pending
<1>3. ASSUME NEW e \in Events, Ahead(tx, seq, e, f), ~In(stream, e)
      PROVE  e \in head
  <2>1. e \in pending
    BY <1>3 DEF pending, Ahead, Comm, Committed, OutboxInv, StoredInv
  <2>2. Older(e) \subseteq Older(f)
    BY <1>1, <1>2, <1>3 DEF Ahead
  <2>3. IsFiniteSet(Older(f))
    <3>1. Older(f) \subseteq {g \in Events : seq[g] # 0}
      BY DEF pending, Committed
    <3> QED  BY <3>1, FS_Subset DEF OutboxInv, NumberInv
  <2>4. /\ Cardinality(Older(e)) <= Cardinality(Older(f))
        /\ Cardinality(Older(e)) \in Nat /\ Cardinality(Older(f)) \in Nat
    <3>1. IsFiniteSet(Older(e)) /\ Cardinality(Older(e)) <= Cardinality(Older(f))
      BY <2>2, <2>3, FS_Subset
    <3> QED  BY <3>1, <2>3, FS_CardinalityType
  <2>5. Cardinality(Older(e)) < Batch
    <3> HIDE DEF Older
    <3> QED  BY <2>4, <1>1, OutboxAssumption
  <2> QED  BY <2>1, <2>5 DEF head
<1> QED  BY <1>1, <1>3

LEMMA RelayHeadStep ==
    ASSUME OutboxInv, NEW r \in Relays, RelayHead(r)
    PROVE  OutboxInv'
<1> DEFINE x == [relay[r] EXCEPT !.pc = "next", !.batch = head,
                                 !.due = {e \in head : row[e].wait = 0}]
<1>1. head \subseteq Events
  BY HeadIsClosed
<1>2. x \in Relay /\ x.pc = "next" /\ x.batch = head
  BY <1>1, RelayRecords DEF Relay
<1>3. relay' = [relay EXCEPT ![r] = x] /\ UNCHANGED <<producerVars, row, brokerVars>>
  BY DEF RelayHead
<1> HIDE DEF x
<1>4. InHand(x, tx, seq, stream)
  BY <1>2, HeadIsClosed DEF InHand, Busy
<1> QED  BY <1>2, <1>3, <1>4, RelayOnly

LEMMA RelayPublishStep ==
    ASSUME OutboxInv, NEW r \in Relays, RelayPublish(r)
    PROVE  OutboxInv'
<1>1. PICK g \in relay[r].due :
         /\ IsOldest(g, relay[r].batch)
         /\ relay' = [relay EXCEPT ![r].pc = "wait", ![r].event = g, ![r].acked = FALSE,
                                   ![r].batch = @ \ {g}]
         /\ relay[r].pc = "next" /\ UNCHANGED <<producerVars, row, brokerVars>>
  BY DEF RelayPublish
<1> DEFINE x == [relay[r] EXCEPT !.pc = "wait", !.event = g, !.acked = FALSE, !.batch = @ \ {g}]
<1>2. relay' = [relay EXCEPT ![r] = x]
  BY <1>1
<1>3. relay[r] \in Relay /\ InHand(relay[r], tx, seq, stream) /\ relay[r].batch \subseteq Events
  BY RelayRecords
<1>4. g \in relay[r].batch /\ g \in Events /\ \A f \in relay[r].batch : seq[g] <= seq[f]
  BY <1>1, <1>3 DEF IsOldest
<1>5. /\ x \in Relay /\ x.pc = "wait" /\ x.event = g /\ x.acked = FALSE
      /\ x.batch = relay[r].batch \ {g}
  BY <1>3, <1>4 DEF Relay
<1> HIDE DEF x
<1>6. InHand(x, tx, seq, stream)
  <2>1. \A f \in relay[r].batch : Comm(tx, seq, f)
    BY <1>3 DEF InHand
  <2>2. \A e \in Events, f \in relay[r].batch : Ahead(tx, seq, e, f) => In(stream, e) \/ e \in relay[r].batch
    BY <1>1, <1>3 DEF InHand, Busy
  <2>3. ASSUME NEW e \in Events, Ahead(tx, seq, e, g) PROVE In(stream, e)
    <3>1. seq[e] \in Nat /\ seq[g] \in Nat /\ seq[e] < seq[g]
      BY <2>3, <1>4 DEF Ahead, OutboxInv, OutboxTyped
    <3>2. e \notin relay[r].batch
      BY <3>1, <1>4
    <3> QED  BY <3>2, <2>2, <2>3, <1>4
  <2> QED  BY <2>1, <2>2, <2>3, <1>4, <1>5 DEF InHand, Busy
<1> QED  BY <1>1, <1>2, <1>5, <1>6, RelayOnly

LEMMA RelayAckedStep ==
    ASSUME OutboxInv, NEW r \in Relays, RelayAcked(r)
    PROVE  OutboxInv'
<1> DEFINE x == [relay[r] EXCEPT !.pc = "mark"]
<1>1. relay' = [relay EXCEPT ![r] = x] /\ UNCHANGED <<producerVars, row, brokerVars>>
  BY DEF RelayAcked
<1>2. relay[r] \in Relay /\ InHand(relay[r], tx, seq, stream) /\ relay[r].pc = "wait" /\ relay[r].acked
  BY RelayRecords DEF RelayAcked
<1>3. /\ x \in Relay /\ x.pc = "mark" /\ x.event = relay[r].event /\ x.batch = relay[r].batch
  BY <1>2 DEF Relay
<1> HIDE DEF x
<1>4. InHand(x, tx, seq, stream)
  BY <1>2, <1>3 DEF InHand, Busy
<1> QED  BY <1>1, <1>3, <1>4, RelayOnly

LEMMA ConnectionDropsStep ==
    ASSUME OutboxInv, NEW r \in Relays, ConnectionDrops(r)
    PROVE  OutboxInv'
<1> DEFINE x == [relay[r] EXCEPT !.conn = FALSE]
<1>1. relay' = [relay EXCEPT ![r] = x] /\ UNCHANGED <<producerVars, row, brokerVars>>
  BY DEF ConnectionDrops
<1>2. relay[r] \in Relay /\ InHand(relay[r], tx, seq, stream)
  BY RelayRecords
<1>3. /\ x \in Relay /\ x.pc = relay[r].pc /\ x.event = relay[r].event /\ x.batch = relay[r].batch
      /\ x.acked = relay[r].acked
  BY <1>2 DEF Relay
<1> HIDE DEF x
<1>4. InHand(x, tx, seq, stream)
  BY <1>2, <1>3 DEF InHand, Busy
<1> QED  BY <1>1, <1>3, <1>4, RelayOnly
\* What a busy relay publishes may be stored.
LEMMA BusyMayStore ==
    ASSUME OutboxInv, NEW r \in Relays, Busy(relay[r])
    PROVE  relay[r].event \in Events /\ MayStore(relay[r].event)
BY RelayRecords DEF InHand, MayStore

LEMMA AbandonOK ==
    ASSUME OutboxInv, NEW r \in Relays, UNCHANGED <<producerVars, stream>>, Abandon(r)
    PROVE  orphans' \in [Events -> Nat] /\ OrphanInv'
<1>0. tx' = tx /\ seq' = seq /\ stream' = stream /\ orphans \in [Events -> Nat] /\ OrphanInv
  BY DEF producerVars, OutboxInv, OutboxTyped
<1>1. CASE relay[r].pc = "wait" /\ ~relay[r].acked
  <2> DEFINE g == relay[r].event
  <2>1. g \in Events /\ MayStore(g)
    BY <1>1, BusyMayStore DEF Busy
  <2>2. orphans' = [orphans EXCEPT ![g] = @ + 1]
    BY <1>1 DEF Abandon
  <2> HIDE DEF g
  <2>3. orphans' \in [Events -> Nat] /\ \A e \in Events : e # g => orphans'[e] = orphans[e]
    BY <2>1, <2>2, <1>0
  <2> QED  BY <2>1, <2>3, <1>0 DEF OrphanInv, MayStore
<1>2. CASE ~(relay[r].pc = "wait" /\ ~relay[r].acked)
  BY <1>0, <1>2 DEF Abandon, OrphanInv
<1> QED  BY <1>1, <1>2

LEMMA RowKept ==
    ASSUME OutboxInv, row' = row
    PROVE  RowsTyped(row') /\ \A e \in Events : row'[e].published \/ row'[e].swept => In(stream, e)
BY DEF OutboxInv, OutboxTyped, StoredInv

LEMMA RelayTimeoutStep ==
    ASSUME OutboxInv, NEW r \in Relays, RelayTimeout(r)
    PROVE  OutboxInv'
<1> DEFINE x == [relay[r] EXCEPT !.pc = "failed"]
<1>1. /\ relay' = [relay EXCEPT ![r] = x] /\ UNCHANGED <<producerVars, stream, window>>
      /\ row' = row /\ Abandon(r) /\ relay[r].pc = "wait"
  BY DEF RelayTimeout
<1>2. relay[r] \in Relay /\ InHand(relay[r], tx, seq, stream)
  BY RelayRecords
<1>3. /\ x \in Relay /\ x.pc = "failed" /\ x.event = relay[r].event /\ x.batch = relay[r].batch
  BY <1>2 DEF Relay
<1> HIDE DEF x
<1>4. InHand(x, tx, seq, stream)
  BY <1>1, <1>2, <1>3 DEF InHand, Busy
<1>5. relay' \in [Relays -> Relay] /\ RelayInv'
  BY <1>1, <1>3, <1>4, RelayOne
<1>6. orphans' \in [Events -> Nat] /\ OrphanInv'
  BY <1>1, AbandonOK
<1> QED  BY <1>1, <1>5, <1>6, RowKept, RelayMoves

LEMMA RelayCrashStep ==
    ASSUME OutboxInv, NEW r \in Relays, RelayCrash(r)
    PROVE  OutboxInv'
<1>1. /\ relay' = [relay EXCEPT ![r] = IdleRelay] /\ UNCHANGED <<producerVars, stream, window>>
      /\ row' = row /\ Abandon(r)
  BY DEF RelayCrash, Unlock
<1>2. relay' \in [Relays -> Relay] /\ RelayInv'
  BY <1>1, IdleRelayOK, RelayOne
<1>3. orphans' \in [Events -> Nat] /\ OrphanInv'
  BY <1>1, AbandonOK
<1> QED  BY <1>1, <1>2, <1>3, RowKept, RelayMoves

\* mark_published writes the row of an event that is stored, mark_failed leaves the flags.
LEMMA RelayMarkStep ==
    ASSUME OutboxInv, NEW r \in Relays, RelayMark(r)
    PROVE  OutboxInv'
<1> DEFINE g == relay[r].event
           x == [relay[r] EXCEPT !.pc = "next", !.event = Nothing]
<1>1. /\ relay' = [relay EXCEPT ![r] = x] /\ UNCHANGED <<producerVars, stream, window>>
      /\ row' = [row EXCEPT ![g].published = TRUE] /\ orphans' = orphans
      /\ tx' = tx /\ seq' = seq /\ stream' = stream
  BY DEF RelayMark, brokerVars, producerVars
<1>2. relay[r] \in Relay /\ InHand(relay[r], tx, seq, stream) /\ relay[r].pc = "mark"
  BY RelayRecords DEF RelayMark
<1>3. /\ x \in Relay /\ x.pc = "next" /\ x.batch = relay[r].batch
  BY <1>2 DEF Relay
<1>4. g \in Events /\ In(stream, g)
  BY <1>2 DEF InHand, Busy
<1> HIDE DEF x, g
<1>5. InHand(x, tx, seq, stream)
  <2>1. \A f \in relay[r].batch : Comm(tx, seq, f)
    BY <1>2 DEF InHand
  <2>2. \A e \in Events, f \in relay[r].batch : Ahead(tx, seq, e, f) => In(stream, e) \/ e \in relay[r].batch
    BY <1>2, <1>4 DEF InHand, g
  <2> QED  BY <2>1, <2>2, <1>3 DEF InHand, Busy
<1>6. relay' \in [Relays -> Relay] /\ RelayInv'
  BY <1>1, <1>3, <1>5, RelayOne
<1>7. RowsTyped(row) /\ \A e \in Events : row[e].published \/ row[e].swept => In(stream, e)
  BY DEF OutboxInv, OutboxTyped, StoredInv
<1>8. RowsTyped(row') /\ \A e \in Events : e # g => row'[e] = row[e]
  BY <1>1, <1>4, <1>7 DEF RowsTyped
<1>9. orphans' \in [Events -> Nat] /\ OrphanInv'
  BY <1>1 DEF OutboxInv, OutboxTyped, OrphanInv
<1> QED  BY <1>1, <1>4, <1>6, <1>7, <1>8, <1>9, RelayMoves

LEMMA RelayFailStep ==
    ASSUME OutboxInv, NEW r \in Relays, RelayFail(r)
    PROVE  OutboxInv'
<1> DEFINE g == relay[r].event
           late == relay_retry_delay(row[g].attempts + 1)
<1>1. /\ relay' = [relay EXCEPT ![r] = IdleRelay] /\ UNCHANGED <<producerVars, stream, window>>
      /\ row' = [row EXCEPT ![g].attempts = @ + 1, ![g].wait = late] /\ orphans' = orphans
      /\ tx' = tx /\ seq' = seq /\ stream' = stream
  BY DEF RelayFail, Unlock, brokerVars, producerVars
<1>2. g \in Events
  BY BusyMayStore DEF RelayFail, Busy
<1> HIDE DEF g, late
<1>3. relay' \in [Relays -> Relay] /\ RelayInv'
  BY <1>1, IdleRelayOK, RelayOne
<1>4. RowsTyped(row) /\ \A e \in Events : row[e].published \/ row[e].swept => In(stream, e)
  BY DEF OutboxInv, OutboxTyped, StoredInv
<1>5. RowsTyped(row') /\ \A e \in Events : row'[e].published = row[e].published /\ row'[e].swept = row[e].swept
  BY <1>1, <1>2, <1>4 DEF RowsTyped
<1>6. orphans' \in [Events -> Nat] /\ OrphanInv'
  BY <1>1 DEF OutboxInv, OutboxTyped, OrphanInv
<1> QED  BY <1>1, <1>3, <1>4, <1>5, <1>6, RelayMoves
-----------------------------------------------------------------------------
(***************************************************************************)
(* The broker, retention and time.                                         *)
(***************************************************************************)
LEMMA BrokerStep ==
    ASSUME OutboxInv, NEW g \in Events, MayStore(g), Store(g), UNCHANGED <<producerVars, row>>,
           relay' \in [Relays -> Relay], orphans' \in [Events -> Nat],
           \A r \in Relays : InHand(relay'[r], tx, seq, stream'),
           \A e \in Events : orphans'[e] > 0 => orphans[e] > 0
    PROVE  OutboxInv'
<1>0. tx' = tx /\ seq' = seq /\ nextSeq' = nextSeq /\ row' = row
  BY DEF producerVars
<1>1. /\ stream' \in Seq(Events) /\ window' \in [Events -> Nat]
      /\ \A e : In(stream, e) => In(stream', e)
      /\ In(stream', g) /\ StreamInv'
      /\ \A e \in Events : window'[e] > 0 => In(stream', e)
  BY StoreOK
<1>2. OutboxTyped'
  BY <1>0, <1>1 DEF OutboxInv, OutboxTyped
<1>3. NumberInv'
  BY <1>0 DEF OutboxInv, NumberInv
<1>4. RelayInv' /\ OrphanInv'
  BY <1>0, <1>1 DEF OutboxInv, RelayInv, OrphanInv
<1>5. StoredInv'
  BY <1>0, <1>1 DEF OutboxInv, StoredInv
<1> QED  BY <1>1, <1>2, <1>3, <1>4, <1>5 DEF OutboxInv

LEMMA StoreAwaitedStep ==
    ASSUME OutboxInv, NEW r \in Relays, StoreAwaited(r)
    PROVE  OutboxInv'
<1> DEFINE g == relay[r].event
           x == [relay[r] EXCEPT !.acked = TRUE]
<1>1. /\ relay' = [relay EXCEPT ![r] = x] /\ UNCHANGED <<producerVars, row>> /\ Store(g)
      /\ orphans' = orphans /\ relay[r].pc = "wait"
  BY DEF StoreAwaited
<1>2. g \in Events /\ MayStore(g)
  BY <1>1, BusyMayStore DEF Busy
<1>3. relay[r] \in Relay /\ InHand(relay[r], tx, seq, stream)
  BY RelayRecords
<1>4. x \in Relay /\ x.pc = "wait" /\ x.event = g /\ x.batch = relay[r].batch
  BY <1>1, <1>3 DEF Relay
<1>5. In(stream', g) /\ \A e : In(stream, e) => In(stream', e)
  BY <1>1, <1>2, StoreOK
<1>6. InHand(relay[r], tx, seq, stream')
  BY <1>3, <1>5, InHandGrows
<1> HIDE DEF x
<1>7. InHand(x, tx, seq, stream')
  BY <1>1, <1>4, <1>5, <1>6 DEF InHand, Busy
<1>8. relay' \in [Relays -> Relay] /\ relay'[r] = x /\ \A s \in Relays : s # r => relay'[s] = relay[s]
  BY <1>1, <1>4 DEF OutboxInv, OutboxTyped
<1>9. \A s \in Relays : InHand(relay'[s], tx, seq, stream')
  <2>1. ASSUME NEW s \in Relays, s # r PROVE InHand(relay[s], tx, seq, stream')
    BY <1>5, RelayRecords, InHandGrows
  <2> QED  BY <2>1, <1>7, <1>8
<1>10. orphans' \in [Events -> Nat]
  BY <1>1 DEF OutboxInv, OutboxTyped
<1> QED  BY <1>1, <1>2, <1>8, <1>9, <1>10, BrokerStep

LEMMA StoreOrphanStep ==
    ASSUME OutboxInv, NEW g \in Events, StoreOrphan(g)
    PROVE  OutboxInv'
<1>1. /\ orphans[g] > 0 /\ orphans' = [orphans EXCEPT ![g] = @ - 1]
      /\ row' = row /\ relay' = relay /\ UNCHANGED <<producerVars, row>> /\ tx' = tx /\ seq' = seq
  BY DEF StoreOrphan, producerVars
<1>2. orphans' \in [Events -> Nat] /\ \A e \in Events : orphans'[e] > 0 => orphans[e] > 0
  BY <1>1 DEF OutboxInv, OutboxTyped
<1>3. relay' \in [Relays -> Relay]
  BY <1>1 DEF OutboxInv, OutboxTyped
<1>4. MayStore(g)
  BY <1>1 DEF OutboxInv, OrphanInv, MayStore
<1>5. CASE Store(g)
  <2>1. \A e : In(stream, e) => In(stream', e)
    BY <1>1, <1>4, <1>5, StoreOK
  <2>2. ASSUME NEW s \in Relays PROVE InHand(relay'[s], tx, seq, stream')
    BY <2>1, <1>1, RelayRecords, InHandGrows
  <2> QED  BY <2>2, <1>1, <1>2, <1>3, <1>4, <1>5, BrokerStep
<1>6. CASE UNCHANGED <<stream, window>>
  <2>1. RelayInv' /\ OrphanInv'
    BY <1>1, <1>2, <1>6 DEF OutboxInv, RelayInv, OrphanInv
  <2> QED  BY <2>1, <1>1, <1>2, <1>3, <1>6, RowKept, RelayMoves
<1> QED  BY <1>5, <1>6 DEF StoreOrphan

LEMMA SweepPublishedStep ==
    ASSUME OutboxInv, NEW g \in Events, SweepPublished(g)
    PROVE  OutboxInv'
<1>1. /\ row[g].published /\ row' = [row EXCEPT ![g].swept = TRUE] /\ relay' = relay
      /\ UNCHANGED <<producerVars, stream, window>> /\ orphans' = orphans
      /\ tx' = tx /\ seq' = seq /\ stream' = stream
  BY DEF SweepPublished, brokerVars, producerVars
<1>2. RowsTyped(row) /\ \A e \in Events : row[e].published \/ row[e].swept => In(stream, e)
  BY DEF OutboxInv, OutboxTyped, StoredInv
<1>3. RowsTyped(row') /\ \A e \in Events : e # g => row'[e] = row[e]
  BY <1>1, <1>2 DEF RowsTyped
<1>4. RelayInv' /\ OrphanInv' /\ relay' \in [Relays -> Relay] /\ orphans' \in [Events -> Nat]
  BY <1>1 DEF OutboxInv, OutboxTyped, RelayInv, OrphanInv
<1> QED  BY <1>1, <1>2, <1>3, <1>4, RelayMoves

LEMMA RelayTickStep ==
    ASSUME OutboxInv, RelayTick
    PROVE  OutboxInv'
<1>1. /\ row' = [e \in Events |-> [row[e] EXCEPT !.wait = Less(@)]]
      /\ window' = [e \in Events |-> Less(window[e])]
      /\ tx' = tx /\ seq' = seq /\ nextSeq' = nextSeq /\ relay' = relay /\ orphans' = orphans
      /\ stream' = stream
  BY DEF RelayTick, producerVars
<1>2. RowsTyped(row) /\ window \in [Events -> Nat]
  BY DEF OutboxInv, OutboxTyped
<1>3. RowsTyped(row') /\ \A e \in Events : row'[e].published = row[e].published /\ row'[e].swept = row[e].swept
  BY <1>1, <1>2 DEF RowsTyped
<1>4. window' \in [Events -> Nat] /\ \A e \in Events : window'[e] > 0 => window[e] > 0
  BY <1>1, <1>2 DEF Less
<1>5. OutboxTyped' /\ StoredInv'
  BY <1>1, <1>3, <1>4 DEF OutboxInv, OutboxTyped, StoredInv
<1>6. NumberInv' /\ RelayInv' /\ OrphanInv' /\ StreamInv'
  BY <1>1 DEF OutboxInv, NumberInv, RelayInv, OrphanInv, StreamInv
<1> QED  BY <1>5, <1>6 DEF OutboxInv
-----------------------------------------------------------------------------
LEMMA OutboxInvStep == OutboxInv /\ [OutboxNext]_outboxVars => OutboxInv'
<1> SUFFICES ASSUME OutboxInv, [OutboxNext]_outboxVars PROVE OutboxInv'
  OBVIOUS
<1>1. CASE \E t \in Txs : BeginTx(t) \/ CommitTx(t) \/ RollbackTx(t)
  BY <1>1, BeginTxStep, EndTxStep
<1>2. CASE \E e \in Events : enqueue(e) \/ StoreOrphan(e) \/ SweepPublished(e)
  BY <1>2, EnqueueStep, StoreOrphanStep, SweepPublishedStep
<1>3. ASSUME NEW r \in Relays, RelayStep(r)
      PROVE  OutboxInv'
  BY <1>3, RelayBeginStep, RelayHeadStep, RelayPublishStep, RelayEndsStep, RelayAckedStep,
     RelayMarkStep, RelayFailStep DEF RelayStep
<1>4. ASSUME NEW r \in Relays, \/ StoreAwaited(r) \/ StreamUnavailable(r) \/ RelayTimeout(r)
                               \/ ConnectionDrops(r) \/ RelayCrash(r)
      PROVE  OutboxInv'
  BY <1>4, StoreAwaitedStep, RelayEndsStep, RelayTimeoutStep, ConnectionDropsStep, RelayCrashStep
<1>5. CASE RelayTick
  BY <1>5, RelayTickStep
<1>6. CASE UNCHANGED outboxVars
  <2>1. /\ tx' = tx /\ seq' = seq /\ nextSeq' = nextSeq /\ row' = row /\ relay' = relay
        /\ orphans' = orphans /\ stream' = stream /\ window' = window
    BY <1>6 DEF outboxVars
  <2> QED  BY <2>1 DEF OutboxInv, OutboxTyped, NumberInv, RelayInv, OrphanInv, StreamInv, StoredInv
<1> QED  BY <1>1, <1>2, <1>3, <1>4, <1>5, <1>6 DEF OutboxNext

\* A first copy is at one place only.
LEMMA FirstIsOne ==
    ASSUME NEW e, NEW i \in 1..Len(stream), IsFirst(stream, e, i), stream \in Seq(Events)
    PROVE  FirstAt(e) = i
<1>1. Len(stream) \in Nat
  OBVIOUS
<1>2. ASSUME NEW k \in 1..Len(stream), stream[k] = e, \A j \in 1..(k - 1) : stream[j] # e
      PROVE  k = i
  <2>1. ~(k < i)
    BY <1>1, <1>2 DEF IsFirst
  <2>2. ~(i < k)
    BY <1>1, <1>2 DEF IsFirst
  <2> QED  BY <2>1, <2>2, <1>1
<1>3. stream[i] = e /\ \A j \in 1..(i - 1) : stream[j] # e
  BY DEF IsFirst
<1> QED  BY <1>2, <1>3 DEF FirstAt

LEMMA HistoryFollows == OutboxInv => StreamIsTheHistory
<1> SUFFICES ASSUME OutboxInv PROVE StreamIsTheHistory
  OBVIOUS
<1>1. stream \in Seq(Events) /\ Len(stream) \in Nat
  BY DEF OutboxInv, OutboxTyped
<1>2. ASSUME NEW e \in Events
      PROVE  /\ Stored(e) => Committed(e)
             /\ row[e].published \/ row[e].swept => Stored(e)
  BY DEF OutboxInv, StreamInv, StoredInv, Stored, In, Committed, Comm
<1>3. ASSUME NEW e \in Events, NEW f \in Events,
             SameUser(e, f), TxOf[e] \in Locking, TxOf[f] \in Locking,
             Stored(f), Committed(e), seq[e] < seq[f]
      PROVE  Stored(e) /\ FirstAt(e) < FirstAt(f)
  <2>1. Before(stream, e, f)
    <3>1. In(stream, f) /\ Ahead(tx, seq, e, f)
      BY <1>3 DEF Stored, In, Ahead, SameLock, Committed, Comm
    <3> QED  BY <3>1 DEF OutboxInv, StreamInv
  <2>2. PICK i \in 1..Len(stream), k \in 1..Len(stream) :
            IsFirst(stream, e, i) /\ IsFirst(stream, f, k) /\ i < k
    BY <2>1 DEF Before
  <2>3. FirstAt(e) = i /\ FirstAt(f) = k
    BY <2>2, <1>1, FirstIsOne
  <2>4. Stored(e)
    BY <2>2 DEF IsFirst, Stored
  <2> QED  BY <2>2, <2>3, <2>4
<1> QED  BY <1>2, <1>3 DEF StreamIsTheHistory

\* What JetStream holds is what was committed: whatever batch size, number of instances and
\* sequence of timeouts, crashes, dropped connections, late or lost publications, an event is
\* stored only after its commit, marked or swept only once stored, and the events of one user
\* that locking transactions recorded are told in the order of their sequence numbers.
THEOREM StreamFaithful == OutboxSpec => []StreamIsTheHistory
<1>1. OutboxSpec => []OutboxInv
  BY OutboxInitOK, OutboxInvStep, PTL DEF OutboxSpec
<1> QED  BY <1>1, HistoryFollows, PTL
-----------------------------------------------------------------------------
(***************************************************************************)
(* The outbox is the channel.  Numbers are distinct, so the events of a    *)
(* commit are in an order; they are behind all that is announced of the    *)
(* user, since what is numbered before that has been decided.              *)
(***************************************************************************)
DistinctInv == \A e, f \in Events : seq[e] # 0 /\ seq[e] = seq[f] => e = f

LEMMA NumbersTaken ==
    ASSUME [OutboxNext]_outboxVars, seq' # seq
    PROVE  \E g \in Events : enqueue(g)
<1>1. ~UNCHANGED outboxVars
  BY DEF outboxVars
<1>2. ASSUME NEW t \in Txs PROVE ~BeginTx(t) /\ ~CommitTx(t) /\ ~RollbackTx(t)
  BY DEF BeginTx, CommitTx, RollbackTx
<1>3. ASSUME NEW e \in Events PROVE ~StoreOrphan(e) /\ ~SweepPublished(e)
  BY DEF StoreOrphan, SweepPublished, producerVars
<1>4. ASSUME NEW r \in Relays PROVE ~RelayStep(r) /\ ~StoreAwaited(r)
  <2>1. ~RelayBegin(r) /\ ~RelayEnd(r) /\ ~RelayAcked(r) /\ ~RelayError(r) /\ ~StoreAwaited(r)
    BY DEF RelayBegin, RelayEnd, RelayAcked, RelayError, StoreAwaited, producerVars
  <2>2. ~RelayHead(r) /\ ~RelayPublish(r)
    BY Zenon DEF RelayHead, RelayPublish, producerVars
  <2>3. ~RelayMark(r) /\ ~RelayFail(r)
    BY DEF RelayMark, RelayFail, producerVars
  <2> QED  BY <2>1, <2>2, <2>3 DEF RelayStep
<1>5. ASSUME NEW r \in Relays
      PROVE  ~StreamUnavailable(r) /\ ~RelayTimeout(r) /\ ~ConnectionDrops(r) /\ ~RelayCrash(r)
  BY DEF StreamUnavailable, RelayTimeout, ConnectionDrops, RelayCrash, producerVars
<1>6. ~RelayTick
  BY DEF RelayTick, producerVars
<1> QED  BY <1>1, <1>2, <1>3, <1>4, <1>5, <1>6 DEF OutboxNext

LEMMA DistinctStep ==
    ASSUME OutboxInv, DistinctInv, [OutboxNext]_outboxVars
    PROVE  DistinctInv'
<1>1. CASE seq' = seq
  BY <1>1 DEF DistinctInv
<1>2. ASSUME NEW g \in Events, enqueue(g) PROVE DistinctInv'
  <2>1. /\ seq' = [seq EXCEPT ![g] = nextSeq] /\ seq \in [Events -> Nat]
        /\ \A e \in Events : seq[e] < nextSeq
    BY <1>2 DEF enqueue, OutboxInv, OutboxTyped, NumberInv
  <2> QED  BY <2>1 DEF DistinctInv
<1> QED  BY <1>1, <1>2, NumbersTaken

LEMMA ChannelPairs ==
    ASSUME NEW e \in Events, NEW f \in Events
    PROVE  /\ <<e, f>> \in Locked <=> SameLock(e, f)
           /\ <<e, f>> \in AheadOf <=> SameLock(e, f) /\ Committed(e) /\ Committed(f) /\ seq[e] < seq[f]
           /\ <<e, f>> \in AheadOf' <=>
                 SameLock(e, f) /\ Committed(e)' /\ Committed(f)' /\ seq'[e] < seq'[f]
BY DEF AheadOf, Locked, SameLock

LEMMA PairsOf ==
    /\ AheadOf \subseteq Events \X Events /\ AheadOf' \subseteq Events \X Events
    /\ Locked \subseteq Events \X Events
BY DEF AheadOf, Locked

\* A step that commits nothing leaves what is announced.
LEMMA NothingAnnounced ==
    ASSUME \A e \in Events : /\ Committed(e)' <=> Committed(e)
                             /\ Committed(e) => seq'[e] = seq[e]
    PROVE  Announced' = Announced /\ AheadOf' = AheadOf
<1>1. Announced' = Announced
  BY DEF Announced
<1>2. ASSUME NEW e \in Events, NEW f \in Events PROVE <<e, f>> \in AheadOf' <=> <<e, f>> \in AheadOf
  <2>1. /\ <<e, f>> \in AheadOf <=> SameLock(e, f) /\ Committed(e) /\ Committed(f) /\ seq[e] < seq[f]
        /\ <<e, f>> \in AheadOf' <=>
              SameLock(e, f) /\ Committed(e)' /\ Committed(f)' /\ seq'[e] < seq'[f]
    BY ChannelPairs
  <2>2. /\ Committed(e)' <=> Committed(e)
        /\ Committed(f)' <=> Committed(f)
        /\ Committed(e) => seq'[e] = seq[e]
        /\ Committed(f) => seq'[f] = seq[f]
    OBVIOUS
  <2> QED  BY <2>1, <2>2
<1>3. AheadOf' = AheadOf
  BY <1>2, PairsOf
<1> QED  BY <1>1, <1>3

LEMMA SameProducers ==
    ASSUME UNCHANGED <<tx, seq>>
    PROVE  Announced' = Announced /\ AheadOf' = AheadOf
BY NothingAnnounced DEF Committed

LEMMA SameStream == ASSUME stream' = stream PROVE Told' = Told
BY DEF Told, Stored

LEMMA CommitAnnounces ==
    ASSUME OutboxInv, DistinctInv, NEW t \in Txs, CommitTx(t)
    PROVE  Channel!Next
<1> DEFINE es == {e \in Events : TxOf[e] = t}
           order == {p \in Locked : p[1] \in es /\ p[2] \in es /\ seq[p[1]] < seq[p[2]]}
<1>0. /\ tx[t] = "open" /\ tx' = [tx EXCEPT ![t] = "committed"] /\ seq' = seq /\ row' = row /\ stream' = stream
      /\ \A e \in es : seq[e] # 0
  BY DEF CommitTx, brokerVars
<1>1. /\ tx \in [Txs -> TxStates] /\ seq \in [Events -> Nat] /\ \A e \in Events : TxOf[e] \in Txs
  BY OutboxAssumption DEF OutboxInv, OutboxTyped
<1>2. \A e \in Events : Committed(e)' <=> Committed(e) \/ e \in es
  BY <1>0, <1>1 DEF Committed
<1>3. \A e \in es : ~Committed(e)
  BY <1>0 DEF Committed
<1>4. es \in SUBSET Events /\ es \cap Announced = {} /\ Announced' = Announced \cup es
  BY <1>2, <1>3 DEF Announced
<1>5. ASSUME NEW e \in Events, NEW f \in Events, Committed(e), f \in es, SameLock(e, f)
      PROVE  seq[e] < seq[f]
  <2>1. TxOf[e] # TxOf[f] /\ e # f /\ SameLock(f, e)
    BY <1>3, <1>5 DEF SameLock, SameUser
  <2>2. ~(seq[f] < seq[e])
    <3>1. seq[f] # 0 /\ tx[TxOf[f]] = "open"
      BY <1>0, <1>5
    <3> QED  BY <2>1, <3>1 DEF OutboxInv, NumberInv, Over
  <2>3. seq[e] # seq[f]
    BY <1>0, <1>5, <2>1 DEF DistinctInv
  <2> QED  BY <1>1, <2>2, <2>3
<1>6. \A e, f \in Events : <<e, f>> \in order <=> SameLock(e, f) /\ e \in es /\ f \in es /\ seq[e] < seq[f]
  BY DEF Locked, SameLock
<1>7. order \in SUBSET (Locked \cap (es \X es))
  BY PairsOf
<1>8. ASSUME NEW e \in es, NEW f \in es, <<e, f>> \in Locked, e # f
      PROVE  <<e, f>> \in order <=> <<f, e>> \notin order
  <2>1. SameLock(e, f) /\ SameLock(f, e)
    BY <1>8, ChannelPairs DEF SameLock, SameUser
  <2>2. seq[e] # seq[f] /\ seq[e] \in Nat /\ seq[f] \in Nat
    BY <1>0, <1>1, <1>8 DEF DistinctInv
  <2> HIDE DEF order
  <2> QED  BY <1>6, <1>8, <2>1, <2>2
<1>9. order \in Channel!Orders(es)
  BY <1>7, <1>8 DEF Channel!Orders
<1>10. AheadOf' = AheadOf \cup order \cup (Locked \cap (Announced \X es))
  <2>1. ASSUME NEW e \in Events, NEW f \in Events
        PROVE  <<e, f>> \in AheadOf' <=>
                  <<e, f>> \in AheadOf \cup order \cup (Locked \cap (Announced \X es))
    <3>1. <<e, f>> \in AheadOf' <=> SameLock(e, f) /\ Committed(e)' /\ Committed(f)' /\ seq[e] < seq[f]
      BY <1>0, ChannelPairs
    <3>2. <<e, f>> \in Locked \cap (Announced \X es) <=> SameLock(e, f) /\ Committed(e) /\ f \in es
      BY ChannelPairs DEF Announced
    <3>3. ~(SameLock(e, f) /\ e \in es /\ Committed(f) /\ seq[e] < seq[f])
      <4>1. ASSUME SameLock(e, f), e \in es, Committed(f) PROVE seq[f] < seq[e]
        BY <1>5, <4>1 DEF SameLock, SameUser
      <4> QED  BY <1>1, <4>1
    <3> HIDE DEF es, order
    <3> QED  BY <1>2, <1>5, <1>6, <3>1, <3>2, <3>3, ChannelPairs
  <2>2. order \cup (Locked \cap (Announced \X es)) \subseteq Events \X Events
    BY PairsOf
  <2> HIDE DEF es, order
  <2> QED  BY <2>1, <2>2, PairsOf
<1>11. Told' = Told /\ Marked' = Marked
  BY <1>0, SameStream DEF Marked
<1> HIDE DEF es, order
<1>12. Channel!Announce(es)
  BY <1>4, <1>9, <1>10, <1>11 DEF Channel!Announce
<1> QED  BY <1>4, <1>12 DEF Channel!Next

LEMMA StoreTells ==
    ASSUME OutboxInv, NEW g \in Events, MayStore(g), Store(g), UNCHANGED <<producerVars, row>>
    PROVE  Channel!Next
<1>0. stream \in Seq(Events) /\ (window[g] > 0 => In(stream, g)) /\ tx' = tx /\ seq' = seq /\ row' = row
  BY DEF OutboxInv, OutboxTyped, StoredInv, producerVars
<1>1. \A e \in Events : In(stream', e) <=> In(stream, e) \/ e = g
  <2>1. CASE stream' = stream
    BY <1>0, <2>1 DEF Store
  <2>2. CASE stream' = Append(stream, g)
    BY <1>0, <2>2, AppendFirst
  <2> QED  BY <2>1, <2>2 DEF Store
<1>2. Told' = Told \cup {g} /\ \A e \in Events : e \in Told <=> In(stream, e)
  BY <1>1 DEF Told, Stored, In
<1>3. g \in Announced
  BY DEF MayStore, Comm, Announced, Committed
<1>4. ASSUME NEW f \in Announced, <<f, g>> \in AheadOf PROVE f \in Told
  <2>1. f \in Events /\ SameLock(f, g) /\ Committed(f) /\ seq[f] < seq[g]
    BY <1>4, ChannelPairs DEF Announced
  <2> QED  BY <1>2, <2>1 DEF MayStore, Ahead, Comm, Committed
<1>5. Announced' = Announced /\ AheadOf' = AheadOf /\ Marked' = Marked
  BY <1>0, SameProducers DEF Marked
<1> QED  BY <1>2, <1>3, <1>4, <1>5 DEF Channel!Next, Channel!Tell

LEMMA MarkSettles ==
    ASSUME OutboxInv, NEW r \in Relays, RelayMark(r)
    PROVE  Channel!Next
<1>1. PICK g : g = relay[r].event
  OBVIOUS
<1>2. /\ relay[r].pc = "mark" /\ row' = [row EXCEPT ![g].published = TRUE]
      /\ tx' = tx /\ seq' = seq /\ stream' = stream
  BY <1>1 DEF RelayMark, producerVars, brokerVars
<1>3. g \in Events /\ In(stream, g)
  BY <1>1, <1>2, RelayRecords DEF InHand, Busy
<1>4. RowsTyped(row)
  BY DEF OutboxInv, OutboxTyped
<1>5. /\ row'[g].published = TRUE /\ \A e \in Events : e # g => row'[e] = row[e]
  BY <1>2, <1>3, <1>4 DEF RowsTyped
<1>6. Marked' = Marked \cup {g}
  BY <1>3, <1>5 DEF Marked
<1>7. g \in Told /\ Told' = Told /\ Announced' = Announced /\ AheadOf' = AheadOf
  BY <1>2, <1>3, SameStream, SameProducers DEF Told, Stored, In
<1> QED  BY <1>3, <1>6, <1>7 DEF Channel!Next, Channel!Settle

\* The steps that commit, store and mark nothing.
LEMMA QuietForListeners ==
    ASSUME UNCHANGED <<tx, seq, stream>>,
           \A e \in Events : row'[e].published = row[e].published /\ row'[e].swept = row[e].swept
    PROVE  UNCHANGED (Channel!vars)
<1>1. Marked' = Marked
  BY DEF Marked
<1> QED  BY <1>1, SameStream, SameProducers DEF Channel!vars

LEMMA QuietProducers ==
    ASSUME OutboxInv, NEW t \in Txs, BeginTx(t) \/ RollbackTx(t)
    PROVE  UNCHANGED (Channel!vars)
<1>1. /\ tx \in [Txs -> TxStates] /\ \A e \in Events : TxOf[e] \in Txs /\ (seq[e] # 0 => tx[TxOf[e]] # "idle")
  BY OutboxAssumption DEF OutboxInv, OutboxTyped, NumberInv
<1>2. /\ seq' = seq /\ stream' = stream /\ row' = row /\ tx[t] # "committed"
      /\ \E s \in {"open", "rolledBack"} : tx' = [tx EXCEPT ![t] = s]
  BY DEF BeginTx, RollbackTx, brokerVars
<1>3. \A e \in Events : Committed(e)' <=> Committed(e)
  BY <1>1, <1>2 DEF Committed
<1>4. Announced' = Announced /\ AheadOf' = AheadOf
  BY <1>2, <1>3, NothingAnnounced
<1>5. Told' = Told /\ Marked' = Marked
  BY <1>2, SameStream DEF Marked
<1> QED  BY <1>4, <1>5 DEF Channel!vars

LEMMA QuietNumbering ==
    ASSUME OutboxInv, NEW g \in Events, enqueue(g)
    PROVE  UNCHANGED (Channel!vars)
<1>1. /\ seq \in [Events -> Nat] /\ seq' = [seq EXCEPT ![g] = nextSeq] /\ tx' = tx /\ tx[TxOf[g]] = "open"
      /\ stream' = stream /\ row' = row
  BY DEF OutboxInv, OutboxTyped, enqueue, brokerVars
<1>2. ASSUME NEW e \in Events PROVE (Committed(e)' <=> Committed(e)) /\ (Committed(e) => seq'[e] = seq[e])
  BY <1>1 DEF Committed
<1>3. Announced' = Announced /\ AheadOf' = AheadOf
  BY <1>2, NothingAnnounced
<1>4. Told' = Told /\ Marked' = Marked
  BY <1>1, SameStream DEF Marked
<1> QED  BY <1>3, <1>4 DEF Channel!vars

LEMMA QuietSweep ==
    ASSUME OutboxInv, NEW g \in Events, SweepPublished(g)
    PROVE  UNCHANGED (Channel!vars)
<1>1. /\ row[g].published /\ row' = [row EXCEPT ![g].swept = TRUE] /\ RowsTyped(row)
      /\ UNCHANGED <<tx, seq, stream>>
  BY DEF SweepPublished, producerVars, brokerVars, OutboxInv, OutboxTyped
<1>2. row'[g].published = row[g].published /\ \A e \in Events : e # g => row'[e] = row[e]
  BY <1>1 DEF RowsTyped
<1>3. Marked' = Marked
  BY <1>1, <1>2 DEF Marked
<1> QED  BY <1>1, <1>3, SameStream, SameProducers DEF Channel!vars

LEMMA QuietRelays ==
    ASSUME OutboxInv, NEW r \in Relays, RelayStep(r) \/ StreamUnavailable(r) \/ RelayTimeout(r)
                                        \/ ConnectionDrops(r) \/ RelayCrash(r), ~RelayMark(r)
    PROVE  UNCHANGED (Channel!vars)
<1> USE DEF producerVars, brokerVars
<1>1. CASE RelayFail(r)
  <2>1. PICK g, n : row' = [row EXCEPT ![g].attempts = @ + 1, ![g].wait = n]
    BY <1>1 DEF RelayFail
  <2>2. RowsTyped(row) /\ UNCHANGED <<tx, seq, stream>>
    BY <1>1 DEF RelayFail, OutboxInv, OutboxTyped
  <2>3. \A e \in Events : row'[e].published = row[e].published /\ row'[e].swept = row[e].swept
    BY <2>1, <2>2 DEF RowsTyped
  <2> QED  BY <2>2, <2>3, QuietForListeners
<1>2. CASE ~RelayFail(r)
  <2>1. CASE RelayBegin(r) \/ RelayEnd(r) \/ RelayAcked(r) \/ RelayError(r)
    BY <2>1, QuietForListeners DEF RelayBegin, RelayEnd, RelayAcked, RelayError
  <2>2. CASE RelayHead(r) \/ RelayPublish(r)
    <3>1. UNCHANGED <<tx, seq, stream, row>>
      BY <2>2, Zenon DEF RelayHead, RelayPublish
    <3> QED  BY <3>1, QuietForListeners
  <2>3. CASE StreamUnavailable(r) \/ RelayTimeout(r) \/ ConnectionDrops(r) \/ RelayCrash(r)
    BY <2>3, QuietForListeners DEF StreamUnavailable, RelayTimeout, ConnectionDrops, RelayCrash
  <2> QED  BY <1>2, <2>1, <2>2, <2>3 DEF RelayStep
<1> QED  BY <1>1, <1>2

LEMMA QuietTick ==
    ASSUME OutboxInv, RelayTick
    PROVE  UNCHANGED (Channel!vars)
<1>1. /\ row' = [e \in Events |-> [row[e] EXCEPT !.wait = Less(@)]] /\ RowsTyped(row)
      /\ UNCHANGED <<tx, seq, stream>>
  BY DEF RelayTick, producerVars, OutboxInv, OutboxTyped
<1>2. \A e \in Events : row'[e].published = row[e].published /\ row'[e].swept = row[e].swept
  BY <1>1 DEF RowsTyped
<1> QED  BY <1>1, <1>2, QuietForListeners

LEMMA ChannelStep ==
    ASSUME OutboxInv, DistinctInv, [OutboxNext]_outboxVars
    PROVE  [Channel!Next]_(Channel!vars)
<1>1. ASSUME NEW t \in Txs, BeginTx(t) \/ CommitTx(t) \/ RollbackTx(t) PROVE [Channel!Next]_(Channel!vars)
  BY <1>1, QuietProducers, CommitAnnounces
<1>2. ASSUME NEW g \in Events, enqueue(g) \/ SweepPublished(g) PROVE [Channel!Next]_(Channel!vars)
  BY <1>2, QuietNumbering, QuietSweep
<1>3. ASSUME NEW g \in Events, StoreOrphan(g) PROVE [Channel!Next]_(Channel!vars)
  <2>1. MayStore(g) /\ UNCHANGED <<producerVars, row>>
    BY <1>3 DEF StoreOrphan, OutboxInv, OrphanInv, MayStore
  <2>2. CASE Store(g)
    BY <2>1, <2>2, StoreTells
  <2>3. CASE UNCHANGED <<stream, window>>
    BY <2>1, <2>3, QuietForListeners DEF producerVars
  <2> QED  BY <1>3, <2>2, <2>3 DEF StoreOrphan
<1>4. ASSUME NEW r \in Relays, StoreAwaited(r) PROVE [Channel!Next]_(Channel!vars)
  <2>1. PICK g : g = relay[r].event
    OBVIOUS
  <2>2. relay[r].pc = "wait" /\ Store(g) /\ UNCHANGED <<producerVars, row>>
    BY <1>4, <2>1 DEF StoreAwaited
  <2>3. g \in Events /\ MayStore(g)
    BY <2>1, <2>2, BusyMayStore DEF Busy
  <2> QED  BY <2>2, <2>3, StoreTells
<1>5. ASSUME NEW r \in Relays, RelayStep(r) \/ StreamUnavailable(r) \/ RelayTimeout(r)
                               \/ ConnectionDrops(r) \/ RelayCrash(r)
      PROVE  [Channel!Next]_(Channel!vars)
  BY <1>5, MarkSettles, QuietRelays
<1>6. CASE RelayTick
  BY <1>6, QuietTick
<1>7. CASE UNCHANGED outboxVars
  BY <1>7, QuietForListeners DEF outboxVars
<1> QED  BY <1>1, <1>2, <1>3, <1>4, <1>5, <1>6, <1>7 DEF OutboxNext

\* Services, relays and JetStream together are an ordered channel that repeats and never
\* loses, reorders or invents, for any number of transactions, events, instances and faults
\* (services/events.rs, repositories/event_outbox.rs).
THEOREM OutboxIsAChannel == OutboxSpec => ImplementsChannel
<1>1. OutboxInit => Channel!Init /\ DistinctInv
  <2> SUFFICES ASSUME OutboxInit PROVE Channel!Init /\ DistinctInv
    OBVIOUS
  <2>1. \A e \in Events : seq[e] = 0 /\ ~Committed(e) /\ row[e].published = FALSE /\ row[e].swept = FALSE
    BY DEF OutboxInit, Committed
  <2>2. stream = <<>> /\ Len(stream) = 0
    BY DEF OutboxInit
  <2>3. Announced = {} /\ Marked = {} /\ DistinctInv
    BY <2>1 DEF Announced, Marked, DistinctInv
  <2>4. AheadOf = {}
    BY <2>1 DEF AheadOf, Locked
  <2>5. Told = {}
    BY <2>2 DEF Told, Stored
  <2> QED  BY <2>3, <2>4, <2>5 DEF Channel!Init
<1>2. OutboxInv /\ DistinctInv /\ [OutboxNext]_outboxVars => DistinctInv' /\ [Channel!Next]_(Channel!vars)
  BY DistinctStep, ChannelStep
<1> QED
  BY <1>1, <1>2, OutboxInitOK, OutboxInvStep, PTL DEF OutboxSpec, ImplementsChannel, Channel!Spec
-----------------------------------------------------------------------------
(***************************************************************************)
(* Webhooks: the secrets.  Of an endpoint that nobody moved between an     *)
(* update's read and its write, that update knows the host.                *)
(***************************************************************************)
EndpointInv ==
    /\ endpoint \in [Endpoints -> Endpoint] /\ admin \in [Admins -> Admin]
    /\ \A a \in Admins : admin[a].pc = "update" =>
         admin[a].endpoint \in Endpoints /\ admin[a].input \in Inputs /\ checked(admin[a].input)
    /\ SecretIsOfTheHost

\* The secret of row x, as SecretIsOfTheHost has it.
SecretOK(x) == x.state = "registered" /\ ~x.crossed => x.secret = x.host

LEMMA EndpointFields ==
    ASSUME EndpointInv, NEW e \in Endpoints
    PROVE  endpoint[e] \in Endpoint /\ SecretOK(endpoint[e])
BY DEF EndpointInv, SecretIsOfTheHost, find_endpoint, SecretOK

LEMMA InputFields ==
    ASSUME NEW input \in Inputs, checked(input)
    PROVE  url_host(input.url) \in Hosts /\ input.enabled \in BOOLEAN
           /\ input.events \in SUBSET (EventNames \cup {"*"})
<1>1. input \in EndpointInput
  BY WebhooksAssumption
<1> QED  BY <1>1 DEF EndpointInput, checked, check_url, check_events, url_host

\* An endpoint's row becomes x.
LEMMA RowWritten ==
    ASSUME EndpointInv, admin' = admin, NEW e \in Endpoints, NEW x \in Endpoint, SecretOK(x),
           endpoint' = [endpoint EXCEPT ![e] = x]
    PROVE  EndpointInv'
<1>1. endpoint' \in [Endpoints -> Endpoint]
  BY DEF EndpointInv
<1>2. SecretIsOfTheHost'
  <2>1. ASSUME NEW f \in Endpoints PROVE SecretOK(endpoint'[f])
    BY EndpointFields, <1>1 DEF EndpointInv
  <2> QED  BY <2>1 DEF SecretIsOfTheHost, find_endpoint, SecretOK
<1> QED  BY <1>1, <1>2 DEF EndpointInv

LEMMA EndpointsInit == WebhooksInit => EndpointInv
<1> SUFFICES ASSUME WebhooksInit PROVE EndpointInv
  OBVIOUS
<1> DEFINE Fresh == {[state |-> s, host |-> h, secret |-> h, events |-> {"*"},
                      enabled |-> TRUE, crossed |-> FALSE] : h \in Hosts, s \in {"unused", "registered"}}
<1>1. endpoint \in [Endpoints -> Fresh] /\ admin = [a \in Admins |-> IdleAdmin]
  BY DEF WebhooksInit
<1>2. ASSUME NEW x \in Fresh PROVE x \in Endpoint /\ x.secret = x.host
  <2>1. PICK h \in Hosts, s \in {"unused", "registered"} :
            x = [state |-> s, host |-> h, secret |-> h, events |-> {"*"}, enabled |-> TRUE, crossed |-> FALSE]
    OBVIOUS
  <2>2. {"*"} \in SUBSET (EventNames \cup {"*"}) /\ s \in {"unused", "registered", "deleted"}
    OBVIOUS
  <2> HIDE DEF Fresh
  <2> QED  BY <2>1, <2>2 DEF Endpoint
<1>3. IdleAdmin \in Admin /\ IdleAdmin.pc = "idle"
  BY DEF IdleAdmin, Admin
<1> HIDE DEF Fresh
<1> QED  BY <1>1, <1>2, <1>3 DEF EndpointInv, SecretIsOfTheHost

LEMMA CreateOK ==
    ASSUME EndpointInv, CreateEndpoint
    PROVE  EndpointInv'
<1>1. PICK e \in Endpoints, input \in Inputs : create(e, input)
  BY DEF CreateEndpoint
<1> DEFINE x == create_endpoint(input)
<1>2. checked(input) /\ endpoint' = [endpoint EXCEPT ![e] = x] /\ admin' = admin
  BY <1>1 DEF create, CreateEndpoint
<1>3. x \in Endpoint /\ SecretOK(x)
  BY <1>2, InputFields DEF create_endpoint, new_secret, Endpoint, SecretOK
<1> HIDE DEF x
<1> QED  BY <1>2, <1>3, RowWritten

LEMMA StartUpdateOK ==
    ASSUME EndpointInv, NEW a \in Admins, StartUpdate(a)
    PROVE  EndpointInv'
<1>1. PICK e \in Endpoints, input \in Inputs : UpdateRead(a, e, input)
  BY DEF StartUpdate
<1> DEFINE x == [pc |-> "update", endpoint |-> e, input |-> input, previous |-> endpoint[e].host]
<1>2. checked(input) /\ admin' = [admin EXCEPT ![a] = x] /\ endpoint' = endpoint
  BY <1>1 DEF UpdateRead, StartUpdate
<1>3. x \in Admin /\ x.endpoint = e /\ x.input = input
  BY EndpointFields DEF Admin, Endpoint
<1> HIDE DEF x
<1>4. admin' \in [Admins -> Admin] /\ admin'[a] = x /\ \A b \in Admins : b # a => admin'[b] = admin[b]
  BY <1>2, <1>3 DEF EndpointInv
<1> QED  BY <1>2, <1>3, <1>4 DEF EndpointInv, SecretIsOfTheHost, find_endpoint

LEMMA UpdateOK ==
    ASSUME EndpointInv, NEW a \in Admins, UpdateEndpoint(a)
    PROVE  EndpointInv'
<1> DEFINE e == admin[a].endpoint
           input == admin[a].input
           previous == admin[a].previous
           host == url_host(input.url)
           row0 == update_endpoint(endpoint[e], input)
           row1 == [row0 EXCEPT !.crossed = @ \/ endpoint[e].host # previous]
           x == IF previous # host THEN replace_secret(row1, new_secret(host)) ELSE row1
<1>1. /\ e \in Endpoints /\ input \in Inputs /\ checked(input)
      /\ endpoint' = IF ~find_endpoint(e) THEN endpoint ELSE [endpoint EXCEPT ![e] = x]
      /\ admin' = [admin EXCEPT ![a] = IdleAdmin]
  BY DEF EndpointInv, UpdateEndpoint, update
<1>2. endpoint[e] \in Endpoint /\ SecretOK(endpoint[e])
  BY <1>1, EndpointFields
<1>3. host \in Hosts /\ input.enabled \in BOOLEAN /\ input.events \in SUBSET (EventNames \cup {"*"})
  BY <1>1, InputFields
<1>4. /\ row0 \in Endpoint /\ row0.host = host /\ row0.secret = endpoint[e].secret
      /\ row0.crossed = endpoint[e].crossed /\ row0.state = endpoint[e].state
  BY <1>2, <1>3 DEF update_endpoint, Endpoint
<1> HIDE DEF row0, host
<1>5. /\ row1 \in Endpoint /\ row1.host = host /\ row1.secret = endpoint[e].secret
      /\ row1.crossed = (endpoint[e].crossed \/ endpoint[e].host # previous)
      /\ row1.state = endpoint[e].state
  BY <1>4, <1>2 DEF Endpoint
<1> HIDE DEF row1
<1>6. x \in Endpoint /\ SecretOK(x)
  <2>1. CASE previous # host
    BY <2>1, <1>3, <1>5 DEF replace_secret, new_secret, Endpoint, SecretOK
  <2>2. CASE previous = host
    BY <2>2, <1>2, <1>5 DEF SecretOK
  <2> QED  BY <2>1, <2>2
<1> HIDE DEF x, e
<1>7. endpoint' \in [Endpoints -> Endpoint] /\ \A f \in Endpoints : SecretOK(endpoint'[f])
  BY <1>1, <1>6, EndpointFields DEF EndpointInv
<1>8. IdleAdmin \in Admin /\ IdleAdmin.pc = "idle"
  BY DEF IdleAdmin, Admin
<1>9. admin' \in [Admins -> Admin] /\ admin'[a] = IdleAdmin /\ \A b \in Admins : b # a => admin'[b] = admin[b]
  BY <1>1, <1>8 DEF EndpointInv
<1>10. SecretIsOfTheHost'
  BY <1>7 DEF SecretIsOfTheHost, find_endpoint, SecretOK
<1> QED  BY <1>7, <1>8, <1>9, <1>10 DEF EndpointInv

LEMMA RotateOK ==
    ASSUME EndpointInv, RotateSecret
    PROVE  EndpointInv'
<1>1. PICK e \in Endpoints : rotate_secret(e)
  BY DEF RotateSecret
<1> DEFINE x == replace_secret(endpoint[e], new_secret(endpoint[e].host))
<1>2. endpoint' = [endpoint EXCEPT ![e] = x] /\ admin' = admin
  BY <1>1 DEF rotate_secret, RotateSecret
<1>3. x \in Endpoint /\ SecretOK(x)
  BY EndpointFields DEF replace_secret, new_secret, Endpoint, SecretOK
<1> HIDE DEF x
<1> QED  BY <1>2, <1>3, RowWritten

LEMMA DeleteOK ==
    ASSUME EndpointInv, DeleteEndpoint
    PROVE  EndpointInv'
<1>1. PICK e \in Endpoints : delete(e)
  BY DEF DeleteEndpoint
<1> DEFINE x == delete_endpoint(endpoint[e])
<1>2. endpoint' = [endpoint EXCEPT ![e] = x] /\ admin' = admin
  BY <1>1 DEF delete, DeleteEndpoint
<1>3. x \in Endpoint /\ SecretOK(x)
  BY EndpointFields DEF delete_endpoint, Endpoint, SecretOK
<1> HIDE DEF x
<1> QED  BY <1>2, <1>3, RowWritten

\* The secret an enabled endpoint signs with is never one a former host was shown, for any
\* number of endpoints, hosts and administrators: moving an endpoint renews it, except when
\* the update decided on a host that had changed since it looked.
THEOREM SecretOfHost == WebhooksSpec => []SecretIsOfTheHost
<1>1. EndpointInv /\ [WebhooksNext]_webhookVars => EndpointInv'
  <2> SUFFICES ASSUME EndpointInv, [WebhooksNext]_webhookVars PROVE EndpointInv'
    OBVIOUS
  <2>1. CASE UNCHANGED <<endpoint, admin>>
    BY <2>1 DEF EndpointInv, SecretIsOfTheHost, find_endpoint
  <2>2. CASE Dispatch \/ (\E w \in Tasks : DispatcherStops(w)) \/ WebhooksTick \/ retry \/ UNCHANGED webhookVars
    BY <2>1, <2>2 DEF Dispatch, claim_due, attempt, mark_delivered, mark_attempt_failed, DispatcherStops,
       WebhooksTick, retry, webhookVars
  <2>3. CASE \E d \in Deliveries : record_event(d) \/ SweepFinished(d)
    BY <2>1, <2>3 DEF record_event, SweepFinished
  <2>4. CASE \E a \in Admins : StartUpdate(a) \/ UpdateEndpoint(a)
    BY <2>4, StartUpdateOK, UpdateOK
  <2>5. CASE CreateEndpoint \/ RotateSecret \/ DeleteEndpoint
    BY <2>5, CreateOK, RotateOK, DeleteOK
  <2> QED  BY <2>2, <2>3, <2>4, <2>5 DEF WebhooksNext
<1>2. EndpointInv => SecretIsOfTheHost
  BY DEF EndpointInv
<1> QED  BY <1>1, <1>2, EndpointsInit, PTL DEF WebhooksSpec
-----------------------------------------------------------------------------
(***************************************************************************)
(* Webhooks: the attempts.  A delivery nobody queued again is leased for   *)
(* as long as its attempt has left to run, so none other can claim it, and *)
(* its row still says what the attempt read.                               *)
(***************************************************************************)
DeliveryFields == {"state", "attempts", "wait", "delivered", "failed", "round"}

DispatchTyped ==
    /\ delivery = [d \in Deliveries |-> delivery[d]]
    /\ \A d \in Deliveries : /\ DOMAIN delivery[d] = DeliveryFields
                             /\ delivery[d] = [f \in DeliveryFields |-> delivery[d][f]]
                             /\ delivery[d].attempts \in Nat /\ delivery[d].round \in Nat
    /\ task \in [Tasks -> Task]

\* What the attempt x relies on in row v.
Leased(x, v) ==
    /\ v.attempts = x.attempts /\ x.attempts < MaxAttempts
    /\ v.wait = Lease - x.age
    /\ ~v.delivered /\ ~v.failed

AttemptInv ==
    \A w \in Tasks : task[w].pc # "idle" =>
        /\ task[w].delivery \in Deliveries /\ task[w].age <= AttemptTime
        /\ task[w].pc = "ok" => task[w].delivery \in received
        /\ delivery[task[w].delivery].round = 0 => Leased(task[w], delivery[task[w].delivery])

AloneInv ==
    \A w, v \in Tasks :
        task[w].pc # "idle" /\ task[v].pc # "idle" /\ task[w].delivery = task[v].delivery
        /\ delivery[task[w].delivery].round = 0 => w = v

OutcomeInv ==
    \A d \in Deliveries : delivery[d].round = 0 =>
        /\ delivery[d].delivered => d \in received
        /\ delivery[d].failed => delivery[d].attempts = MaxAttempts
        /\ ~delivery[d].delivered /\ ~delivery[d].failed => delivery[d].attempts < MaxAttempts

DispatchInv == DispatchTyped /\ AttemptInv /\ AloneInv /\ OutcomeInv

LEMMA DispatchInit == WebhooksInit => DispatchInv
<1> SUFFICES ASSUME WebhooksInit PROVE DispatchInv
  OBVIOUS
<1> DEFINE v == [state |-> "none", attempts |-> 0, wait |-> 0, delivered |-> FALSE,
                 failed |-> FALSE, round |-> 0]
<1>1. delivery = [d \in Deliveries |-> v] /\ task = [w \in Tasks |-> IdleTask]
  BY DEF WebhooksInit
<1>2. /\ DOMAIN v = DeliveryFields /\ v = [f \in DeliveryFields |-> v[f]]
      /\ v.attempts = 0 /\ v.round = 0 /\ v.delivered = FALSE /\ v.failed = FALSE
  BY DEF DeliveryFields
<1>3. IdleTask \in Task /\ IdleTask.pc = "idle"
  BY DEF IdleTask, Task
<1> HIDE DEF v
<1>4. DispatchTyped /\ AttemptInv /\ AloneInv
  BY <1>1, <1>2, <1>3 DEF DispatchTyped, AttemptInv, AloneInv
<1>5. OutcomeInv
  BY <1>1, <1>2, WebhooksAssumption DEF OutcomeInv
<1> QED  BY <1>4, <1>5 DEF DispatchInv

\* A row's state, which the attempts do not look at.
LEMMA StateWritten ==
    ASSUME DispatchInv, UNCHANGED <<received, task>>,
           delivery' = [d \in Deliveries |-> delivery'[d]],
           \A d \in Deliveries : \E s : delivery'[d] = [delivery[d] EXCEPT !.state = s]
    PROVE  DispatchInv'
<1>1. ASSUME NEW d \in Deliveries
      PROVE  /\ DOMAIN delivery'[d] = DeliveryFields
             /\ delivery'[d] = [f \in DeliveryFields |-> delivery'[d][f]]
             /\ delivery'[d].attempts = delivery[d].attempts /\ delivery'[d].round = delivery[d].round
             /\ delivery'[d].wait = delivery[d].wait
             /\ delivery'[d].delivered = delivery[d].delivered /\ delivery'[d].failed = delivery[d].failed
  <2>1. PICK s : delivery'[d] = [delivery[d] EXCEPT !.state = s]
    OBVIOUS
  <2>2. DOMAIN delivery[d] = DeliveryFields /\ delivery[d] = [f \in DeliveryFields |-> delivery[d][f]]
    BY DEF DispatchInv, DispatchTyped
  <2> QED  BY <2>1, <2>2 DEF DeliveryFields
<1>2. task' = task /\ received' = received
  OBVIOUS
<1>3. DispatchTyped'
  BY <1>1, <1>2 DEF DispatchInv, DispatchTyped
<1>4. AttemptInv'
  BY <1>1, <1>2 DEF DispatchInv, AttemptInv, Leased
<1>5. AloneInv'
  BY <1>1, <1>2 DEF DispatchInv, AttemptInv, AloneInv
<1>6. OutcomeInv'
  BY <1>1, <1>2 DEF DispatchInv, OutcomeInv
<1> QED  BY <1>3, <1>4, <1>5, <1>6 DEF DispatchInv

LEMMA StatesOK ==
    ASSUME DispatchInv, \/ \E d \in Deliveries : record_event(d) \/ SweepFinished(d)
                        \/ DeleteEndpoint
    PROVE  DispatchInv'
<1>1. delivery = [d \in Deliveries |-> delivery[d]]
  BY DEF DispatchInv, DispatchTyped
<1>2. \A d \in Deliveries : delivery[d] = [delivery[d] EXCEPT !.state = delivery[d].state]
  BY DEF DispatchInv, DispatchTyped, DeliveryFields
<1>3. ASSUME NEW d \in Deliveries, NEW s, delivery' = [delivery EXCEPT ![d].state = s]
      PROVE  /\ delivery' = [x \in Deliveries |-> delivery'[x]]
             /\ \A x \in Deliveries : \E z : delivery'[x] = [delivery[x] EXCEPT !.state = z]
  BY <1>1, <1>2, <1>3
<1>4. CASE \E d \in Deliveries : record_event(d) \/ SweepFinished(d)
  <2>1. UNCHANGED <<received, task>> /\ \E d \in Deliveries : \E s : delivery' = [delivery EXCEPT ![d].state = s]
    BY <1>4 DEF record_event, SweepFinished
  <2> QED  BY <2>1, <1>3, StateWritten
<1>5. CASE DeleteEndpoint
  <2>1. PICK e \in Endpoints : DropDeliveries(e)
    BY <1>5 DEF DeleteEndpoint, delete
  <2>2. /\ delivery' = [x \in Deliveries |-> delivery'[x]]
        /\ \A x \in Deliveries : \E z : delivery'[x] = [delivery[x] EXCEPT !.state = z]
    BY <2>1, <1>2 DEF DropDeliveries
  <2> QED  BY <2>2, <1>5, StateWritten DEF DeleteEndpoint
<1> QED  BY <1>4, <1>5
\* v is a row.
RowShape(v) == /\ DOMAIN v = DeliveryFields /\ v = [f \in DeliveryFields |-> v[f]]
               /\ v.attempts \in Nat /\ v.round \in Nat

\* Row d becomes v; task w becomes x, which works on nothing or on d.
LEMMA OneRowOneTask ==
    ASSUME DispatchInv, NEW w \in Tasks, NEW x \in Task, task' = [task EXCEPT ![w] = x],
           NEW d \in Deliveries, NEW v, RowShape(v), delivery' = [delivery EXCEPT ![d] = v],
           received \subseteq received',
           \* the others that work on d rely on nothing
           v.round = 0 => \A u \in Tasks : u # w => task[u].pc = "idle" \/ task[u].delivery # d,
           x.pc # "idle" => /\ x.delivery = d /\ x.age <= AttemptTime
                            /\ x.pc = "ok" => d \in received'
                            /\ v.round = 0 => Leased(x, v),
           v.round = 0 => /\ v.delivered => d \in received'
                          /\ v.failed => v.attempts = MaxAttempts
                          /\ ~v.delivered /\ ~v.failed => v.attempts < MaxAttempts
    PROVE  DispatchInv'
<1>1. task' \in [Tasks -> Task] /\ task'[w] = x /\ \A u \in Tasks : u # w => task'[u] = task[u]
  BY DEF DispatchInv, DispatchTyped
<1>2. /\ delivery' = [y \in Deliveries |-> delivery'[y]] /\ delivery'[d] = v
      /\ \A y \in Deliveries : y # d => delivery'[y] = delivery[y]
  BY DEF DispatchInv, DispatchTyped
<1>3. DispatchTyped'
  BY <1>1, <1>2 DEF DispatchInv, DispatchTyped, RowShape
<1>4. AttemptInv'
  <2>1. ASSUME NEW u \in Tasks, task'[u].pc # "idle"
        PROVE  /\ task'[u].delivery \in Deliveries /\ task'[u].age <= AttemptTime
               /\ task'[u].pc = "ok" => task'[u].delivery \in received'
               /\ delivery'[task'[u].delivery].round = 0 => Leased(task'[u], delivery'[task'[u].delivery])
    <3>1. CASE u = w
      BY <3>1, <2>1, <1>1, <1>2
    <3>2. CASE u # w /\ task[u].delivery # d
      BY <3>2, <2>1, <1>1, <1>2 DEF DispatchInv, AttemptInv
    <3>3. CASE u # w /\ task[u].delivery = d
      BY <3>3, <2>1, <1>1, <1>2 DEF DispatchInv, AttemptInv
    <3> QED  BY <3>1, <3>2, <3>3
  <2> QED  BY <2>1 DEF AttemptInv
<1>5. AloneInv'
  <2>1. ASSUME NEW t \in Tasks, NEW u \in Tasks, task'[t].pc # "idle", task'[u].pc # "idle",
               task'[t].delivery = task'[u].delivery, delivery'[task'[t].delivery].round = 0
        PROVE  t = u
    <3>1. task'[t].delivery \in Deliveries
      BY <2>1, <1>4 DEF AttemptInv
    <3>2. CASE task'[t].delivery = d
      BY <3>2, <2>1, <1>1, <1>2
    <3>3. CASE task'[t].delivery # d
      BY <3>1, <3>3, <2>1, <1>1, <1>2 DEF DispatchInv, AloneInv
    <3> QED  BY <3>2, <3>3
  <2> QED  BY <2>1 DEF AloneInv
<1>6. OutcomeInv'
  BY <1>2 DEF DispatchInv, OutcomeInv
<1> QED  BY <1>3, <1>4, <1>5, <1>6 DEF DispatchInv

\* Only task w moves: it goes on with its delivery, or stops.
LEMMA OneTask ==
    ASSUME DispatchInv, NEW w \in Tasks, NEW x \in Task, task' = [task EXCEPT ![w] = x],
           delivery' = delivery, received \subseteq received',
           x.pc # "idle" => /\ task[w].pc # "idle" /\ x.delivery = task[w].delivery
                            /\ x.age = task[w].age /\ x.attempts = task[w].attempts
                            /\ x.pc = "ok" => x.delivery \in received'
    PROVE  DispatchInv'
<1>1. task' \in [Tasks -> Task] /\ task'[w] = x /\ \A u \in Tasks : u # w => task'[u] = task[u]
  BY DEF DispatchInv, DispatchTyped
<1>2. DispatchTyped' /\ OutcomeInv'
  BY <1>1 DEF DispatchInv, DispatchTyped, OutcomeInv
<1>3. AttemptInv'
  <2>1. ASSUME NEW u \in Tasks, task'[u].pc # "idle"
        PROVE  /\ task'[u].delivery \in Deliveries /\ task'[u].age <= AttemptTime
               /\ task'[u].pc = "ok" => task'[u].delivery \in received'
               /\ delivery[task'[u].delivery].round = 0 => Leased(task'[u], delivery[task'[u].delivery])
    <3>1. CASE u = w
      BY <3>1, <2>1, <1>1 DEF DispatchInv, AttemptInv, Leased
    <3>2. CASE u # w
      BY <3>2, <2>1, <1>1 DEF DispatchInv, AttemptInv
    <3> QED  BY <3>1, <3>2
  <2> QED  BY <2>1 DEF AttemptInv
<1>4. AloneInv'
  BY <1>1 DEF DispatchInv, AloneInv
<1> QED  BY <1>2, <1>3, <1>4 DEF DispatchInv

LEMMA IdleTaskOK == IdleTask \in Task /\ IdleTask.pc = "idle"
BY DEF IdleTask, Task

LEMMA ShapeOf ==
    ASSUME DispatchInv, NEW d \in Deliveries
    PROVE  RowShape(delivery[d])
BY DEF DispatchInv, DispatchTyped, RowShape

\* The lease of a running attempt has not ended.
LEMMA ClaimOK ==
    ASSUME AttemptTime < Lease, DispatchInv, NEW w \in Tasks, NEW d \in Deliveries, claim_due(w, d)
    PROVE  DispatchInv'
<1> DEFINE v == [delivery[d] EXCEPT !.wait = Lease]
           x == [pc |-> "sending", delivery |-> d, attempts |-> delivery[d].attempts, age |-> 0]
<1>1. /\ delivery' = [delivery EXCEPT ![d] = v] /\ task' = [task EXCEPT ![w] = x]
      /\ received' = received /\ Pending(d) /\ delivery[d].wait = 0
  BY DEF claim_due, Due
<1>2. RowShape(delivery[d])
  BY ShapeOf
<1>3. /\ RowShape(v) /\ v.wait = Lease /\ v.attempts = delivery[d].attempts /\ v.round = delivery[d].round
      /\ v.delivered = delivery[d].delivered /\ v.failed = delivery[d].failed
  BY <1>2 DEF RowShape, DeliveryFields
<1>4. x \in Task /\ x.pc = "sending" /\ x.delivery = d /\ x.attempts = delivery[d].attempts /\ x.age = 0
  BY <1>2 DEF Task, RowShape
<1> HIDE DEF v, x
<1>5. Lease \in Nat /\ AttemptTime \in Nat /\ MaxAttempts \in Nat
  BY WebhooksAssumption
<1>6. ASSUME v.round = 0, NEW u \in Tasks, task[u].pc # "idle", task[u].delivery = d
      PROVE  FALSE
  <2>1. task[u].age \in Nat /\ task[u].age <= AttemptTime /\ delivery[d].wait = Lease - task[u].age
    BY <1>3, <1>6 DEF DispatchInv, DispatchTyped, AttemptInv, Leased, Task
  <2> QED  BY <2>1, <1>1, <1>5
<1>7. ~delivery[d].delivered /\ ~delivery[d].failed
  BY <1>1 DEF Pending
<1>8. v.round = 0 => v.attempts < MaxAttempts /\ ~v.delivered /\ ~v.failed
  BY <1>3, <1>7 DEF DispatchInv, OutcomeInv
<1>9. v.round = 0 => Leased(x, v)
  BY <1>3, <1>4, <1>5, <1>8 DEF Leased
<1>10. 0 <= AttemptTime
  BY <1>5
<1> QED  BY <1>1, <1>3, <1>4, <1>6, <1>8, <1>9, <1>10, OneRowOneTask

LEMMA AttemptOK ==
    ASSUME DispatchInv, NEW w \in Tasks, attempt(w)
    PROVE  DispatchInv'
<1>1. task[w] \in Task
  BY DEF DispatchInv, DispatchTyped
<1>2. PICK p \in {"ok", "error"} :
         /\ task' = [task EXCEPT ![w].pc = p] /\ delivery' = delivery /\ received \subseteq received'
         /\ p = "ok" => task[w].delivery \in received'
         /\ task[w].pc = "sending"
  BY DEF attempt
<1> DEFINE x == [task[w] EXCEPT !.pc = p]
<1>3. /\ x \in Task /\ x.pc = p /\ x.delivery = task[w].delivery /\ x.age = task[w].age
      /\ x.attempts = task[w].attempts /\ task' = [task EXCEPT ![w] = x]
  BY <1>1, <1>2 DEF Task
<1> HIDE DEF x
<1> QED  BY <1>2, <1>3, OneTask

LEMMA StopsOK ==
    ASSUME DispatchInv, NEW w \in Tasks, Forget(w), delivery' = delivery, received' = received
    PROVE  DispatchInv'
<1>1. task' = [task EXCEPT ![w] = IdleTask]
  BY DEF Forget
<1> QED  BY <1>1, IdleTaskOK, OneTask

\* A task that ends writes row v of its delivery, on which it worked alone or which was
\* queued again.
LEMMA RecordOK ==
    ASSUME DispatchInv, NEW w \in Tasks, task[w].pc # "idle", Forget(w), received' = received,
           NEW v, RowShape(v), delivery' = [delivery EXCEPT ![task[w].delivery] = v],
           v.round = delivery[task[w].delivery].round,
           v.round = 0 => /\ v.delivered => task[w].delivery \in received
                          /\ v.failed => v.attempts = MaxAttempts
                          /\ ~v.delivered /\ ~v.failed => v.attempts < MaxAttempts
    PROVE  DispatchInv'
<1>1. task' = [task EXCEPT ![w] = IdleTask]
  BY DEF Forget
<1>2. task[w].delivery \in Deliveries
  BY DEF DispatchInv, AttemptInv
<1>3. v.round = 0 => \A u \in Tasks : u # w => task[u].pc = "idle" \/ task[u].delivery # task[w].delivery
  BY DEF DispatchInv, AloneInv
<1> QED  BY <1>1, <1>2, <1>3, IdleTaskOK, OneRowOneTask

LEMMA DeliveredOK ==
    ASSUME DispatchInv, NEW w \in Tasks, mark_delivered(w)
    PROVE  DispatchInv'
<1> DEFINE d == task[w].delivery
           v == [delivery[d] EXCEPT !.delivered = TRUE, !.attempts = @ + 1]
<1>0. task[w].pc = "ok" /\ Forget(w) /\ received' = received
  BY DEF mark_delivered
<1>1. CASE delivery' = delivery
  BY <1>0, <1>1, StopsOK
<1>2. CASE delivery' = [delivery EXCEPT ![d].delivered = TRUE, ![d].attempts = @ + 1] /\ ~delivery[d].failed
  <2>1. d \in Deliveries /\ d \in received
    BY <1>0 DEF DispatchInv, AttemptInv
  <2>2. RowShape(delivery[d]) /\ delivery' = [delivery EXCEPT ![d] = v]
    BY <2>1, <1>2, ShapeOf
  <2>attempts. delivery[d].attempts + 1 \in Nat
    BY <2>2 DEF RowShape
  <2>3. RowShape(v) /\ v.delivered = TRUE /\ v.failed = delivery[d].failed /\ v.round = delivery[d].round
    <3> DEFINE n == delivery[d].attempts + 1
               y == [delivery[d] EXCEPT !.delivered = TRUE, !.attempts = n]
    <3>1. n \in Nat /\ v = y
      BY <2>attempts
    <3> HIDE DEF n, v
    <3>2. /\ DOMAIN y = DeliveryFields /\ y = [f \in DeliveryFields |-> y[f]] /\ y.attempts = n
          /\ y.delivered = TRUE /\ y.failed = delivery[d].failed /\ y.round = delivery[d].round
      BY <2>2, Zenon DEF RowShape, DeliveryFields
    <3> HIDE DEF y
    <3> QED  BY <2>2, <3>1, <3>2 DEF RowShape
  <2> HIDE DEF v
  <2> QED  BY <2>1, <2>2, <2>3, <1>0, <1>2, RecordOK
<1> QED  BY <1>1, <1>2 DEF mark_delivered

LEMMA FailedOK ==
    ASSUME DispatchInv, NEW w \in Tasks, mark_attempt_failed(w)
    PROVE  DispatchInv'
<1> DEFINE d == task[w].delivery
           last == task[w].attempts + 1 >= MaxAttempts
           late == retry_delay(task[w].attempts + 1)
           v == [delivery[d] EXCEPT !.attempts = @ + 1, !.failed = last,
                                    !.wait = IF last THEN @ ELSE late]
<1>0. task[w].pc = "error" /\ Forget(w) /\ received' = received
  BY DEF mark_attempt_failed
<1>1. CASE delivery' = delivery
  BY <1>0, <1>1, StopsOK
<1>2. CASE delivery' = [delivery EXCEPT ![d].attempts = @ + 1, ![d].failed = last,
                                        ![d].wait = IF last THEN @ ELSE late]
  <2>1. d \in Deliveries
    BY <1>0 DEF DispatchInv, AttemptInv
  <2>2. RowShape(delivery[d]) /\ delivery' = [delivery EXCEPT ![d] = v]
    BY <2>1, <1>2, ShapeOf
  <2> HIDE DEF late
  <2>attempts. delivery[d].attempts + 1 \in Nat
    BY <2>2 DEF RowShape
  <2>3. /\ RowShape(v) /\ v.delivered = delivery[d].delivered /\ v.failed = last
        /\ v.round = delivery[d].round /\ v.attempts = delivery[d].attempts + 1
    <3> DEFINE n == delivery[d].attempts + 1
               wt == IF last THEN delivery[d].wait ELSE late
               y == [delivery[d] EXCEPT !.attempts = n, !.failed = last, !.wait = wt]
    <3>1. n \in Nat /\ v = y
      BY <2>attempts
    <3> HIDE DEF n, v, wt, last
    <3>2. /\ DOMAIN y = DeliveryFields /\ y = [f \in DeliveryFields |-> y[f]] /\ y.attempts = n
          /\ y.delivered = delivery[d].delivered /\ y.failed = last /\ y.round = delivery[d].round
      BY <2>2, Zenon DEF RowShape, DeliveryFields
    <3> HIDE DEF y
    <3>3. RowShape(v) /\ v.delivered = delivery[d].delivered /\ v.failed = last
          /\ v.round = delivery[d].round /\ v.attempts = n
      BY <2>2, <3>1, <3>2 DEF RowShape
    <3> QED  BY <3>3 DEF n
  <2>4. ASSUME v.round = 0
        PROVE  /\ v.delivered => d \in received
               /\ v.failed => v.attempts = MaxAttempts
               /\ ~v.delivered /\ ~v.failed => v.attempts < MaxAttempts
    <3>1. Leased(task[w], delivery[d])
      BY <2>3, <2>4, <1>0 DEF DispatchInv, AttemptInv
    <3>2. v.attempts = task[w].attempts + 1 /\ task[w].attempts < MaxAttempts /\ ~v.delivered
      BY <3>1, <2>3 DEF Leased
    <3>3. task[w].attempts \in Nat /\ MaxAttempts \in Nat
      BY WebhooksAssumption DEF DispatchInv, DispatchTyped, Task
    <3>4. v.failed = (task[w].attempts + 1 >= MaxAttempts)
      BY <2>3
    <3> DEFINE k == v.attempts
               m == task[w].attempts
    <3>5. v.failed => k = MaxAttempts
      <4>1. k = m + 1 /\ m < MaxAttempts /\ m \in Nat /\ MaxAttempts \in Nat /\ (v.failed => m + 1 >= MaxAttempts)
        BY <3>2, <3>3, <3>4
      <4> HIDE DEF k, m, v
      <4> QED  BY <4>1
    <3>6. ~v.failed => k < MaxAttempts
      <4>1. k = m + 1 /\ m \in Nat /\ MaxAttempts \in Nat /\ (~v.failed => ~(m + 1 >= MaxAttempts))
        BY <3>2, <3>3, <3>4
      <4> HIDE DEF k, m, v
      <4> QED  BY <4>1
    <3> HIDE DEF v
    <3> QED  BY <3>2, <3>5, <3>6
  <2> HIDE DEF v
  <2> QED  BY <2>2, <2>3, <2>4, <1>0, RecordOK
<1> QED  BY <1>1, <1>2 DEF mark_attempt_failed, SetFailed

LEMMA RetryOK ==
    ASSUME DispatchInv, retry
    PROVE  DispatchInv'
<1>1. PICK d \in Deliveries : delivery' = [delivery EXCEPT ![d] = QueueAgain(delivery[d])]
  BY DEF retry, redeliver
<1> DEFINE v == QueueAgain(delivery[d])
<1>2. task' = task /\ received' = received
  BY DEF retry
<1>3. RowShape(v) /\ v.round # 0
  <2> DEFINE n == delivery[d].round + 1
             y == [delivery[d] EXCEPT !.attempts = 0, !.failed = FALSE, !.delivered = FALSE, !.wait = 0,
                                      !.round = n]
  <2>1. RowShape(delivery[d])
    BY ShapeOf
  <2>2. n \in Nat /\ n # 0 /\ v = y
    BY <2>1 DEF RowShape, QueueAgain
  <2> HIDE DEF n, v
  <2>3. DOMAIN y = DeliveryFields /\ y = [f \in DeliveryFields |-> y[f]] /\ y.attempts = 0 /\ y.round = n
    BY <2>1, Zenon DEF RowShape, DeliveryFields
  <2> HIDE DEF y
  <2> QED  BY <2>2, <2>3 DEF RowShape
<1> HIDE DEF v
<1>4. /\ delivery' = [y \in Deliveries |-> delivery'[y]] /\ delivery'[d] = v
      /\ \A y \in Deliveries : y # d => delivery'[y] = delivery[y]
  BY <1>1 DEF DispatchInv, DispatchTyped, v
<1>5. DispatchTyped' /\ OutcomeInv'
  BY <1>2, <1>3, <1>4 DEF DispatchInv, DispatchTyped, OutcomeInv, RowShape
<1>6. AttemptInv'
  BY <1>2, <1>3, <1>4 DEF DispatchInv, AttemptInv
<1>7. AloneInv'
  BY <1>2, <1>3, <1>4, <1>6 DEF DispatchInv, AloneInv, AttemptInv
<1> QED  BY <1>5, <1>6, <1>7 DEF DispatchInv

\* A lease and its attempt grow old together.
LEMMA TickOK ==
    ASSUME AttemptTime < Lease, DispatchInv, WebhooksTick
    PROVE  DispatchInv'
<1>0. Lease \in Nat /\ AttemptTime \in Nat
  BY WebhooksAssumption
<1>1. received' = received
  BY DEF WebhooksTick
<1>2. ASSUME NEW d \in Deliveries
      PROVE  /\ RowShape(delivery'[d])
             /\ delivery'[d].attempts = delivery[d].attempts /\ delivery'[d].round = delivery[d].round
             /\ delivery'[d].delivered = delivery[d].delivered /\ delivery'[d].failed = delivery[d].failed
             /\ delivery'[d].wait = IF delivery[d].wait > 0 THEN delivery[d].wait - 1 ELSE 0
  <2> DEFINE less == IF delivery[d].wait > 0 THEN delivery[d].wait - 1 ELSE 0
  <2>1. delivery'[d] = [delivery[d] EXCEPT !.wait = less]
    BY DEF WebhooksTick
  <2> HIDE DEF less
  <2>2. /\ RowShape(delivery'[d])
        /\ delivery'[d].attempts = delivery[d].attempts /\ delivery'[d].round = delivery[d].round
        /\ delivery'[d].delivered = delivery[d].delivered /\ delivery'[d].failed = delivery[d].failed
        /\ delivery'[d].wait = less
    BY <2>1, ShapeOf DEF RowShape, DeliveryFields
  <2> QED  BY <2>2 DEF less
<1>3. ASSUME NEW w \in Tasks
      PROVE  /\ task'[w] \in Task /\ task'[w].pc = task[w].pc /\ task'[w].delivery = task[w].delivery
             /\ task'[w].attempts = task[w].attempts
             /\ task[w].pc # "idle" => task'[w].age = task[w].age + 1 /\ task'[w].age <= AttemptTime
  <2>1. task[w] \in Task
    BY DEF DispatchInv, DispatchTyped
  <2>2. /\ task[w].pc # "idle" => task[w].age < AttemptTime
        /\ task'[w] = IF task[w].pc = "idle" THEN task[w] ELSE [task[w] EXCEPT !.age = @ + 1]
    BY DEF WebhooksTick
  <2>3. CASE task[w].pc = "idle"
    BY <2>1, <2>2, <2>3
  <2>4. CASE task[w].pc # "idle"
    <3>1. task[w].age \in Nat /\ task[w].age < AttemptTime
      BY <2>1, <2>2, <2>4 DEF Task
    <3>2. /\ task'[w] \in Task /\ task'[w].pc = task[w].pc /\ task'[w].delivery = task[w].delivery
          /\ task'[w].attempts = task[w].attempts /\ task'[w].age = task[w].age + 1
      BY <2>1, <2>2, <2>4, <3>1 DEF Task
    <3> QED  BY <3>1, <3>2, <1>0
  <2> QED  BY <2>3, <2>4
<1>4. DispatchTyped'
  <2>1. delivery' = [d \in Deliveries |-> delivery'[d]] /\ task' \in [Tasks -> Task]
    BY <1>3 DEF WebhooksTick
  <2> QED  BY <2>1, <1>2 DEF DispatchTyped, RowShape
<1>5. AttemptInv'
  <2>1. ASSUME NEW w \in Tasks, task'[w].pc # "idle"
        PROVE  /\ task'[w].delivery \in Deliveries /\ task'[w].age <= AttemptTime
               /\ task'[w].pc = "ok" => task'[w].delivery \in received'
               /\ delivery'[task'[w].delivery].round = 0 => Leased(task'[w], delivery'[task'[w].delivery])
    <3> DEFINE d == task[w].delivery
    <3>1. /\ task[w].pc # "idle" /\ d \in Deliveries /\ task[w].age \in Nat /\ task'[w].delivery = d
          /\ task[w].pc = "ok" => d \in received
          /\ delivery[d].round = 0 => Leased(task[w], delivery[d])
      BY <2>1, <1>3 DEF DispatchInv, DispatchTyped, AttemptInv, Task
    <3> HIDE DEF d
    <3>2. ASSUME delivery'[d].round = 0 PROVE Leased(task'[w], delivery'[d])
      <4>1. Leased(task[w], delivery[d])
        BY <3>1, <3>2, <1>2
      <4>2. delivery'[d].wait = Lease - task'[w].age
        <5>1. /\ delivery[d].wait = Lease - task[w].age /\ task'[w].age = task[w].age + 1
              /\ task'[w].age <= AttemptTime
              /\ delivery'[d].wait = IF delivery[d].wait > 0 THEN delivery[d].wait - 1 ELSE 0
          BY <4>1, <3>1, <1>2, <1>3 DEF Leased
        <5> QED  BY <5>1, <3>1, <1>0
      <4> QED  BY <4>1, <4>2, <3>1, <1>2, <1>3 DEF Leased
    <3> QED  BY <3>1, <3>2, <2>1, <1>1, <1>3
  <2> QED  BY <2>1 DEF AttemptInv
<1>6. AloneInv'
  <2>1. ASSUME NEW t \in Tasks, NEW u \in Tasks, task'[t].pc # "idle", task'[u].pc # "idle",
               task'[t].delivery = task'[u].delivery, delivery'[task'[t].delivery].round = 0
        PROVE  t = u
    BY <2>1, <1>2, <1>3 DEF DispatchInv, AttemptInv, AloneInv
  <2> QED  BY <2>1 DEF AloneInv
<1>7. OutcomeInv'
  BY <1>1, <1>2 DEF DispatchInv, OutcomeInv
<1> QED  BY <1>4, <1>5, <1>6, <1>7 DEF DispatchInv

LEMMA OneAtATimeFollows == DispatchInv => OneAttemptAtATime
<1> SUFFICES ASSUME DispatchInv PROVE OneAttemptAtATime
  OBVIOUS
<1>1. ASSUME NEW d \in Deliveries, delivery[d].round = 0
      PROVE  Cardinality({w \in Tasks : task[w].pc # "idle" /\ task[w].delivery = d}) <= 1
  <2> DEFINE S == {w \in Tasks : task[w].pc # "idle" /\ task[w].delivery = d}
  <2>1. CASE S = {}
    BY <2>1, FS_EmptySet
  <2>2. CASE S # {}
    <3>1. PICK w \in Tasks : w \in S
      BY <2>2
    <3>2. S = {w}
      BY <3>1, <1>1 DEF DispatchInv, AloneInv
    <3>3. Cardinality({w}) = 1
      BY FS_Singleton
    <3> HIDE DEF S
    <3>4. Cardinality(S) <= 1
      BY <3>2, <3>3
    <3> QED  BY <3>4 DEF S
  <2> QED  BY <2>1, <2>2
<1> QED  BY <1>1 DEF OneAttemptAtATime, DispatchInv, OutcomeInv

\* A delivery that nobody queued again is posted by one dispatcher at a time and recorded as it
\* went, for any number of deliveries, dispatchers, crashes and administrators, provided that
\* an attempt, which its timeout ends, is shorter than the lease claim_due takes.
THEOREM LeaseKeepsApart ==
    ASSUME AttemptTime < Lease
    PROVE  WebhooksSpec => []OneAttemptAtATime
<1>1. DispatchInv /\ [WebhooksNext]_webhookVars => DispatchInv'
  <2> SUFFICES ASSUME DispatchInv, [WebhooksNext]_webhookVars PROVE DispatchInv'
    OBVIOUS
  <2>1. CASE UNCHANGED <<delivery, received, task>>
    BY <2>1 DEF DispatchInv, DispatchTyped, AttemptInv, AloneInv, OutcomeInv
  <2>2. CASE Dispatch
    BY <2>2, ClaimOK, AttemptOK, DeliveredOK, FailedOK DEF Dispatch
  <2>3. CASE \E w \in Tasks : DispatcherStops(w)
    BY <2>3, StopsOK DEF DispatcherStops
  <2>4. CASE (\E d \in Deliveries : record_event(d) \/ SweepFinished(d)) \/ DeleteEndpoint
    BY <2>4, StatesOK
  <2>5. CASE \/ \E a \in Admins : StartUpdate(a) \/ UpdateEndpoint(a)
             \/ CreateEndpoint \/ RotateSecret \/ UNCHANGED webhookVars
    BY <2>1, <2>5 DEF StartUpdate, UpdateEndpoint, CreateEndpoint, RotateSecret, webhookVars
  <2>6. CASE retry \/ WebhooksTick
    BY <2>6, RetryOK, TickOK
  <2> QED  BY <2>2, <2>3, <2>4, <2>5, <2>6 DEF WebhooksNext
<1> QED  BY <1>1, DispatchInit, OneAtATimeFollows, PTL DEF WebhooksSpec
=============================================================================
