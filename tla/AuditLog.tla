------------------------------ MODULE AuditLog ------------------------------
(***************************************************************************)
(* The audit log: entries appended by every change, monthly partitions     *)
(* created ahead and dropped behind, the retention task that one instance  *)
(* runs at a time, the erasure of accounts, and readers who page through   *)
(* the log while all that goes on.                                         *)
(*                                                                         *)
(* Time is in months.  Entries of one month are ordered by their ids,      *)
(* drawn at random: an entry may land on either side of a reader's cursor, *)
(* as one whose transaction began earlier and committed later does.        *)
(***************************************************************************)
EXTENDS Integers, FiniteSets, Sequences

CONSTANTS
    People,             \* accounts
    Instances,          \* instances, each with a retention task
    Retentions,         \* audit.retention_months of their configurations
    FLOOR_MONTHS,       \* maintenance_floors.audit_retention_months
    LOOKAHEAD_MONTHS,
    ADDRESS_AGE,        \* months before an address is coarsened
    UNVERIFIED_AGE,     \* months before an unverified account is purged
    SWEEP_BATCH,        \* BATCH_SIZE
    MAX_BATCHES,
    PageLimits,         \* entries per page, as asked for
    MAX_LIMIT,
    MaxEntries,         \* bound on entries written
    MaxMonth,           \* bound on time
    MaxIdle,            \* months that may pass without a rotation
    Nobody

ASSUME AuditAssumption ==
    /\ Retentions \subseteq Nat /\ FLOOR_MONTHS \in Nat /\ LOOKAHEAD_MONTHS \in Nat \ {0}
    /\ Nobody \notin People /\ MAX_LIMIT \in Nat \ {0} /\ SWEEP_BATCH \in Nat \ {0} /\ MAX_BATCHES \in Nat \ {0}
    \* Partitions reach further than the longest time without a rotation.
    /\ MaxIdle \in Nat /\ MaxIdle <= LOOKAHEAD_MONTHS
    /\ MaxEntries \in Nat /\ PageLimits \subseteq Int
    \* No entry is mistaken for the absence of a cursor.
    /\ Nobody \notin [id: Int, at: Int, user: People \cup {Nobody}, address: {"full", "network", "none"}]

VARIABLES
    month,
    entries,        \* audit_log, wherever the rows lie
    partitions,     \* the months that have a partition; other rows lie in the default one
    people,         \* users: "pending", "active" or "gone"
    task,           \* the retention task of each instance
    page,           \* a reader, between two pages
    \* history
    rotated,        \* month of the last rotation
    logged          \* entries as they were written

auditVars == <<month, entries, partitions, people, task, page, rotated, logged>>

Resting == [pc |-> "resting", due |-> {}, batches |-> 0]
NoReader == [pc |-> "none", of |-> Nobody, cursor |-> Nobody, first |-> {}, seen |-> <<>>]

AuditInit ==
    /\ month = 0 /\ entries = {} /\ logged = {}
    /\ partitions = -1..LOOKAHEAD_MONTHS /\ rotated = 0
    /\ people \in [People -> {"pending", "active"}]
    /\ task = [i \in Instances |-> Resting]
    /\ page = NoReader

-----------------------------------------------------------------------------
(***************************************************************************)
(* Writing.                                                                *)
(***************************************************************************)
NewAuditEntry(id, user, address) == [id |-> id, at |-> month, user |-> user, address |-> address]

\* append: the account named is there, or no account is named.
AppendEntry(id, user, address) ==
    /\ id \notin {e.id : e \in logged}
    /\ user # Nobody => people[user] # "gone"
    /\ LET e == NewAuditEntry(id, user, address) IN
        entries' = entries \cup {e} /\ logged' = logged \cup {e}

Record ==
    /\ \E id \in 1..MaxEntries, user \in People \cup {Nobody} : AppendEntry(id, user, "full")
    /\ UNCHANGED <<month, partitions, people, task, page, rotated>>

Verify(p) ==
    /\ people[p] = "pending"
    /\ people' = [people EXCEPT ![p] = "active"]
    /\ UNCHANGED <<month, entries, partitions, task, page, rotated, logged>>

\* prevent_audit_log_modification: an update takes a name or narrows an address.
Narrows(old, new) ==
    /\ new.id = old.id /\ new.at = old.at
    /\ new.user \in {old.user, Nobody}
    /\ <<old.address, new.address>> \in {<<"full", "network">>} \cup ({"full", "network", "none"} \X {"none"})
        \/ old.address = new.address
    /\ new # old

\* forget_account_traces: its addresses, then its name with the account.
Traceless(e) == [e EXCEPT !.address = "none", !.user = Nobody]

Forgotten(log, gone) == {IF e.user \in gone THEN Traceless(e) ELSE e : e \in log}

\* erase_account, by its owner or an administrator: audited, then forgotten.
Erase(p) ==
    /\ people[p] # "gone"
    /\ \E id \in 1..MaxEntries :
        LET e == NewAuditEntry(id, p, "full") IN
        /\ id \notin {x.id : x \in logged}
        /\ logged' = logged \cup {e}
        /\ entries' = Forgotten(entries \cup {e}, {p})
    /\ people' = [people EXCEPT ![p] = "gone"]
    /\ UNCHANGED <<month, partitions, task, page, rotated>>

-----------------------------------------------------------------------------
(***************************************************************************)
(* Partitions.                                                             *)
(***************************************************************************)
\* The rows that lie in the default partition.
Default == {e \in entries : e.at \notin partitions}

\* The months a rotation gives a partition.
Creates == (month - 1)..(month + LOOKAHEAD_MONTHS)

\* Mutant: the floor is not looked at.
KeepFromAsked(retention) == month - retention

\* keep_from: never fewer months than the floor.
KeepFrom(retention) ==
    month - (IF retention > FLOOR_MONTHS THEN retention ELSE FLOOR_MONTHS)

\* rotate_audit_log_partitions: all of it, or nothing when the default partition
\* holds a row of a month it would create.
RotateAuditLog(retention) ==
    IF \E e \in Default : e.at \in Creates
    THEN UNCHANGED <<partitions, entries, rotated>>
    ELSE LET all == partitions \cup Creates
             dropped == IF retention <= 0 THEN {} ELSE {m \in all : m < KeepFrom(retention)}
         IN /\ partitions' = all \ dropped
            /\ entries' = {e \in entries : e.at \notin dropped}
            /\ rotated' = month

\* At startup, before the task is spawned.
StartUp(i) ==
    /\ task[i].pc = "resting"
    /\ \E retention \in Retentions : RotateAuditLog(retention)
    /\ UNCHANGED <<month, people, task, page, logged>>

-----------------------------------------------------------------------------
(***************************************************************************)
(* The retention task: a run holds the advisory lock from its first job to *)
(* its last, or until its connection closes.                               *)
(***************************************************************************)
LockHeld == \E i \in Instances : task[i].pc # "resting"

RunOnce(i) ==
    /\ task[i].pc = "resting" /\ ~LockHeld
    /\ task' = [task EXCEPT ![i].pc = "coarsen"]
    /\ UNCHANGED <<month, entries, partitions, people, page, rotated, logged>>

\* run_all: the jobs of a run that touch the log, in their order.
NextJob == [coarsen |-> "purge", purge |-> "rotate"]

GoesOn(i, job) == task' = [task EXCEPT ![i] = [pc |-> NextJob[job], due |-> {}, batches |-> 0]]

\* sweep: another batch after a full one, up to MAX_BATCHES, else the next job.
AfterBatch(i, job, deleted) ==
    IF deleted = SWEEP_BATCH /\ task[i].batches + 1 < MAX_BATCHES
    THEN task' = [task EXCEPT ![i] = [pc |-> job, due |-> {}, batches |-> @.batches + 1]]
    ELSE GoesOn(i, job)

\* coarsen_audit_addresses finds the old full addresses.
CoarsenFind(i) ==
    LET old == {e.id : e \in {x \in entries : x.address = "full" /\ x.at < month - ADDRESS_AGE}} IN
    /\ task[i].pc = "coarsen"
    /\ \E due \in SUBSET old :
        /\ Cardinality(due) = IF Cardinality(old) < SWEEP_BATCH THEN Cardinality(old) ELSE SWEEP_BATCH
        /\ task' = [task EXCEPT ![i].pc = "coarsening", ![i].due = due]
    /\ UNCHANGED <<month, entries, partitions, people, page, rotated, logged>>

Coarse(e) == [e EXCEPT !.address = IF @ = "none" THEN "none" ELSE "network"]

\* The rows as they are by now: one forgotten meanwhile does not change, and the
\* trigger fails the job.
CoarsenUpdate(i) ==
    LET due == {e \in entries : e.id \in task[i].due} IN
    /\ task[i].pc = "coarsening"
    /\ IF \A e \in due : Narrows(e, Coarse(e))
       THEN /\ entries' = {IF e \in due THEN Coarse(e) ELSE e : e \in entries}
            /\ AfterBatch(i, "coarsen", Cardinality(due))
       ELSE GoesOn(i, "coarsen") /\ UNCHANGED entries
    /\ UNCHANGED <<month, partitions, people, page, rotated, logged>>

\* purge_unverified_accounts: audited, announced and forgotten in one statement.
PurgeUnverified(i) ==
    LET old == IF month > UNVERIFIED_AGE THEN {p \in People : people[p] = "pending"} ELSE {} IN
    /\ task[i].pc = "purge"
    /\ \E doomed \in SUBSET old :
        /\ Cardinality(doomed) = IF old = {} THEN 0 ELSE 1
        /\ IF doomed = {} THEN UNCHANGED <<entries, logged, people>>
           ELSE \E p \in doomed, id \in 1..MaxEntries :
                /\ id \notin {x.id : x \in logged}
                /\ logged' = logged \cup {NewAuditEntry(id, p, "none")}
                /\ entries' = Forgotten(entries \cup {NewAuditEntry(id, p, "none")}, {p})
                /\ people' = [people EXCEPT ![p] = "gone"]
        /\ AfterBatch(i, "purge", Cardinality(doomed))
    /\ UNCHANGED <<month, partitions, page, rotated>>

TaskRotates(i) ==
    /\ task[i].pc = "rotate"
    /\ \E retention \in Retentions : RotateAuditLog(retention)
    /\ task' = [task EXCEPT ![i] = Resting]
    /\ UNCHANGED <<month, people, page, logged>>

\* The instance stops: its connection closes, and the lock with it.
TaskStops(i) ==
    /\ task[i].pc # "resting"
    /\ task' = [task EXCEPT ![i] = Resting]
    /\ UNCHANGED <<month, entries, partitions, people, page, rotated, logged>>

NextMonth ==
    /\ month < MaxMonth /\ month - rotated < MaxIdle
    /\ month' = month + 1
    /\ UNCHANGED <<entries, partitions, people, task, page, rotated, logged>>

-----------------------------------------------------------------------------
(***************************************************************************)
(* Reading.                                                                *)
(***************************************************************************)
\* page_limit: what was asked for, from one to MAX_LIMIT.
PageLimit(requested) ==
    IF requested < 1 THEN 1 ELSE IF requested > MAX_LIMIT THEN MAX_LIMIT ELSE requested

Newer(e, f) == e.at > f.at \/ (e.at = f.at /\ e.id > f.id)

\* Mutant: rows of the cursor's own time are taken as read.
OlderMonths(of, before) ==
    {e \in entries : (of = Nobody \/ e.user = of) /\ (before = Nobody \/ e.at < before.at)}

\* The rows the queries of find_page and find_page_by_user range over.
FindPage(of, before) ==
    {e \in entries : (of = Nobody \/ e.user = of) /\ (before = Nobody \/ Newer(before, e))}

\* split_page: the newest rows, and whether one more was there.
SplitPage(rows, limit) ==
    [rows |-> {e \in rows : Cardinality({f \in rows : Newer(f, e)}) < limit},
     more |-> Cardinality(rows) > limit]

\* encode_cursor, decode_cursor: the last row of the page.
Cursor(rows) == CHOOSE e \in rows : \A f \in rows : ~Newer(e, f)

NextPage(requested) ==
    LET split == SplitPage(FindPage(page.of, page.cursor), PageLimit(requested)) IN
    page' = [page EXCEPT !.seen = Append(@, {e.id : e \in split.rows}),
                         !.cursor = IF split.more THEN Cursor(split.rows) ELSE @,
                         !.pc = IF split.more THEN "paging" ELSE "read"]

\* The owner's history.
OpenHistory(p) ==
    /\ page.pc = "none" /\ people[p] # "gone"
    /\ page' = [pc |-> "paging", of |-> p, cursor |-> Nobody, seen |-> <<>>,
                first |-> {e.id : e \in {x \in entries : x.user = p}}]
    /\ UNCHANGED <<month, entries, partitions, people, task, rotated, logged>>

ListHistory(requested) ==
    /\ page.pc = "paging" /\ page.of # Nobody /\ people[page.of] # "gone"
    /\ NextPage(requested)
    /\ UNCHANGED <<month, entries, partitions, people, task, rotated, logged>>

\* An administrator reads the whole log; each page read is an entry of its own.
OpenLog ==
    /\ page.pc = "none"
    /\ page' = [pc |-> "paging", of |-> Nobody, cursor |-> Nobody, seen |-> <<>>,
                first |-> {e.id : e \in entries}]
    /\ UNCHANGED <<month, entries, partitions, people, task, rotated, logged>>

ListLog(requested) ==
    /\ page.pc = "paging" /\ page.of = Nobody
    /\ NextPage(requested)
    /\ \E id \in 1..MaxEntries : AppendEntry(id, Nobody, "full")
    /\ UNCHANGED <<month, partitions, people, task, rotated>>

CloseLog ==
    /\ page.pc # "none"
    /\ page' = NoReader
    /\ UNCHANGED <<month, entries, partitions, people, task, rotated, logged>>

WriteNext ==
    \/ Record \/ NextMonth
    \/ \E p \in People : Erase(p)
    \/ \E i \in Instances : StartUp(i)

\* What goes on in the log, without a reader.
UpkeepNext ==
    \/ WriteNext
    \/ \E p \in People : Verify(p)
    \/ \E i \in Instances :
        RunOnce(i) \/ CoarsenFind(i) \/ CoarsenUpdate(i) \/ PurgeUnverified(i)
        \/ TaskRotates(i) \/ TaskStops(i)

\* A reader, while the log is written and rotated.
ReadNext ==
    \/ WriteNext
    \/ \E p \in People : OpenHistory(p)
    \/ OpenLog \/ CloseLog
    \/ \E requested \in PageLimits : ListHistory(requested) \/ ListLog(requested)

AuditSpec == AuditInit /\ [][UpkeepNext \/ ReadNext]_auditVars

-----------------------------------------------------------------------------
\* maintenance_floors, rotate_audit_log_partitions, forget_account_traces: whatever
\* retention the instances are configured with, and however their tasks overlap, an
\* entry is still in the log as long as its month is one of the last FLOOR_MONTHS; as
\* months are created ahead, none falls in the default partition, where it would make
\* every later rotation fail; and nothing an erased account did names it or an address,
\* whatever was appended, coarsened or rotated around its erasure.
AuditTrailKept ==
    /\ \A w \in logged : w.at >= month - FLOOR_MONTHS => w.id \in {e.id : e \in entries}
    /\ \A e \in Default : e.at \notin Creates
    /\ \A w \in logged, e \in entries :
        w.id = e.id /\ w.user # Nobody /\ people[w.user] = "gone" =>
            e.user = Nobody /\ e.address = "none"

\* find_page_by_user: a reader who came to the last page has read each entry that was
\* there at first once, and those still there all, whatever was logged meanwhile.
PagesMissNothing ==
    page.pc = "read" =>
        LET seen == {page.seen[k] : k \in 1..Len(page.seen)}
            kept == {e.id : e \in {x \in entries : page.of = Nobody \/ x.user = page.of}}
        IN /\ page.first \cap kept \subseteq UNION seen
           /\ \A j, k \in 1..Len(page.seen) : j # k => page.seen[j] \cap page.seen[k] = {}
=============================================================================
