---------------------------- MODULE ProfileStore ----------------------------
(***************************************************************************)
(* data/repository/ProfileRepository.kt over the tables of data/db: the    *)
(* profiles, the subscriptions some of them come from, the routing rules,  *)
(* and the selected row of the first and of the last.                      *)
(*                                                                         *)
(* Every operation is a coroutine on Dispatchers.IO, a job; a step of it   *)
(* is one query, which SQLite makes atomic.  No operation is a transaction *)
(* of several queries.  Names, latencies and counts are left out.          *)
(***************************************************************************)
EXTENDS FiniteSets

CONSTANTS
    Job,             \* coroutines
    Profile, Rule,   \* primary keys of the two tables, UUIDs
    Sub,             \* primary keys of the subscriptions
    None             \* null

ASSUME KeyAssumption ==
    /\ Profile \cap Rule = {} /\ (Profile \cup Rule) \cap Sub = {}
    /\ None \notin Profile \cup Rule \cup Sub

VARIABLES
    rows,            \* the keys in the tables of profiles and rules
    subscriptionId,  \* the column of that name
    isSelected,      \* the rows with that column set
    subscriptions,   \* the keys in the table of subscriptions
    job,             \* what each job does and how far it is
    last,            \* ghost: per table, the last completed selection
    overtaken        \* ghost: subscriptions deleted while refreshed

tables == <<rows, subscriptionId, isSelected, subscriptions>>
ghosts == <<last, overtaken>>
vars == <<tables, job, ghosts>>

Key == Profile \cup Rule \cup Sub \cup {None}

\* Each operation of the repository, and the query it begins with.
First ==
    [add       |-> "insert",     addRule   |-> "validate",
     delete    |-> "delete",     select    |-> "clear",
     addSub    |-> "insertSub",  refresh   |-> "fetch",
     deleteSub |-> "deleteRows", update    |-> "update",
     qr        |-> "insertOne"]

Op == DOMAIN First

At == {First[o] : o \in Op} \cup {"idle", "set", "deleteOld", "insertAll",
                                   "updateMeta", "deleteSub", "done"}

NoJob == [op |-> "add", at |-> "idle", id |-> None, new |-> {}, old |-> {},
          ok |-> FALSE]

TypeOK ==
    /\ rows \subseteq Profile \cup Rule
    /\ subscriptionId \in [Profile -> Sub \cup {None}]
    /\ isSelected \subseteq rows
    /\ subscriptions \subseteq Sub
    /\ job \in [Job -> [op : Op, at : At, id : Key, new : SUBSET Profile,
                        old : SUBSET Profile, ok : BOOLEAN]]
    /\ last \in [{"profiles", "rules"} -> Profile \cup Rule \cup {None}]
    /\ overtaken \subseteq Sub

Init ==
    /\ rows = {}
    /\ subscriptionId = [p \in Profile |-> None]
    /\ isSelected = {}
    /\ subscriptions = {}
    /\ job = [j \in Job |-> NoJob]
    /\ last = [t \in {"profiles", "rules"} |-> None]
    /\ overtaken = {}

Table(id) == IF id \in Profile THEN "profiles" ELSE "rules"
Keys(id) == IF id \in Profile THEN Profile ELSE Rule

Of(s) == {p \in rows \cap Profile : subscriptionId[p] = s}

\* UUID.randomUUID(): a key that nothing bears and nobody remembers.
Fresh(id) ==
    /\ id \notin rows \cup subscriptions
    /\ id \notin {last["profiles"], last["rules"]}
    /\ id \notin overtaken
    /\ \A j \in Job :
          id # job[j].id /\ id \notin job[j].new \cup job[j].old

\* Rows that refer to nobody have no owner.
Owned(owner) ==
    subscriptionId' = [p \in Profile |-> IF p \in rows' THEN owner[p] ELSE None]
-----------------------------------------------------------------------------
\* A client calls an operation on a row, or a subscription, it sees; a rule
\* may be deselected.
Launch(j, op, id) ==
    /\ job[j].at = "idle"
    /\ \/ op \in {"add", "addRule", "addSub", "qr"} /\ id = None
       \/ op \in {"delete", "select"} /\ id \in rows
       \/ op = "select" /\ id = None
       \/ op = "update" /\ id \in rows \cap Profile
       \/ op \in {"refresh", "deleteSub"} /\ id \in subscriptions
    /\ job' = [job EXCEPT ![j] =
                  [NoJob EXCEPT !.op = op, !.at = First[op], !.id = id,
                                !.old = IF op = "refresh" THEN Of(id) ELSE {}]]
    /\ UNCHANGED <<tables, ghosts>>

Step(j, from, to) ==
    /\ job[j].at = from
    /\ job' = [job EXCEPT ![j].at = to]

\* The operation is over; a refresh keeps, as a ghost, what it has replaced.
Return(j, from, ok) ==
    /\ job[j].at = from
    /\ job' = [job EXCEPT ![j] =
                  [@ EXCEPT !.at = "done", !.ok = ok, !.id = None, !.new = {}]]

\* addProfileFromString: one row for each line that can be parsed; each is a
\* query of its own.
InsertLine(j, p) ==
    /\ job[j].at = "insert"
    /\ Fresh(p)
    /\ rows' = rows \cup {p}
    /\ job' = [job EXCEPT ![j].new = @ \cup {p}]
    /\ UNCHANGED <<subscriptionId, isSelected, subscriptions, ghosts>>

LinesEnd(j) ==
    /\ Return(j, "insert", job[j].new # {})
    /\ UNCHANGED <<tables, ghosts>>

\* The profile of a QR code, inserted without the repository.
InsertOne(j, p) ==
    /\ Fresh(p)
    /\ Return(j, "insertOne", TRUE)
    /\ rows' = rows \cup {p}
    /\ UNCHANGED <<subscriptionId, isSelected, subscriptions, ghosts>>

\* addRoutingRule.
InsertRule(j, r) ==
    /\ Fresh(r)
    /\ Return(j, "validate", TRUE)
    /\ rows' = rows \cup {r}
    /\ UNCHANGED <<subscriptionId, isSelected, subscriptions, ghosts>>

RuleInvalid(j) ==
    /\ Return(j, "validate", FALSE)
    /\ UNCHANGED <<tables, ghosts>>

\* deleteProfile, deleteRoutingRule.
Delete(j) ==
    /\ Return(j, "delete", TRUE)
    /\ rows' = rows \ {job[j].id}
    /\ isSelected' = isSelected \ {job[j].id}
    /\ Owned(subscriptionId)
    /\ UNCHANGED <<subscriptions, ghosts>>

\* selectProfile, selectRoutingRule: first query.
ClearSelection(j) ==
    /\ Step(j, "clear", "set")
    /\ isSelected' = isSelected \ Keys(job[j].id)
    /\ UNCHANGED <<rows, subscriptionId, subscriptions, ghosts>>

\* Mutant: the two queries are swapped.
SetThenClear(j) ==
    /\ Return(j, "set", TRUE)
    /\ isSelected' = isSelected \ Keys(job[j].id)
    /\ last' = [last EXCEPT ![Table(job[j].id)] = job[j].id]
    /\ UNCHANGED <<rows, subscriptionId, subscriptions, overtaken>>

\* Second query; it finds no row if that was deleted meanwhile.
SetSelection(j) ==
    /\ Return(j, "set", TRUE)
    /\ isSelected' = isSelected \cup ({job[j].id} \cap rows)
    /\ last' = [last EXCEPT ![Table(job[j].id)] = job[j].id]
    /\ UNCHANGED <<rows, subscriptionId, subscriptions, overtaken>>

\* Mutant: the whole row is written back.
UpdateRowUpsert(j) ==
    /\ Return(j, "update", TRUE)
    /\ rows' = rows \cup {job[j].id}
    /\ UNCHANGED <<subscriptionId, isSelected, subscriptions, ghosts>>

\* pingProfile, renameProfile: UPDATE ... WHERE id, of a column that is not
\* modelled; the row may be gone.
UpdateRow(j) ==
    /\ Return(j, "update", TRUE)
    /\ UNCHANGED <<tables, ghosts>>

\* addSubscription: the row, then refreshSubscription.
InsertSubscription(j, s) ==
    /\ job[j].at = "insertSub"
    /\ Fresh(s)
    /\ subscriptions' = subscriptions \cup {s}
    /\ job' = [job EXCEPT ![j].at = "fetch", ![j].id = s]
    /\ UNCHANGED <<rows, subscriptionId, isSelected, ghosts>>

\* refreshSubscription: the list is fetched and parsed.
Fetch(j, batch) ==
    /\ job[j].at = "fetch"
    /\ \A p \in batch : Fresh(p)
    /\ job' = [job EXCEPT ![j].at = "deleteOld", ![j].new = batch]
    /\ UNCHANGED <<tables, ghosts>>

\* The network or one of the queries fails, which is caught: what the queries
\* before it did stays done.  (An exception of any other operation is not
\* caught and ends the process.)
RefreshFails(j) ==
    /\ \E from \in {"fetch", "deleteOld", "insertAll", "updateMeta"} :
          Return(j, from, FALSE)
    /\ UNCHANGED <<tables, ghosts>>

\* Mutant: nothing is deleted.
DeleteNoRows(s) == UNCHANGED <<rows, subscriptionId, isSelected>>

\* deleteBySubscription.
DeleteBySubscription(s) ==
    /\ rows' = rows \ Of(s)
    /\ isSelected' = isSelected \ Of(s)
    /\ Owned(subscriptionId)

DeleteOld(j) ==
    /\ Step(j, "deleteOld", "insertAll")
    /\ DeleteBySubscription(job[j].id)
    /\ UNCHANGED <<subscriptions, ghosts>>

\* A deleteSubscription of s that has deleted the rows.
Deleting(s) == \E k \in Job : job[k].at = "deleteSub" /\ job[k].id = s

\* insertAll is one query for the whole list.
InsertAll(j) ==
    /\ Step(j, "insertAll", "updateMeta")
    /\ rows' = rows \cup job[j].new
    /\ Owned([p \in Profile |-> IF p \in job[j].new THEN job[j].id
                                ELSE subscriptionId[p]])
    /\ overtaken' = overtaken \cup {s \in {job[j].id} : Deleting(s)}
    /\ UNCHANGED <<isSelected, subscriptions, last>>

\* Time and number of the refresh, columns that are not modelled.
UpdateMeta(j) ==
    /\ Return(j, "updateMeta", TRUE)
    /\ UNCHANGED <<tables, ghosts>>

\* deleteSubscription: the rows, then the subscription.
DeleteRows(j) ==
    /\ Step(j, "deleteRows", "deleteSub")
    /\ DeleteBySubscription(job[j].id)
    /\ UNCHANGED <<subscriptions, ghosts>>

\* A refresh of s that has yet to insert.
Refreshing(s) ==
    \E k \in Job : job[k].at \in {"fetch", "deleteOld", "insertAll"}
                      /\ job[k].id = s

DeleteSubscription(j) ==
    /\ Return(j, "deleteSub", TRUE)
    /\ subscriptions' = subscriptions \ {job[j].id}
    /\ overtaken' = overtaken \cup {s \in {job[j].id} : Refreshing(s)}
    /\ UNCHANGED <<rows, subscriptionId, isSelected, last>>

Selecting(t) == \E j \in Job : job[j].at = "set" /\ Table(job[j].id) = t

\* viewModelScope is cancelled: a job ends between two of its queries.
Cancel(j) ==
    /\ job[j].at \notin {"idle", "done"}
    /\ job' = [job EXCEPT ![j] = NoJob]
    /\ last' = IF job[j].at = "set"
               THEN [last EXCEPT ![Table(job[j].id)] = None] ELSE last
    /\ UNCHANGED <<tables, overtaken>>

\* The process dies; the database stays.
Crash ==
    /\ job' = [j \in Job |-> NoJob]
    /\ last' = [t \in DOMAIN last |-> IF Selecting(t) THEN None ELSE last[t]]
    /\ UNCHANGED <<tables, overtaken>>
-----------------------------------------------------------------------------
Query(j) ==
    \/ \E p \in Profile : InsertLine(j, p) \/ InsertOne(j, p)
    \/ LinesEnd(j)
    \/ \E r \in Rule : InsertRule(j, r)
    \/ RuleInvalid(j)
    \/ Delete(j)
    \/ ClearSelection(j)
    \/ SetSelection(j)
    \/ UpdateRow(j)
    \/ \E s \in Sub : InsertSubscription(j, s)
    \/ \E batch \in SUBSET Profile : Fetch(j, batch)
    \/ RefreshFails(j)
    \/ DeleteOld(j)
    \/ InsertAll(j) \/ UpdateMeta(j)
    \/ DeleteRows(j)
    \/ DeleteSubscription(j)

\* The caller has seen the result.
Forget(j) ==
    /\ job[j].at = "done"
    /\ job' = [job EXCEPT ![j] = NoJob]
    /\ UNCHANGED <<tables, ghosts>>
-----------------------------------------------------------------------------
\* However selections and deletions overlap, the row selected last is selected
\* unless it is gone, or a later selection was cut off between its queries: the
\* clearSelection of another job never wins over a selection that completed
\* after it.  (A start reads the selected profile.)
LastSelectionStands ==
    \A t \in DOMAIN last :
        ~Selecting(t) /\ last[t] \in rows => last[t] \in isSelected

\* No profile outlives its subscription, unless a refresh of it was in flight
\* when the subscription was deleted: deleteSubscription removes the rows
\* first, and addSubscription inserts the subscription first, so that not even
\* the death of the process leaves profiles nobody can remove together.
NoOrphans ==
    \A p \in rows \cap Profile :
        subscriptionId[p] \in subscriptions \cup overtaken \cup {None}

\* A refresh that succeeded has replaced what was there when it began: none of
\* those rows is left, nor does a ping or a new name of one bring it back.
RefreshReplaces ==
    \A j \in Job : job[j].op = "refresh" /\ job[j].at = "done" /\ job[j].ok =>
        job[j].old \cap rows = {}
=============================================================================
