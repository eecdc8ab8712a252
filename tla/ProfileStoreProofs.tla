------------------------- MODULE ProfileStoreProofs -------------------------
(***************************************************************************)
(* What overlapping operations leave intact, for any number of jobs, rows  *)
(* and subscriptions, with the import server as one of the clients.        *)
(***************************************************************************)
EXTENDS LocalConfigServer, TLAPS

\* A job that refreshes or deletes a subscription works on one that exists or
\* was deleted under a refresh; between the two queries of a deletion there
\* are no rows unless a refresh has put them there.
RefreshersKnown ==
    \A j \in Job : job[j].at \in {"fetch", "deleteOld", "insertAll"} =>
        job[j].id \in subscriptions \cup overtaken

DeletersAlone ==
    \A j \in Job : job[j].at = "deleteSub" =>
        Of(job[j].id) = {} \/ job[j].id \in overtaken

DeletersNamed ==
    \A j \in Job : job[j].at \in {"deleteRows", "deleteSub"} => job[j].id \in Sub

\* A profile that is not in its table has no owner.
Unowned == \A p \in Profile \ rows : subscriptionId[p] = None

IInv ==
    /\ TypeOK
    /\ LastSelectionStands
    /\ NoOrphans /\ Unowned
    /\ RefreshersKnown /\ DeletersAlone /\ DeletersNamed

\* A selection is of a row of a table, or of no rule, and is remembered for
\* that table.
SelectorsKnown ==
    /\ \A j \in Job : job[j].at \in {"clear", "set"} =>
           job[j].id \in Profile \cup Rule \cup {None}
    /\ last["profiles"] \in Profile \cup {None}
    /\ last["rules"] \in Rule \cup {None}

\* The keys of a fetched list are nobody else's until they are inserted.
Fetched == {"deleteOld", "insertAll"}

NewIsNew ==
    \A j \in Job : job[j].at \in Fetched =>
        /\ job[j].new \cap rows = {}
        /\ \A t \in {"profiles", "rules"} : last[t] \notin job[j].new
        /\ \A k \in Job : job[k].id \notin job[j].new
        /\ \A k \in Job \ {j} : job[k].at \in Fetched =>
               job[k].new \cap job[j].new = {}

Known == SelectorsKnown /\ NewIsNew

JobRecord ==
    [op : Op, at : At, id : Key, new : SUBSET Profile, old : SUBSET Profile,
     ok : BOOLEAN]

JobType == [Job -> JobRecord]

RefreshPlace == {"fetch", "deleteOld", "insertAll"}

USE KeyAssumption
-----------------------------------------------------------------------------
\* A step of one job changes that job only.
LEMMA StepShape ==
    ASSUME TypeOK, NEW j \in Job, NEW from, NEW to \in At, Step(j, from, to)
    PROVE  /\ job' \in JobType
           /\ job[j].at = from /\ job'[j].at = to
           /\ job'[j].id = job[j].id /\ job'[j].new = job[j].new
           /\ job'[j].op = job[j].op /\ job'[j].old = job[j].old
           /\ \A k \in Job \ {j} : job'[k] = job[k]
  BY DEF TypeOK, Step, JobType, JobRecord

\* So does its end.
LEMMA ReturnShape ==
    ASSUME TypeOK, NEW j \in Job, NEW from, NEW ok \in BOOLEAN,
           Return(j, from, ok)
    PROVE  /\ job' \in JobType
           /\ job[j].at = from /\ job'[j].at = "done" /\ job'[j].id = None
           /\ job'[j].op = job[j].op /\ job'[j].old = job[j].old
           /\ job'[j].ok = ok
           /\ \A k \in Job \ {j} : job'[k] = job[k]
<1>1. job[j] \in JobRecord
  BY DEF TypeOK, JobRecord
<1>2. None \in Key /\ "done" \in At
  BY DEF Key, At
<1> DEFINE r == [job[j] EXCEPT !.at = "done", !.ok = ok, !.id = None,
                               !.new = {}]
<1>3. /\ r \in JobRecord /\ r.at = "done" /\ r.id = None
      /\ r.op = job[j].op /\ r.old = job[j].old /\ r.ok = ok
  BY <1>1, <1>2 DEF JobRecord
<1>4. job' = [job EXCEPT ![j] = r] /\ job[j].at = from
  BY DEF Return
<1> HIDE DEF r
<1>5. QED
  BY <1>3, <1>4 DEF TypeOK, JobType, JobRecord

\* A new job begins with the first query of its operation.
LEMMA NoJobType == NoJob \in JobRecord
  BY DEF NoJob, Op, First, At, Key, JobRecord

\* A job that does not touch the tables keeps the invariant, unless it is a
\* selection between its queries.
LEMMA JobOnly ==
    ASSUME IInv, NEW j \in Job, UNCHANGED <<tables, ghosts>>,
           job' \in JobType, \A k \in Job \ {j} : job'[k] = job[k],
           job[j].at # "set", job'[j].at # "deleteSub",
           job'[j].at \in RefreshPlace =>
               job'[j].id \in subscriptions \cup overtaken,
           job'[j].at = "deleteRows" => job'[j].id \in Sub
    PROVE  IInv'
<1>1. TypeOK'
  BY DEF IInv, TypeOK, JobType, JobRecord, tables, ghosts
<1>2. LastSelectionStands'
  <2>1. \A t : Selecting(t) => Selecting(t)'
    BY DEF Selecting, Table
  <2>2. QED
    BY <2>1 DEF IInv, LastSelectionStands, tables, ghosts
<1>3. NoOrphans' /\ Unowned'
  BY DEF IInv, NoOrphans, Unowned, tables, ghosts
<1>4. RefreshersKnown'
  BY DEF IInv, RefreshersKnown, RefreshPlace, tables, ghosts
<1>5. DeletersAlone'
  <2>1. \A t : Of(t)' = Of(t)
    BY DEF Of, tables
  <2>2. QED
    BY <2>1 DEF IInv, DeletersAlone, ghosts
<1>6. DeletersNamed'
  BY DEF IInv, DeletersNamed
<1>7. QED
  BY <1>1, <1>2, <1>3, <1>4, <1>5, <1>6 DEF IInv

LEMMA LaunchInv ==
    ASSUME IInv, NEW j \in Job, NEW op \in Op, NEW id \in Key,
           Launch(j, op, id)
    PROVE  IInv'
<1>1. /\ job' \in JobType
      /\ \A k \in Job \ {j} : job'[k] = job[k]
      /\ job'[j].at = First[op] /\ job'[j].id = id
  <2>1. First[op] \in At
    BY DEF At
  <2>2. (IF op = "refresh" THEN Of(id) ELSE {}) \in SUBSET Profile
    BY DEF Of
  <2>3. QED
    BY <2>1, <2>2, NoJobType DEF Launch, IInv, TypeOK, JobType, JobRecord
<1>2. First[op] = "fetch" => op = "refresh"
  BY DEF Op, First
<1>3. First[op] \notin {"deleteSub", "deleteOld", "insertAll"}
  BY DEF Op, First
<1>4. op \in {"refresh", "deleteSub"} => id \in subscriptions
  BY DEF Launch
<1>5. job[j].at # "set"
  BY DEF Launch
<1>6. First[op] = "deleteRows" => op = "deleteSub"
  BY DEF Op, First
<1>7. subscriptions \subseteq Sub
  BY DEF IInv, TypeOK
<1>8. QED
  BY <1>1, <1>2, <1>3, <1>4, <1>5, <1>6, <1>7, JobOnly
     DEF Launch, RefreshPlace
-----------------------------------------------------------------------------
\* An operation that ends without touching the tables.
LEMMA ReturnOnly ==
    ASSUME IInv, NEW j \in Job, NEW from, NEW ok \in BOOLEAN, from # "set",
           Return(j, from, ok), UNCHANGED <<tables, ghosts>>
    PROVE  IInv'
<1>1. TypeOK
  BY DEF IInv
<1>2. /\ job' \in JobType
      /\ job[j].at = from /\ job'[j].at = "done"
      /\ \A k \in Job \ {j} : job'[k] = job[k]
  BY <1>1, ReturnShape
<1>3. QED
  BY <1>2, JobOnly DEF RefreshPlace

\* Queries that leave the tables as they are.
LEMMA ReadInv ==
    ASSUME IInv, NEW j \in Job,
           \/ LinesEnd(j) \/ RuleInvalid(j) \/ UpdateRow(j) \/ RefreshFails(j)
           \/ UpdateMeta(j)
           \/ \E batch \in SUBSET Profile : Fetch(j, batch)
           \/ Forget(j)
    PROVE  IInv'
<1>0. TypeOK
  BY DEF IInv
<1>1. CASE LinesEnd(j)
  <2>1. (job[j].new # {}) \in BOOLEAN
    OBVIOUS
  <2>2. QED
    BY <1>1, <2>1, ReturnOnly DEF LinesEnd
<1>2. CASE RuleInvalid(j)
  BY <1>2, ReturnOnly DEF RuleInvalid
<1>3. CASE UpdateRow(j) \/ UpdateMeta(j)
  BY <1>3, ReturnOnly DEF UpdateRow, UpdateMeta
<1>4. CASE RefreshFails(j)
  BY <1>4, ReturnOnly DEF RefreshFails
<1>5. ASSUME NEW batch \in SUBSET Profile, Fetch(j, batch) PROVE IInv'
  <2>1. /\ job' \in JobType
        /\ job'[j].at = "deleteOld" /\ job'[j].id = job[j].id
        /\ \A k \in Job \ {j} : job'[k] = job[k]
    <3>1. job[j] \in JobRecord /\ "deleteOld" \in At
      BY <1>0 DEF TypeOK, JobRecord, At
    <3> DEFINE r == [job[j] EXCEPT !.at = "deleteOld", !.new = batch]
    <3>2. r \in JobRecord /\ r.at = "deleteOld" /\ r.id = job[j].id
      BY <3>1 DEF JobRecord
    <3>3. job' = [job EXCEPT ![j] = r]
      BY <1>5 DEF Fetch
    <3> HIDE DEF r
    <3>4. QED
      BY <1>0, <3>2, <3>3 DEF TypeOK, JobType, JobRecord
  <2>2. job[j].at = "fetch"
    BY <1>5 DEF Fetch
  <2>3. job[j].id \in subscriptions \cup overtaken
    BY <2>2 DEF IInv, RefreshersKnown
  <2>4. QED
    BY <1>5, <2>1, <2>2, <2>3, JobOnly DEF Fetch
<1>6. CASE Forget(j)
  <2>1. /\ job' \in JobType /\ job'[j] = NoJob
        /\ \A k \in Job \ {j} : job'[k] = job[k]
    BY <1>0, <1>6, NoJobType DEF Forget, TypeOK, JobType, JobRecord
  <2>2. NoJob.at = "idle"
    BY DEF NoJob
  <2>3. QED
    BY <1>6, <2>1, <2>2, JobOnly DEF Forget, RefreshPlace
<1>7. QED
  BY <1>1, <1>2, <1>3, <1>4, <1>5, <1>6

\* A new row, which nobody owns and nobody has selected.
LEMMA InsertInv ==
    ASSUME IInv, NEW j \in Job, NEW id \in Profile \cup Rule, Fresh(id),
           rows' = rows \cup {id},
           UNCHANGED <<subscriptionId, isSelected, subscriptions, ghosts>>,
           job' \in JobType, \A k \in Job \ {j} : job'[k] = job[k],
           job[j].at # "set",
           job'[j].at \notin RefreshPlace \cup {"deleteRows", "deleteSub"}
    PROVE  IInv'
<1>1. TypeOK'
  BY DEF IInv, TypeOK, JobType, JobRecord, ghosts
<1>2. LastSelectionStands'
  <2>1. \A t : Selecting(t) => Selecting(t)'
    BY DEF Selecting, Table
  <2>2. \A t \in DOMAIN last : last[t] # id
    BY DEF IInv, TypeOK, Fresh
  <2>3. QED
    BY <2>1, <2>2 DEF IInv, LastSelectionStands, ghosts
<1>3. id \in Profile => subscriptionId[id] = None
  BY DEF IInv, Unowned, Fresh
<1>4. NoOrphans' /\ Unowned'
  BY <1>3 DEF IInv, NoOrphans, Unowned, ghosts
<1>5. RefreshersKnown'
  BY DEF IInv, RefreshersKnown, RefreshPlace, ghosts
<1>6. DeletersAlone'
  <2>1. \A t \in Sub : Of(t)' = Of(t)
    BY <1>3 DEF Of, IInv, TypeOK
  <2>2. QED
    BY <2>1 DEF IInv, DeletersAlone, DeletersNamed, ghosts
<1>7. DeletersNamed'
  BY DEF IInv, DeletersNamed
<1>8. QED
  BY <1>1, <1>2, <1>4, <1>5, <1>6, <1>7 DEF IInv

LEMMA InsertersInv ==
    ASSUME IInv, NEW j \in Job,
           \/ \E p \in Profile : InsertLine(j, p) \/ InsertOne(j, p)
           \/ \E r \in Rule : InsertRule(j, r)
    PROVE  IInv'
<1>0. TypeOK
  BY DEF IInv
<1>1. ASSUME NEW p \in Profile, InsertLine(j, p) PROVE IInv'
  <2>1. /\ job' \in JobType /\ job[j].at = "insert" /\ job'[j].at = "insert"
        /\ \A k \in Job \ {j} : job'[k] = job[k]
    <3>1. job[j] \in JobRecord /\ job[j].at = "insert"
      BY <1>0, <1>1 DEF TypeOK, JobRecord, InsertLine
    <3> DEFINE r == [job[j] EXCEPT !.new = @ \cup {p}]
    <3>2. r \in JobRecord /\ r.at = job[j].at
      BY <3>1 DEF JobRecord
    <3>3. job' = [job EXCEPT ![j] = r]
      BY <1>1 DEF InsertLine
    <3> HIDE DEF r
    <3>4. QED
      BY <1>0, <3>1, <3>2, <3>3 DEF TypeOK, JobType, JobRecord
  <2>2. QED
    BY <1>1, <2>1, InsertInv DEF InsertLine, RefreshPlace
<1>2. ASSUME NEW p \in Profile, InsertOne(j, p) PROVE IInv'
  <2>1. Return(j, "insertOne", TRUE)
    BY <1>2 DEF InsertOne
  <2>2. /\ job' \in JobType
        /\ job[j].at = "insertOne" /\ job'[j].at = "done"
        /\ \A k \in Job \ {j} : job'[k] = job[k]
    BY <1>0, <2>1, ReturnShape
  <2>3. QED
    BY <1>2, <2>2, InsertInv DEF InsertOne, RefreshPlace
<1>3. ASSUME NEW r \in Rule, InsertRule(j, r) PROVE IInv'
  <2>1. Return(j, "validate", TRUE)
    BY <1>3 DEF InsertRule
  <2>2. /\ job' \in JobType
        /\ job[j].at = "validate" /\ job'[j].at = "done"
        /\ \A k \in Job \ {j} : job'[k] = job[k]
    BY <1>0, <2>1, ReturnShape
  <2>3. QED
    BY <1>3, <2>2, InsertInv DEF InsertRule, RefreshPlace
<1>4. QED
  BY <1>1, <1>2, <1>3

\* Rows go, with their selection and their owner.
LEMMA RemoveInv ==
    ASSUME IInv, NEW j \in Job, NEW gone,
           rows' = rows \ gone, isSelected' = isSelected \ gone,
           Owned(subscriptionId), UNCHANGED <<subscriptions, ghosts>>,
           job' \in JobType, \A k \in Job \ {j} : job'[k] = job[k],
           job[j].at # "set",
           job'[j].at \in RefreshPlace =>
               job'[j].id \in subscriptions \cup overtaken,
           job'[j].at = "deleteSub" => job'[j].id \in Sub,
           job'[j].at # "deleteRows",
           \A t \in Sub : job'[j].at = "deleteSub" /\ job'[j].id = t =>
               Of(t) \subseteq gone
    PROVE  IInv'
<1>1. subscriptionId' = [p \in Profile |-> IF p \in rows \ gone
                                           THEN subscriptionId[p] ELSE None]
  BY DEF Owned
<1>2. TypeOK'
  BY <1>1 DEF IInv, TypeOK, JobType, JobRecord, ghosts
<1>3. LastSelectionStands'
  <2>1. \A t : Selecting(t) => Selecting(t)'
    BY DEF Selecting, Table
  <2>2. QED
    BY <2>1 DEF IInv, LastSelectionStands, ghosts
<1>4. NoOrphans' /\ Unowned'
  BY <1>1 DEF IInv, NoOrphans, Unowned, ghosts
<1>5. RefreshersKnown'
  BY DEF IInv, RefreshersKnown, RefreshPlace, ghosts
<1>6. DeletersNamed'
  BY DEF IInv, DeletersNamed
<1>7. DeletersAlone'
  <2>1. \A t \in Sub : Of(t)' \subseteq Of(t) \ gone
    BY <1>1 DEF Of
  <2>2. QED
    BY <1>6, <2>1 DEF IInv, DeletersAlone, DeletersNamed, ghosts
<1>8. QED
  BY <1>2, <1>3, <1>4, <1>5, <1>6, <1>7 DEF IInv

LEMMA RemoversInv ==
    ASSUME IInv, NEW j \in Job, Delete(j) \/ DeleteOld(j) \/ DeleteRows(j)
    PROVE  IInv'
<1>0. TypeOK
  BY DEF IInv
<1>1. CASE Delete(j)
  <2>1. /\ job' \in JobType
        /\ job[j].at = "delete" /\ job'[j].at = "done"
        /\ \A k \in Job \ {j} : job'[k] = job[k]
    BY <1>0, <1>1, ReturnShape DEF Delete
  <2> DEFINE gone == {job[j].id}
  <2>2. /\ rows' = rows \ gone /\ isSelected' = isSelected \ gone
        /\ Owned(subscriptionId) /\ UNCHANGED <<subscriptions, ghosts>>
    BY <1>1 DEF Delete
  <2> HIDE DEF gone
  <2>3. QED
    BY <2>1, <2>2, RemoveInv DEF RefreshPlace
<1>2. CASE DeleteOld(j)
  <2>1. "insertAll" \in At
    BY DEF At
  <2>2. /\ job' \in JobType /\ job[j].at = "deleteOld"
        /\ job'[j].at = "insertAll" /\ job'[j].id = job[j].id
        /\ \A k \in Job \ {j} : job'[k] = job[k]
    BY <1>0, <1>2, <2>1, StepShape DEF DeleteOld
  <2> DEFINE gone == Of(job[j].id)
  <2>3. /\ rows' = rows \ gone /\ isSelected' = isSelected \ gone
        /\ Owned(subscriptionId) /\ UNCHANGED <<subscriptions, ghosts>>
    BY <1>2 DEF DeleteOld, DeleteBySubscription
  <2>4. job[j].id \in subscriptions \cup overtaken
    BY <2>2 DEF IInv, RefreshersKnown
  <2> HIDE DEF gone
  <2>5. QED
    BY <2>2, <2>3, <2>4, RemoveInv DEF RefreshPlace
<1>3. CASE DeleteRows(j)
  <2>1. "deleteSub" \in At
    BY DEF At
  <2>2. /\ job' \in JobType /\ job[j].at = "deleteRows"
        /\ job'[j].at = "deleteSub" /\ job'[j].id = job[j].id
        /\ \A k \in Job \ {j} : job'[k] = job[k]
    BY <1>0, <1>3, <2>1, StepShape DEF DeleteRows
  <2> DEFINE gone == Of(job[j].id)
  <2>3. /\ rows' = rows \ gone /\ isSelected' = isSelected \ gone
        /\ Owned(subscriptionId) /\ UNCHANGED <<subscriptions, ghosts>>
    BY <1>3 DEF DeleteRows, DeleteBySubscription
  <2>4. job[j].id \in Sub /\ \A t \in Sub : job[j].id = t => Of(t) \subseteq gone
    BY <2>2 DEF IInv, DeletersNamed
  <2> HIDE DEF gone
  <2>5. QED
    BY <2>2, <2>3, <2>4, RemoveInv DEF RefreshPlace
<1>4. QED
  BY <1>1, <1>2, <1>3
-----------------------------------------------------------------------------
\* The two queries of a selection.
LEMMA ClearInv ==
    ASSUME IInv, SelectorsKnown, NEW j \in Job, ClearSelection(j)
    PROVE  IInv'
<1>0. TypeOK
  BY DEF IInv
<1>1. /\ job' \in JobType /\ job[j].at = "clear"
      /\ job'[j].at = "set" /\ job'[j].id = job[j].id
      /\ \A k \in Job \ {j} : job'[k] = job[k]
  <2>1. "set" \in At
    BY DEF At
  <2>2. QED
    BY <1>0, <2>1, StepShape DEF ClearSelection
<1>2. TypeOK'
  BY <1>1 DEF IInv, TypeOK, JobType, JobRecord, ClearSelection, ghosts
<1>3. LastSelectionStands'
  <2> SUFFICES ASSUME NEW t \in DOMAIN last, ~Selecting(t)', last[t] \in rows
               PROVE  last[t] \in isSelected'
    BY DEF LastSelectionStands, ClearSelection, ghosts
  <2>1. ~Selecting(t)
    BY <1>1 DEF Selecting, Table
  <2>2. last[t] \in isSelected
    BY <2>1 DEF IInv, LastSelectionStands
  <2>3. t # Table(job[j].id)
    BY <1>1 DEF Selecting, Table
  <2>4. t \in {"profiles", "rules"}
    BY DEF IInv, TypeOK
  <2>5. last[t] \notin Keys(job[j].id)
    BY <2>3, <2>4 DEF SelectorsKnown, Table, Keys
  <2>6. QED
    BY <2>2, <2>5 DEF ClearSelection
<1>4. NoOrphans' /\ Unowned'
  BY DEF IInv, NoOrphans, Unowned, ClearSelection, ghosts
<1>5. RefreshersKnown' /\ DeletersNamed'
  BY <1>1 DEF IInv, RefreshersKnown, DeletersNamed, ClearSelection, ghosts
<1>6. DeletersAlone'
  <2>1. \A t : Of(t)' = Of(t)
    BY DEF Of, ClearSelection
  <2>2. QED
    BY <1>1, <2>1 DEF IInv, DeletersAlone, ClearSelection, ghosts
<1>7. QED
  BY <1>2, <1>3, <1>4, <1>5, <1>6 DEF IInv

LEMMA SetInv ==
    ASSUME IInv, SelectorsKnown, NEW j \in Job, SetSelection(j)
    PROVE  IInv'
<1>0. TypeOK
  BY DEF IInv
<1>1. /\ job' \in JobType /\ job[j].at = "set" /\ job'[j].at = "done"
      /\ \A k \in Job \ {j} : job'[k] = job[k]
  BY <1>0, ReturnShape DEF SetSelection
<1>2. job[j].id \in Profile \cup Rule \cup {None}
  BY <1>1 DEF SelectorsKnown
<1>3. /\ last' = [last EXCEPT ![Table(job[j].id)] = job[j].id]
      /\ Table(job[j].id) \in {"profiles", "rules"}
  BY DEF SetSelection, Table
<1>4. TypeOK'
  <2>1. last' \in [{"profiles", "rules"} -> Profile \cup Rule \cup {None}]
    BY <1>0, <1>2, <1>3 DEF TypeOK
  <2>2. QED
    BY <1>1, <2>1 DEF IInv, TypeOK, JobType, JobRecord, SetSelection
<1>5. LastSelectionStands'
  <2> SUFFICES ASSUME NEW t \in {"profiles", "rules"}, ~Selecting(t)',
                      last'[t] \in rows
               PROVE  last'[t] \in isSelected'
    BY <1>4 DEF LastSelectionStands, SetSelection, TypeOK
  <2>1. CASE t = Table(job[j].id)
    BY <1>0, <1>3, <2>1 DEF SetSelection, TypeOK
  <2>2. CASE t # Table(job[j].id)
    <3>1. last'[t] = last[t]
      BY <1>0, <1>3, <2>2 DEF TypeOK
    <3>2. ~Selecting(t)
      BY <1>1, <2>2 DEF Selecting, Table
    <3>3. QED
      BY <1>0, <3>1, <3>2
         DEF IInv, LastSelectionStands, SetSelection, TypeOK
  <2>3. QED
    BY <2>1, <2>2
<1>6. NoOrphans' /\ Unowned'
  BY DEF IInv, NoOrphans, Unowned, SetSelection
<1>7. RefreshersKnown' /\ DeletersNamed'
  BY <1>1 DEF IInv, RefreshersKnown, DeletersNamed, SetSelection
<1>8. DeletersAlone'
  <2>1. \A t : Of(t)' = Of(t)
    BY DEF Of, SetSelection
  <2>2. QED
    BY <1>1, <2>1 DEF IInv, DeletersAlone, SetSelection
<1>9. QED
  BY <1>4, <1>5, <1>6, <1>7, <1>8 DEF IInv
-----------------------------------------------------------------------------
\* A new subscription, of which there are no rows.
LEMMA InsertSubInv ==
    ASSUME IInv, NEW j \in Job, NEW s \in Sub, InsertSubscription(j, s)
    PROVE  IInv'
<1>0. TypeOK
  BY DEF IInv
<1>1. /\ job' \in JobType /\ job[j].at = "insertSub"
      /\ job'[j].at = "fetch" /\ job'[j].id = s
      /\ \A k \in Job \ {j} : job'[k] = job[k]
  <2>1. job[j] \in JobRecord /\ "fetch" \in At /\ s \in Key
    BY <1>0 DEF TypeOK, JobRecord, At, Key, Op, First
  <2> DEFINE r == [job[j] EXCEPT !.at = "fetch", !.id = s]
  <2>2. r \in JobRecord /\ r.at = "fetch" /\ r.id = s
    BY <2>1 DEF JobRecord
  <2>3. job' = [job EXCEPT ![j] = r] /\ job[j].at = "insertSub"
    BY DEF InsertSubscription
  <2> HIDE DEF r
  <2>4. QED
    BY <1>0, <2>2, <2>3 DEF TypeOK, JobType, JobRecord
<1>2. TypeOK'
  BY <1>1 DEF IInv, TypeOK, JobType, JobRecord, InsertSubscription, ghosts
<1>3. LastSelectionStands'
  <2>1. \A t : Selecting(t) => Selecting(t)'
    BY <1>1 DEF Selecting, Table
  <2>2. QED
    BY <2>1 DEF IInv, LastSelectionStands, InsertSubscription, ghosts
<1>4. NoOrphans' /\ Unowned'
  BY DEF IInv, NoOrphans, Unowned, InsertSubscription, ghosts
<1>5. RefreshersKnown' /\ DeletersNamed' /\ DeletersAlone'
  <2>1. /\ \A t : Of(t)' = Of(t)
        /\ subscriptions' = subscriptions \cup {s} /\ overtaken' = overtaken
    BY DEF Of, InsertSubscription, ghosts
  <2>2. RefreshersKnown'
    BY <1>1, <2>1 DEF IInv, RefreshersKnown
  <2>3. DeletersNamed'
    BY <1>1 DEF IInv, DeletersNamed
  <2>4. DeletersAlone'
    BY <1>1, <2>1 DEF IInv, DeletersAlone
  <2>5. QED
    BY <2>2, <2>3, <2>4
<1>6. QED
  BY <1>2, <1>3, <1>4, <1>5 DEF IInv

\* The new rows of a refresh: their subscription exists, or was overtaken.
LEMMA InsertAllInv ==
    ASSUME IInv, NewIsNew, NEW j \in Job, InsertAll(j)
    PROVE  IInv'
<1>0. TypeOK
  BY DEF IInv
<1>1. /\ job' \in JobType
      /\ job[j].at = "insertAll" /\ job'[j].at = "updateMeta"
      /\ \A k \in Job \ {j} : job'[k] = job[k]
  <2>1. "updateMeta" \in At
    BY DEF At
  <2>2. QED
    BY <1>0, <2>1, StepShape DEF InsertAll
<1> DEFINE s == job[j].id
           new == job[j].new
<1>2. s \in subscriptions \cup overtaken /\ new \subseteq Profile
  BY <1>0, <1>1 DEF IInv, RefreshersKnown, TypeOK
<1>3. /\ rows' = rows \cup new
      /\ subscriptionId' =
             [p \in Profile |-> IF p \in rows \cup new
                                THEN IF p \in new THEN s ELSE subscriptionId[p]
                                ELSE None]
      /\ overtaken' = overtaken \cup {t \in {s} : Deleting(t)}
      /\ UNCHANGED <<isSelected, subscriptions, last>>
  BY DEF InsertAll, Owned
<1>4. s \in Sub
  BY <1>0, <1>2 DEF TypeOK
<1> HIDE DEF s, new
<1>5. TypeOK'
  <2>1. subscriptionId' \in [Profile -> Sub \cup {None}]
    BY <1>0, <1>3, <1>4 DEF TypeOK
  <2>2. QED
    BY <1>0, <1>1, <1>2, <1>3, <1>4, <2>1 DEF TypeOK, JobType, JobRecord
<1>6. LastSelectionStands'
  <2>1. \A t : Selecting(t) => Selecting(t)'
    BY <1>1 DEF Selecting, Table
  <2>2. \A t \in DOMAIN last : last[t] \notin new \/ last[t] \in rows
    BY <1>0, <1>1 DEF NewIsNew, Fetched, TypeOK, new
  <2>3. QED
    BY <1>3, <2>1, <2>2 DEF IInv, LastSelectionStands
<1>7. NoOrphans' /\ Unowned'
  BY <1>2, <1>3 DEF IInv, NoOrphans, Unowned
<1>8. RefreshersKnown' /\ DeletersNamed'
  <2>1. overtaken \subseteq overtaken' /\ subscriptions' = subscriptions
    BY <1>3
  <2>2. RefreshersKnown'
    BY <1>1, <2>1 DEF IInv, RefreshersKnown
  <2>3. DeletersNamed'
    BY <1>1 DEF IInv, DeletersNamed
  <2>4. QED
    BY <2>2, <2>3
<1>9. DeletersAlone'
  <2>1. \A k \in Job : job'[k].at = "deleteSub" =>
            k # j /\ job'[k] = job[k] /\ job[k].id \in Sub
    BY <1>1 DEF IInv, DeletersNamed
  <2>2. ASSUME NEW k \in Job, NEW t \in Sub,
               job'[k].at = "deleteSub", job'[k].id = t
        PROVE  Of(t)' = {} \/ t \in overtaken'
    <3>1. Of(t) = {} \/ t \in overtaken
      BY <2>1, <2>2 DEF IInv, DeletersAlone
    <3>2. CASE t = s
      BY <1>3, <2>1, <2>2, <3>2 DEF Deleting
    <3>3. CASE t # s
      BY <1>3, <3>1, <3>3 DEF Of
    <3>4. QED
      BY <3>2, <3>3
  <2>3. QED
    BY <2>1, <2>2 DEF DeletersAlone
<1>10. QED
  BY <1>5, <1>6, <1>7, <1>8, <1>9 DEF IInv

\* The row of a subscription goes: it had no profiles left, or was overtaken.
LEMMA DeleteSubInv ==
    ASSUME IInv, NEW j \in Job, DeleteSubscription(j) PROVE IInv'
<1>0. TypeOK
  BY DEF IInv
<1>1. /\ job' \in JobType /\ job[j].at = "deleteSub" /\ job'[j].at = "done"
      /\ \A k \in Job \ {j} : job'[k] = job[k]
  BY <1>0, ReturnShape DEF DeleteSubscription
<1> DEFINE s == job[j].id
<1>2. /\ subscriptions' = subscriptions \ {s}
      /\ overtaken' = overtaken \cup {t \in {s} : Refreshing(t)}
      /\ UNCHANGED <<rows, subscriptionId, isSelected, last>>
  BY DEF DeleteSubscription
<1>3. s \in Sub /\ (Of(s) = {} \/ s \in overtaken)
  BY <1>1 DEF IInv, DeletersNamed, DeletersAlone
<1> HIDE DEF s
<1>4. TypeOK'
  BY <1>0, <1>1, <1>2, <1>3 DEF TypeOK, JobType, JobRecord
<1>5. LastSelectionStands'
  <2>1. \A t : Selecting(t) => Selecting(t)'
    BY <1>1 DEF Selecting, Table
  <2>2. QED
    BY <1>2, <2>1 DEF IInv, LastSelectionStands
<1>6. NoOrphans' /\ Unowned'
  BY <1>2, <1>3 DEF IInv, NoOrphans, Unowned, Of
<1>7. RefreshersKnown'
  <2> SUFFICES ASSUME NEW k \in Job, job'[k].at \in RefreshPlace
               PROVE  job'[k].id \in subscriptions' \cup overtaken'
    BY DEF RefreshersKnown, RefreshPlace
  <2>1. k # j /\ job'[k] = job[k]
    BY <1>1 DEF RefreshPlace
  <2>2. job[k].id \in subscriptions \cup overtaken
    BY <2>1 DEF IInv, RefreshersKnown, RefreshPlace
  <2>3. job[k].id = s => Refreshing(s)
    BY <2>1 DEF Refreshing, RefreshPlace
  <2>4. QED
    BY <1>2, <2>1, <2>2, <2>3
<1>8. DeletersNamed'
  BY <1>1 DEF IInv, DeletersNamed
<1>9. DeletersAlone'
  <2>1. (\A t : Of(t)' = Of(t)) /\ overtaken \subseteq overtaken'
    BY <1>2 DEF Of
  <2>2. QED
    BY <1>1, <2>1 DEF IInv, DeletersAlone
<1>10. QED
  BY <1>4, <1>5, <1>6, <1>7, <1>8, <1>9 DEF IInv

\* A selection that is cut off is no longer remembered.
LEMMA CutInv == ASSUME IInv, Crash \/ \E j \in Job : Cancel(j) PROVE IInv'
<1>0. TypeOK /\ NoJob \in JobRecord /\ NoJob.at = "idle"
  BY NoJobType DEF IInv, NoJob
<1>1. UNCHANGED <<tables, overtaken>>
  BY DEF Crash, Cancel
<1>2. job' \in JobType /\ \A k \in Job : job'[k] \in {job[k], NoJob}
  BY <1>0 DEF Crash, Cancel, TypeOK, JobType, JobRecord
<1>3. /\ last' \in [{"profiles", "rules"} -> Profile \cup Rule \cup {None}]
      /\ \A t \in {"profiles", "rules"} :
             last'[t] = None \/ (last'[t] = last[t] /\ (Selecting(t) => Selecting(t)'))
  <2>1. CASE Crash
    BY <1>0, <2>1 DEF Crash, TypeOK
  <2>2. ASSUME NEW j \in Job, Cancel(j)
        PROVE  /\ last' \in [{"profiles", "rules"} -> Profile \cup Rule \cup {None}]
               /\ \A t \in {"profiles", "rules"} :
                      \/ last'[t] = None
                      \/ last'[t] = last[t] /\ (Selecting(t) => Selecting(t)')
    <3>1. \A k \in Job \ {j} : job'[k] = job[k]
      BY <1>0, <2>2 DEF Cancel, TypeOK
    <3>2. CASE job[j].at = "set"
      BY <1>0, <2>2, <3>1, <3>2 DEF Cancel, TypeOK, Table, Selecting
    <3>3. CASE job[j].at # "set"
      BY <1>0, <2>2, <3>1, <3>3 DEF Cancel, TypeOK, Table, Selecting
    <3>4. QED
      BY <3>2, <3>3
  <2>3. QED
    BY <2>1, <2>2
<1>4. TypeOK'
  BY <1>0, <1>1, <1>2, <1>3 DEF TypeOK, JobType, JobRecord, tables
<1>5. LastSelectionStands'
  <2>1. None \notin rows
    BY <1>0 DEF TypeOK
  <2>2. QED
    BY <1>0, <1>1, <1>3, <2>1 DEF IInv, LastSelectionStands, TypeOK, tables
<1>6. NoOrphans' /\ Unowned'
  BY <1>1 DEF IInv, NoOrphans, Unowned, tables
<1>7. RefreshersKnown' /\ DeletersNamed'
  BY <1>0, <1>1, <1>2 DEF IInv, RefreshersKnown, DeletersNamed, tables
<1>8. DeletersAlone'
  <2>1. \A t : Of(t)' = Of(t)
    BY <1>1 DEF Of, tables
  <2>2. QED
    BY <1>0, <1>1, <1>2, <2>1 DEF IInv, DeletersAlone
<1>9. QED
  BY <1>4, <1>5, <1>6, <1>7, <1>8 DEF IInv
-----------------------------------------------------------------------------
\* What a query, other than a fetch, does to its own job and to the rest.
QueryShape(j) ==
    /\ \A k \in Job \ {j} : job'[k] = job[k]
    /\ job'[j].at \in Fetched =>
           job[j].at \in Fetched /\ job'[j].new = job[j].new
    /\ job'[j].id \in {job[j].id, None} \cup Sub
    /\ job'[j].at \in {"clear", "set"} =>
           job[j].at = "clear" /\ job'[j].id = job[j].id
    /\ \A p \in rows' \ rows :
           \/ Fresh(p)
           \/ job[j].at \in Fetched /\ job'[j].at \notin Fetched
                 /\ p \in job[j].new
    /\ \/ last' = last
       \/ /\ job[j].at = "set"
          /\ last' = [last EXCEPT ![Table(job[j].id)] = job[j].id]

LEMMA QueryHasShape ==
    ASSUME TypeOK, NEW j \in Job, Query(j),
           ~\E batch \in SUBSET Profile : Fetch(j, batch)
    PROVE  QueryShape(j)
<1>1. ASSUME NEW p \in Profile, InsertLine(j, p) PROVE QueryShape(j)
  BY <1>1 DEF InsertLine, QueryShape, TypeOK, Fetched, ghosts
<1>2. ASSUME NEW p \in Profile, InsertOne(j, p) PROVE QueryShape(j)
  <2>1. rows' = rows \cup {p} /\ Fresh(p) /\ last' = last
    BY <1>2 DEF InsertOne, ghosts
  <2>2. QED
    BY <1>2, <2>1, ReturnShape DEF InsertOne, QueryShape, Fetched
<1>3. ASSUME NEW r \in Rule, InsertRule(j, r) PROVE QueryShape(j)
  <2>1. rows' = rows \cup {r} /\ Fresh(r) /\ last' = last
    BY <1>3 DEF InsertRule, ghosts
  <2>2. QED
    BY <1>3, <2>1, ReturnShape DEF InsertRule, QueryShape, Fetched
<1>4. ASSUME NEW s \in Sub, InsertSubscription(j, s) PROVE QueryShape(j)
  BY <1>4 DEF InsertSubscription, QueryShape, TypeOK, Fetched, ghosts
<1>5. ASSUME NEW from, NEW ok \in BOOLEAN, Return(j, from, ok),
             rows' \subseteq rows, last' = last
      PROVE  QueryShape(j)
  BY <1>5, ReturnShape DEF QueryShape, Fetched
<1>6. CASE LinesEnd(j)
  <2>1. (job[j].new # {}) \in BOOLEAN /\ rows' \subseteq rows /\ last' = last
    BY <1>6 DEF LinesEnd, tables, ghosts
  <2>2. QED
    BY <1>5, <1>6, <2>1 DEF LinesEnd
<1>7. CASE RuleInvalid(j) \/ UpdateRow(j) \/ RefreshFails(j) \/ UpdateMeta(j)
  <2>1. rows' \subseteq rows /\ last' = last
    BY <1>7 DEF RuleInvalid, UpdateRow, RefreshFails, UpdateMeta, tables, ghosts
  <2>2. QED
    BY <1>5, <1>7, <2>1 DEF RuleInvalid, UpdateRow, RefreshFails, UpdateMeta
<1>8. CASE Delete(j)
  <2>1. rows' \subseteq rows /\ last' = last
    BY <1>8 DEF Delete, ghosts
  <2>2. QED
    BY <1>5, <1>8, <2>1 DEF Delete
<1>9. CASE DeleteSubscription(j)
  <2>1. rows' \subseteq rows /\ last' = last
    BY <1>9 DEF DeleteSubscription
  <2>2. QED
    BY <1>5, <1>9, <2>1 DEF DeleteSubscription
<1>10. CASE ClearSelection(j)
  <2>1. rows' = rows /\ last' = last /\ "set" \in At
    BY <1>10 DEF ClearSelection, ghosts, At
  <2>2. QED
    BY <1>10, <2>1, StepShape DEF ClearSelection, QueryShape, Fetched
<1>11. CASE SetSelection(j)
  <2>1. /\ rows' = rows
        /\ last' = [last EXCEPT ![Table(job[j].id)] = job[j].id]
    BY <1>11 DEF SetSelection
  <2>2. /\ job[j].at = "set" /\ job'[j].at = "done" /\ job'[j].id = None
        /\ \A k \in Job \ {j} : job'[k] = job[k]
    BY <1>11, ReturnShape DEF SetSelection
  <2>3. QED
    BY <2>1, <2>2 DEF QueryShape, Fetched
<1>12. CASE DeleteOld(j)
  <2>1. rows' \subseteq rows /\ last' = last /\ "insertAll" \in At
    BY <1>12 DEF DeleteOld, DeleteBySubscription, ghosts, At
  <2>2. QED
    BY <1>12, <2>1, StepShape DEF DeleteOld, QueryShape, Fetched
<1>13. CASE DeleteRows(j)
  <2>1. rows' \subseteq rows /\ last' = last /\ "deleteSub" \in At
    BY <1>13 DEF DeleteRows, DeleteBySubscription, ghosts, At
  <2>2. QED
    BY <1>13, <2>1, StepShape DEF DeleteRows, QueryShape, Fetched
<1>14. CASE InsertAll(j)
  <2>1. rows' = rows \cup job[j].new /\ last' = last /\ "updateMeta" \in At
    BY <1>14 DEF InsertAll, At
  <2>2. QED
    BY <1>14, <2>1, StepShape DEF InsertAll, QueryShape, Fetched
<1>15. QED
  BY <1>1, <1>2, <1>3, <1>4, <1>6, <1>7, <1>8, <1>9, <1>10, <1>11, <1>12,
     <1>13, <1>14 DEF Query

LEMMA QueryKnown ==
    ASSUME TypeOK, Known, NEW j \in Job, QueryShape(j) PROVE Known'
<1>1. \A k \in Job : job[k].new \subseteq Profile
  BY DEF TypeOK
<1>2. DOMAIN last = {"profiles", "rules"}
  BY DEF TypeOK
<1>3. \A t \in {"profiles", "rules"} :
          \/ last'[t] = last[t]
          \/ job[j].at = "set" /\ t = Table(job[j].id) /\ last'[t] = job[j].id
  BY <1>2 DEF QueryShape
<1>4. SelectorsKnown'
  <2>1. \A k \in Job : job'[k].at \in {"clear", "set"} =>
            job'[k].id \in Profile \cup Rule \cup {None}
    BY DEF Known, SelectorsKnown, QueryShape
  <2>2. /\ last'["profiles"] \in Profile \cup {None}
        /\ last'["rules"] \in Rule \cup {None}
    BY <1>3 DEF Known, SelectorsKnown, Table
  <2>3. QED
    BY <2>1, <2>2 DEF SelectorsKnown
<1>5. NewIsNew'
  <2> SUFFICES ASSUME NEW k \in Job, job'[k].at \in Fetched
               PROVE  /\ job'[k].new \cap rows' = {}
                      /\ \A t \in {"profiles", "rules"} :
                             last'[t] \notin job'[k].new
                      /\ \A i \in Job : job'[i].id \notin job'[k].new
                      /\ \A i \in Job \ {k} : job'[i].at \in Fetched =>
                             job'[i].new \cap job'[k].new = {}
    BY DEF NewIsNew
  <2>1. \A i \in Job : job'[i].at \in Fetched =>
            job[i].at \in Fetched /\ job'[i].new = job[i].new
    BY DEF QueryShape
  <2>2. job[k].at \in Fetched /\ job'[k].new = job[k].new
    BY <2>1
  <2>3. /\ job[k].new \cap rows = {}
        /\ \A t \in {"profiles", "rules"} : last[t] \notin job[k].new
        /\ \A i \in Job : job[i].id \notin job[k].new
        /\ \A i \in Job \ {k} : job[i].at \in Fetched =>
               job[i].new \cap job[k].new = {}
    BY <2>2 DEF Known, NewIsNew
  <2>4. \A p \in rows' \ rows : p \notin job[k].new
    <3> SUFFICES ASSUME NEW p \in rows' \ rows PROVE p \notin job[k].new
      OBVIOUS
    <3>1. CASE Fresh(p)
      BY <3>1 DEF Fresh
    <3>2. CASE job[j].at \in Fetched /\ job'[j].at \notin Fetched
                  /\ p \in job[j].new
      BY <2>3, <3>2
    <3>3. QED
      BY <3>1, <3>2 DEF QueryShape
  <2>5. \A i \in Job : job'[i].id \notin job[k].new
    <3>1. (Sub \cup {None}) \cap job[k].new = {}
      BY <1>1
    <3>2. \A i \in Job : job'[i].id \in {job[i].id, None} \cup Sub
      BY DEF QueryShape
    <3>3. QED
      BY <2>3, <3>1, <3>2
  <2>6. \A t \in {"profiles", "rules"} : last'[t] \notin job[k].new
    BY <1>3, <2>3
  <2>7. \A i \in Job \ {k} : job'[i].at \in Fetched =>
            job'[i].new \cap job'[k].new = {}
    BY <2>1, <2>2, <2>3
  <2>8. QED
    BY <2>2, <2>3, <2>4, <2>5, <2>6, <2>7
<1>6. QED
  BY <1>4, <1>5 DEF Known

LEMMA FetchKnown ==
    ASSUME TypeOK, Known, NEW j \in Job, NEW batch \in SUBSET Profile,
           Fetch(j, batch)
    PROVE  Known'
<1>1. /\ job'[j].at = "deleteOld" /\ job'[j].id = job[j].id
      /\ job'[j].new = batch /\ \A k \in Job \ {j} : job'[k] = job[k]
      /\ last' = last /\ rows' = rows
  BY DEF Fetch, TypeOK, tables, ghosts
<1>2. \A p \in batch : Fresh(p)
  BY DEF Fetch
<1>3. SelectorsKnown'
  BY <1>1 DEF Known, SelectorsKnown
<1>4. \A k \in Job : job[k].id \notin batch /\ job[k].new \cap batch = {}
  BY <1>2 DEF Fresh
<1>5. /\ batch \cap rows = {}
      /\ \A t \in {"profiles", "rules"} : last[t] \notin batch
  BY <1>2 DEF Fresh
<1>6. \A k \in Job : job'[k].id = job[k].id
  BY <1>1
<1>7. NewIsNew'
  <2> SUFFICES ASSUME NEW k \in Job, job'[k].at \in Fetched
               PROVE  /\ job'[k].new \cap rows = {}
                      /\ \A t \in {"profiles", "rules"} :
                             last[t] \notin job'[k].new
                      /\ \A i \in Job : job[i].id \notin job'[k].new
                      /\ \A i \in Job \ {k} : job'[i].at \in Fetched =>
                             job'[i].new \cap job'[k].new = {}
    BY <1>1, <1>6 DEF NewIsNew
  <2>1. CASE k = j
    BY <1>1, <1>4, <1>5, <2>1
  <2>2. CASE k # j
    BY <1>1, <1>4, <2>2 DEF Known, NewIsNew
  <2>3. QED
    BY <2>1, <2>2
<1>8. QED
  BY <1>3, <1>7 DEF Known

LEMMA LaunchKnown ==
    ASSUME TypeOK, Known, NEW j \in Job, NEW op \in Op, NEW id \in Key,
           Launch(j, op, id)
    PROVE  Known'
<1>1. /\ job'[j].at = First[op] /\ job'[j].id = id
      /\ \A k \in Job \ {j} : job'[k] = job[k]
      /\ last' = last /\ rows' = rows
  BY DEF Launch, TypeOK, NoJob, tables, ghosts
<1>2. First[op] \notin Fetched \cup {"set"}
  BY DEF Op, First, Fetched
<1>3. First[op] = "clear" => op = "select"
  BY DEF Op, First
<1>4. op = "select" => id \in rows \cup {None}
  BY DEF Launch
<1>5. id \in rows \cup subscriptions \cup {None}
  BY DEF Launch
<1>6. rows \subseteq Profile \cup Rule /\ subscriptions \subseteq Sub
  BY DEF TypeOK
<1>7. SelectorsKnown'
  BY <1>1, <1>2, <1>3, <1>4, <1>6 DEF Known, SelectorsKnown
<1>8. NewIsNew'
  <2>1. \A k \in Job : job'[k].at \in Fetched => k # j /\ job'[k] = job[k]
    BY <1>1, <1>2
  <2>2. \A k \in Job : job[k].new \subseteq Profile
    BY DEF TypeOK
  <2>3. \A k \in Job : job[k].at \in Fetched => id \notin job[k].new
    BY <1>5, <1>6, <2>2 DEF Known, NewIsNew
  <2>4. QED
    BY <1>1, <2>1, <2>3 DEF Known, NewIsNew
<1>9. QED
  BY <1>7, <1>8 DEF Known

\* Jobs that end without a query.
LEMMA EndKnown ==
    ASSUME TypeOK, Known, Crash \/ \E j \in Job : Cancel(j) \/ Forget(j)
    PROVE  Known'
<1>1. /\ \A k \in Job : job'[k] \in {job[k], NoJob}
      /\ rows' = rows
      /\ NoJob.at = "idle" /\ NoJob.id = None
  BY DEF Crash, Cancel, Forget, TypeOK, tables, NoJob
<1>2. \A t \in {"profiles", "rules"} : last'[t] \in {last[t], None}
  BY DEF Crash, Cancel, Forget, TypeOK, ghosts
<1>3. \A k \in Job : job[k].new \subseteq Profile
  BY DEF TypeOK
<1>4. SelectorsKnown'
  BY <1>1, <1>2 DEF Known, SelectorsKnown
<1>5. \A k \in Job : job'[k].at \in Fetched => job'[k] = job[k]
  BY <1>1 DEF Fetched
<1>6. \A k \in Job : job'[k].id \in {job[k].id, None}
  BY <1>1
<1>7. NewIsNew'
  <2> SUFFICES ASSUME NEW k \in Job, job'[k].at \in Fetched
               PROVE  /\ job'[k].new \cap rows' = {}
                      /\ \A t \in {"profiles", "rules"} :
                             last'[t] \notin job'[k].new
                      /\ \A i \in Job : job'[i].id \notin job'[k].new
                      /\ \A i \in Job \ {k} : job'[i].at \in Fetched =>
                             job'[i].new \cap job'[k].new = {}
    BY DEF NewIsNew
  <2>1. job'[k] = job[k] /\ None \notin job[k].new
    BY <1>3, <1>5
  <2>2. QED
    BY <1>1, <1>2, <1>5, <1>6, <2>1 DEF Known, NewIsNew
<1>8. QED
  BY <1>4, <1>7 DEF Known
-----------------------------------------------------------------------------
LEMMA QueryInv ==
    ASSUME IInv, Known, NEW j \in Job, Query(j) PROVE IInv' /\ Known'
<1>0. TypeOK
  BY DEF IInv
<1>1. IInv'
  BY ReadInv, InsertersInv, RemoversInv, ClearInv, SetInv, InsertSubInv,
     InsertAllInv, DeleteSubInv DEF Query, Known
<1>2. Known'
  <2>1. CASE \E batch \in SUBSET Profile : Fetch(j, batch)
    BY <1>0, <2>1, FetchKnown
  <2>2. CASE ~\E batch \in SUBSET Profile : Fetch(j, batch)
    BY <1>0, <2>2, QueryHasShape, QueryKnown
  <2>3. QED
    BY <2>1, <2>2
<1>3. QED
  BY <1>1, <1>2

LEMMA InitInv == Init => IInv /\ Known
<1> SUFFICES ASSUME Init PROVE IInv /\ Known
  OBVIOUS
<1>1. NoJob \in JobRecord /\ NoJob.at = "idle"
  BY NoJobType DEF NoJob
<1>2. TypeOK
  BY <1>1 DEF Init, TypeOK, JobRecord
<1>3. \A j \in Job : job[j].at = "idle"
  BY <1>1 DEF Init
<1>4. IInv
  BY <1>2, <1>3 DEF Init, IInv, LastSelectionStands, NoOrphans, Unowned,
     RefreshersKnown, DeletersAlone, DeletersNamed
<1>5. Known
  BY <1>3 DEF Init, Known, SelectorsKnown, NewIsNew, Fetched
<1>6. QED
  BY <1>4, <1>5

LEMMA NextInv ==
    ASSUME IInv, Known, [ServerNext]_serverVars PROVE IInv' /\ Known'
<1>0. TypeOK
  BY DEF IInv
<1>1. ASSUME NEW j \in Job, NEW op \in Op, NEW id \in Key, Launch(j, op, id)
      PROVE  IInv' /\ Known'
  BY <1>0, <1>1, LaunchInv, LaunchKnown
<1>2. ASSUME NEW j \in Job, Call(j) \/ Handle(j) \/ HandleQr(j)
      PROVE  IInv' /\ Known'
  <2>1. {"add", "addSub", "addRule", "qr"} \subseteq Op /\ None \in Key
    BY DEF Op, First, Key
  <2>2. QED
    BY <1>1, <1>2, <2>1 DEF Call, Handle, HandleQr
<1>3. ASSUME NEW j \in Job, Serve(j) PROVE IInv' /\ Known'
  BY <1>3, QueryInv DEF Serve
<1>4. ASSUME NEW j \in Job, Close(j) PROVE IInv' /\ Known'
  BY <1>0, <1>4, ReadInv, EndKnown DEF Close
<1>5. ASSUME NEW j \in Job, CallCancelled(j) PROVE IInv' /\ Known'
  BY <1>0, <1>5, CutInv, EndKnown DEF CallCancelled
<1>6. CASE ProcessDies
  BY <1>0, <1>6, CutInv, EndKnown DEF ProcessDies
<1>7. CASE UNCHANGED vars
  <2>1. UNCHANGED <<rows, subscriptionId, isSelected, subscriptions, job,
                    last, overtaken>>
    BY <1>7 DEF vars, tables, ghosts
  <2>2. TypeOK' /\ LastSelectionStands' /\ NoOrphans' /\ Unowned'
    BY <2>1 DEF IInv, TypeOK, LastSelectionStands, Selecting, NoOrphans,
       Unowned
  <2>3. RefreshersKnown' /\ DeletersAlone' /\ DeletersNamed'
    BY <2>1 DEF IInv, RefreshersKnown, DeletersAlone, DeletersNamed, Of
  <2>4. Known'
    BY <2>1 DEF Known, SelectorsKnown, NewIsNew
  <2>5. QED
    BY <2>2, <2>3, <2>4 DEF IInv
<1>8. QED
  BY <1>2, <1>3, <1>4, <1>5, <1>6, <1>7 DEF ServerNext, serverVars, Answer

LEMMA Safe == ServerSpec => [](IInv /\ Known)
<1>1. ServerInit => IInv /\ Known
  BY InitInv DEF ServerInit
<1>2. IInv /\ Known /\ [ServerNext]_serverVars => IInv' /\ Known'
  BY NextInv
<1>3. QED
  BY <1>1, <1>2, PTL DEF ServerSpec

\* However many selections, deletions, imports, refreshes, cancellations and
\* deaths of the process overlap, the profile or rule whose selection completed
\* last is the one that is marked (selectProfile, selectRoutingRule).
THEOREM SelectionStands == ServerSpec => []LastSelectionStands
<1>1. IInv /\ Known => LastSelectionStands
  BY DEF IInv
<1>2. QED
  BY <1>1, Safe, PTL

\* However many of them overlap, a profile of a subscription that is gone is
\* one that a refresh has brought in while deleteSubscription ran.
THEOREM NoOrphansEver == ServerSpec => []NoOrphans
<1>1. IInv /\ Known => NoOrphans
  BY DEF IInv
<1>2. QED
  BY <1>1, Safe, PTL
-----------------------------------------------------------------------------
\* A refresh goes through its places in turn.  Until it deletes them, the rows
\* it saw at its start are still its subscription's; from then on they are gone,
\* and no list fetched by anybody brings one back.
Replacing(j) ==
    /\ job[j].at \in RefreshPlace \cup {"updateMeta", "done"}
    /\ job[j].at \in {"fetch", "deleteOld"} =>
           \A p \in job[j].old \cap rows : subscriptionId[p] = job[j].id
    /\ job[j].at \in {"insertAll", "updateMeta"} => job[j].old \cap rows = {}
    /\ job[j].at = "done" /\ job[j].ok => job[j].old \cap rows = {}
    /\ \A k \in Job : job[k].at \in Fetched => job[k].new \cap job[j].old = {}

RefreshInv == \A j \in Job : job[j].op = "refresh" => Replacing(j)

\* The order of the places of a refresh, as far as any query goes.
Moves(j) ==
    \/ job[j].at = "fetch" /\ job'[j].at = "deleteOld" /\ job'[j].id = job[j].id
    \/ /\ job[j].at = "deleteOld" /\ job'[j].at = "insertAll"
       /\ rows' = rows \ Of(job[j].id)
    \/ job[j].at = "insertAll" /\ job'[j].at = "updateMeta"
    \/ job[j].at = "updateMeta" /\ job'[j].at = "done"
    \/ job[j].at \in RefreshPlace /\ job'[j].at = "done" /\ ~job'[j].ok
    \/ job[j].at \notin RefreshPlace \cup {"idle", "updateMeta", "done"}

\* What a query does to the operation, and to the owners of rows that stay.
QueryKeeps(j) ==
    /\ \A k \in Job \ {j} : job'[k] = job[k]
    /\ job'[j].op = job[j].op /\ job'[j].old = job[j].old
    /\ Moves(j)
    /\ job'[j].at # "idle"
    /\ job'[j].at \in Fetched =>
           \/ job[j].at \in Fetched /\ job'[j].new = job[j].new
           \/ \A p \in job'[j].new : Fresh(p)
    /\ \A p \in rows' \ rows :
           \/ Fresh(p)
           \/ job[j].at \in Fetched /\ p \in job[j].new
    /\ \A p \in rows \cap rows' \cap Profile :
           subscriptionId'[p] = subscriptionId[p]

LEMMA QueryDoesKeep ==
    ASSUME TypeOK, NewIsNew, NEW j \in Job, Query(j) PROVE QueryKeeps(j)
<1>1. ASSUME NEW from, NEW ok \in BOOLEAN, Return(j, from, ok),
             from \notin {"idle", "done"},
             from \in RefreshPlace => ok = FALSE,
             \A p \in rows' \ rows : Fresh(p),
             \A p \in rows \cap rows' \cap Profile :
                 subscriptionId'[p] = subscriptionId[p]
      PROVE  QueryKeeps(j)
  <2>1. /\ job[j].at = from /\ job'[j].at = "done" /\ job'[j].id = None
        /\ job'[j].op = job[j].op /\ job'[j].old = job[j].old
        /\ job'[j].ok = ok
        /\ \A k \in Job \ {j} : job'[k] = job[k]
    BY <1>1, ReturnShape
  <2>2. Moves(j)
    <3>1. CASE from \in RefreshPlace
      <4>1. ~job'[j].ok
        BY <1>1, <2>1, <3>1
      <4>2. QED
        BY <2>1, <3>1, <4>1 DEF Moves
    <3>2. CASE from \notin RefreshPlace
      BY <1>1, <2>1, <3>2 DEF Moves
    <3>3. QED
      BY <3>1, <3>2
  <2>3. job'[j].at # "idle" /\ job'[j].at \notin Fetched
    BY <2>1 DEF Fetched
  <2>4. QED
    BY <1>1, <2>1, <2>2, <2>3 DEF QueryKeeps
<1>2. ASSUME NEW from, NEW to \in At, Step(j, from, to),
             \/ from \in {"clear", "deleteRows"} /\ to \notin Fetched
             \/ /\ from = "deleteOld" /\ to = "insertAll"
                /\ rows' = rows \ Of(job[j].id)
             \/ from = "insertAll" /\ to = "updateMeta",
             to # "idle",
             \A p \in rows' \ rows : job[j].at \in Fetched /\ p \in job[j].new,
             \A p \in rows \cap rows' \cap Profile :
                 subscriptionId'[p] = subscriptionId[p]
      PROVE  QueryKeeps(j)
  <2>1. /\ job[j].at = from /\ job'[j].at = to
        /\ job'[j].id = job[j].id /\ job'[j].new = job[j].new
        /\ job'[j].op = job[j].op /\ job'[j].old = job[j].old
        /\ \A k \in Job \ {j} : job'[k] = job[k]
    BY <1>2, StepShape
  <2>2. QED
    BY <1>2, <2>1 DEF QueryKeeps, Moves, Fetched, RefreshPlace
<1>3. ASSUME NEW p \in Profile, InsertLine(j, p) PROVE QueryKeeps(j)
  <2>1. /\ job[j].at = "insert" /\ job'[j].at = "insert"
        /\ job'[j].op = job[j].op /\ job'[j].old = job[j].old
        /\ \A k \in Job \ {j} : job'[k] = job[k]
    BY <1>3 DEF InsertLine, TypeOK
  <2>2. Fresh(p) /\ rows' = rows \cup {p} /\ subscriptionId' = subscriptionId
    BY <1>3 DEF InsertLine
  <2>3. Moves(j) /\ job'[j].at # "idle" /\ job'[j].at \notin Fetched
    BY <2>1 DEF Moves, RefreshPlace, Fetched
  <2>4. QED
    BY <2>1, <2>2, <2>3 DEF QueryKeeps
<1>4. ASSUME NEW p \in Profile, InsertOne(j, p) PROVE QueryKeeps(j)
  BY <1>1, <1>4 DEF InsertOne, RefreshPlace
<1>5. ASSUME NEW r \in Rule, InsertRule(j, r) PROVE QueryKeeps(j)
  BY <1>1, <1>5 DEF InsertRule, RefreshPlace
<1>6. ASSUME NEW s \in Sub, InsertSubscription(j, s) PROVE QueryKeeps(j)
  BY <1>6 DEF InsertSubscription, QueryKeeps, Moves, RefreshPlace, Fetched,
     TypeOK
<1>7. ASSUME NEW batch \in SUBSET Profile, Fetch(j, batch) PROVE QueryKeeps(j)
  BY <1>7 DEF Fetch, QueryKeeps, Moves, RefreshPlace, Fetched, TypeOK, tables
<1>8. CASE LinesEnd(j)
  <2>1. (job[j].new # {}) \in BOOLEAN
    OBVIOUS
  <2>2. QED
    BY <1>1, <1>8, <2>1 DEF LinesEnd, RefreshPlace, tables
<1>9. CASE RuleInvalid(j) \/ UpdateRow(j) \/ UpdateMeta(j)
  BY <1>1, <1>9 DEF RuleInvalid, UpdateRow, UpdateMeta, RefreshPlace, tables
<1>10. CASE RefreshFails(j)
  BY <1>1, <1>10 DEF RefreshFails, tables
<1>11. \A gone : rows' = rows \ gone /\ Owned(subscriptionId) =>
           \A p \in rows \cap rows' \cap Profile :
               subscriptionId'[p] = subscriptionId[p]
  BY DEF Owned
<1>12. CASE Delete(j)
  BY <1>1, <1>11, <1>12 DEF Delete, RefreshPlace
<1>13. CASE SetSelection(j)
  BY <1>1, <1>13 DEF SetSelection, RefreshPlace
<1>14. CASE DeleteSubscription(j)
  BY <1>1, <1>14 DEF DeleteSubscription, RefreshPlace
<1>15. {"set", "insertAll", "updateMeta", "deleteSub"} \subseteq At
  BY DEF At
<1>16. CASE ClearSelection(j)
  BY <1>2, <1>15, <1>16 DEF ClearSelection, Fetched
<1>17. CASE DeleteOld(j)
  BY <1>2, <1>11, <1>15, <1>17 DEF DeleteOld, DeleteBySubscription, Fetched
<1>18. CASE DeleteRows(j)
  BY <1>2, <1>11, <1>15, <1>18 DEF DeleteRows, DeleteBySubscription, Fetched
<1>19. CASE InsertAll(j)
  <2>1. /\ Step(j, "insertAll", "updateMeta")
        /\ rows' = rows \cup job[j].new
        /\ \A p \in Profile : p \in rows' =>
               subscriptionId'[p] = IF p \in job[j].new THEN job[j].id
                                    ELSE subscriptionId[p]
    BY <1>19 DEF InsertAll, Owned
  <2>2. job[j].at \in Fetched /\ job[j].new \cap rows = {}
    BY <2>1 DEF Step, NewIsNew, Fetched
  <2>3. QED
    BY <1>2, <1>15, <2>1, <2>2
<1>20. QED
  BY <1>3, <1>4, <1>5, <1>6, <1>7, <1>8, <1>9, <1>10, <1>12, <1>13, <1>14,
     <1>16, <1>17, <1>18, <1>19 DEF Query

\* A query of any job leaves every refresh in order.
LEMMA QueryReplaces ==
    ASSUME TypeOK, RefreshInv, NEW j \in Job, QueryKeeps(j) PROVE RefreshInv'
<1> SUFFICES ASSUME NEW i \in Job, job'[i].op = "refresh" PROVE Replacing(i)'
  BY DEF RefreshInv
<1>1. /\ job[i].op = "refresh" /\ job'[i].old = job[i].old
      /\ job[i].old \subseteq Profile
  BY DEF QueryKeeps, TypeOK
<1>2. Replacing(i)
  BY <1>1 DEF RefreshInv
<1>3. \A p \in rows' \ rows : p \notin job[i].old
  BY <1>2 DEF QueryKeeps, Replacing, Fresh
<1>4. job[i].old \cap rows' \subseteq job[i].old \cap rows
  BY <1>3
<1>5. \A k \in Job : job'[k].at \in Fetched => job'[k].new \cap job[i].old = {}
  BY <1>2 DEF QueryKeeps, Replacing, Fresh
<1>6. \A p \in job[i].old \cap rows' : subscriptionId'[p] = subscriptionId[p]
  BY <1>1, <1>4 DEF QueryKeeps
<1>7. CASE i # j
  <2>1. job'[i] = job[i]
    BY <1>7 DEF QueryKeeps
  <2>2. QED
    BY <1>1, <1>2, <1>4, <1>5, <1>6, <2>1 DEF Replacing
<1>8. CASE i = j
  <2>0. Moves(i)
    BY <1>8 DEF QueryKeeps
  <2>1. CASE job[i].at = "fetch" /\ job'[i].at = "deleteOld"
                /\ job'[i].id = job[i].id
    BY <1>1, <1>2, <1>4, <1>5, <1>6, <2>1 DEF Replacing, RefreshPlace
  <2>2. CASE job[i].at = "deleteOld" /\ job'[i].at = "insertAll"
                /\ rows' = rows \ Of(job[i].id)
    <3>1. job[i].old \cap rows \subseteq Of(job[i].id)
      BY <1>1, <1>2, <2>2 DEF Replacing, Of
    <3>2. job[i].old \cap rows' = {}
      BY <2>2, <3>1
    <3>3. QED
      BY <1>1, <1>5, <2>2, <3>2 DEF Replacing, RefreshPlace
  <2>3. CASE job[i].at = "insertAll" /\ job'[i].at = "updateMeta"
    BY <1>1, <1>2, <1>4, <1>5, <2>3 DEF Replacing, RefreshPlace
  <2>4. CASE job[i].at = "updateMeta" /\ job'[i].at = "done"
    BY <1>1, <1>2, <1>4, <1>5, <2>4 DEF Replacing, RefreshPlace
  <2>5. CASE job'[i].at = "done" /\ ~job'[i].ok
    BY <1>1, <1>5, <2>5 DEF Replacing, RefreshPlace
  <2>6. CASE job[i].at \notin RefreshPlace \cup {"idle", "updateMeta", "done"}
    BY <1>2, <2>6 DEF Replacing
  <2>7. QED
    BY <2>0, <2>1, <2>2, <2>3, <2>4, <2>5, <2>6 DEF Moves
<1>9. QED
  BY <1>7, <1>8

\* A refresh that begins remembers rows, which are in no list yet.
LEMMA LaunchReplaces ==
    ASSUME TypeOK, NewIsNew, RefreshInv, NEW j \in Job, NEW op \in Op,
           NEW id \in Key, Launch(j, op, id)
    PROVE  RefreshInv'
<1>1. /\ job'[j].op = op /\ job'[j].at = First[op] /\ job'[j].id = id
      /\ op = "refresh" => job'[j].old = Of(id)
      /\ \A k \in Job \ {j} : job'[k] = job[k]
      /\ rows' = rows /\ subscriptionId' = subscriptionId
  BY DEF Launch, TypeOK, NoJob, tables
<1>2. First[op] \notin Fetched \cup {"done"} /\ First["refresh"] = "fetch"
  BY DEF Op, First, Fetched
<1>3. \A k \in Job : job'[k].at \in Fetched => k # j /\ job'[k] = job[k]
  BY <1>1, <1>2
<1>4. ASSUME op = "refresh" PROVE Replacing(j)'
  <2>1. job'[j].at = "fetch" /\ job'[j].id = id /\ job'[j].old = Of(id)
    BY <1>1, <1>2, <1>4
  <2>2. Of(id) \subseteq rows /\ \A p \in Of(id) : subscriptionId[p] = id
    BY DEF Of
  <2>3. \A k \in Job : job'[k].at \in Fetched => job'[k].new \cap rows = {}
    BY <1>3 DEF NewIsNew
  <2>4. QED
    BY <1>1, <2>1, <2>2, <2>3 DEF Replacing, RefreshPlace
<1>5. ASSUME NEW i \in Job \ {j}, job[i].op = "refresh" PROVE Replacing(i)'
  <2>1. Replacing(i) /\ job'[i] = job[i]
    BY <1>1, <1>5 DEF RefreshInv
  <2>2. QED
    BY <1>1, <1>3, <2>1 DEF Replacing
<1>6. QED
  BY <1>1, <1>4, <1>5 DEF RefreshInv

LEMMA EndReplaces ==
    ASSUME TypeOK, RefreshInv, Crash \/ \E j \in Job : Cancel(j) \/ Forget(j)
    PROVE  RefreshInv'
<1>1. /\ \A k \in Job : job'[k] \in {job[k], NoJob}
      /\ rows' = rows /\ subscriptionId' = subscriptionId
      /\ NoJob.at = "idle" /\ NoJob.op = "add"
  BY DEF Crash, Cancel, Forget, TypeOK, tables, NoJob
<1>2. SUFFICES ASSUME NEW i \in Job, job'[i].op = "refresh"
               PROVE  Replacing(i)'
  BY DEF RefreshInv
<1>3. job'[i] = job[i] /\ Replacing(i)
  BY <1>1, <1>2 DEF RefreshInv
<1>4. \A k \in Job : job'[k].at \in Fetched => job'[k] = job[k]
  BY <1>1 DEF Fetched
<1>5. QED
  BY <1>1, <1>3, <1>4 DEF Replacing
-----------------------------------------------------------------------------
\* Every step of the store and of the server keeps RefreshInv.
LEMMA ReplacesInv ==
    ASSUME TypeOK, NewIsNew, RefreshInv, [ServerNext]_serverVars
    PROVE  RefreshInv'
<1>1. ASSUME NEW j \in Job, Call(j) \/ Handle(j) \/ HandleQr(j)
      PROVE  RefreshInv'
  <2>1. {"add", "addSub", "addRule", "qr"} \subseteq Op /\ None \in Key
    BY DEF Op, First, Key
  <2>2. QED
    BY <1>1, <2>1, LaunchReplaces DEF Call, Handle, HandleQr
<1>2. ASSUME NEW j \in Job, Serve(j) PROVE RefreshInv'
  BY <1>2, QueryDoesKeep, QueryReplaces DEF Serve
<1>3. ASSUME NEW j \in Job, Close(j) \/ CallCancelled(j) PROVE RefreshInv'
  BY <1>3, EndReplaces DEF Close, CallCancelled
<1>4. CASE ProcessDies
  BY <1>4, EndReplaces DEF ProcessDies
<1>5. CASE UNCHANGED vars
  <2>1. UNCHANGED <<rows, subscriptionId, job>>
    BY <1>5 DEF vars, tables
  <2>2. QED
    BY <2>1 DEF RefreshInv, Replacing
<1>6. QED
  BY <1>1, <1>2, <1>3, <1>4, <1>5 DEF ServerNext, serverVars, Answer

\* A refreshSubscription that reports success has left none of the rows it was
\* to replace, whatever other refreshes, deletions, imports, pings and renames
\* ran between its queries.
THEOREM RefreshesReplace == ServerSpec => []RefreshReplaces
<1>1. ServerInit => RefreshInv
  BY DEF ServerInit, Init, RefreshInv, NoJob
<1>2. IInv /\ Known /\ RefreshInv /\ [ServerNext]_serverVars => RefreshInv'
  BY ReplacesInv DEF IInv, Known
<1>3. RefreshInv => RefreshReplaces
  BY DEF RefreshInv, Replacing, RefreshReplaces
<1>4. QED
  BY <1>1, <1>2, <1>3, Safe, PTL DEF ServerSpec
=============================================================================
