----------------------- MODULE ReceiptPipelineProofs -----------------------
(***************************************************************************)
(* Proofs about ReceiptPipeline, for any number of accounts, tenants,      *)
(* photos, jobs and worker slots and any bounds.  One inductive invariant, *)
(* Inv, says what the queue, each busy slot and each stored row owe to the *)
(* history of acceptances.  Three properties follow from it together with  *)
(* an invariant of their own: Budget (no receipt is lost), Watched (which  *)
(* duplicates are flagged) and Pictured (images stay).                     *)
(* At the end, the pipeline implements the ledger: each of its steps is a  *)
(* step of the ledger or none.                                             *)
(***************************************************************************)
EXTENDS ReceiptRefinement, TLAPS

\* A job whose receipt was acknowledged (or queued by the old release).
Accepted(j) == jobs[j].state \notin {"unused", "resolved"}

MembersInv == \A u \in Users : member[u] # None => <<u, member[u]>> \in past.memberships

JobsInv == \A j \in Jobs :
    /\ jobs[j].state # "unused" => jobs[j].photo \in Photos /\ jobs[j].sender \in Users
    /\ jobs[j].state # "unused" /\ jobs[j].biz # None
         => <<jobs[j].sender, jobs[j].biz>> \in past.memberships
    /\ jobs[j].state = "completed" /\ jobs[j].biz # None
         => <<jobs[j].biz, jobs[j].photo>> \in past.stored

\* A busy slot works on an accepted job, for the Business the job names (any
\* Business its sender was a member of, when it names none).
WorkerInv(w) ==
    LET k == workers[w]
        job == jobs[k.delivery[1]] IN
    k.pc # "idle" =>
        /\ k.delivery \in Deliveries
        /\ Accepted(k.delivery[1])
        /\ k.pc # "finish" => job.biz \in {None, k.biz}
        /\ k.pc = "lookup" => job.biz = None
        /\ k.pc = "check" => k.pay # None
        /\ k.pc \notin {"lookup", "finish"} => /\ k.biz \in Businesses
                                               /\ <<job.sender, k.biz>> \in past.memberships
        /\ k.pc = "finish" /\ job.biz # None => <<job.biz, job.photo>> \in past.stored
        /\ k.pc \in {"find", "repair"} => /\ k.pay # Unstorable
                                          /\ <<k.biz, job.photo>> \in past.stored
        /\ k.pc \in {"lookup", "read", "check"} => ~k.dup
        /\ k.dup => k.pay # None /\ k.pay # Unstorable
        /\ k.dup => <<k.biz, k.pay>> \in past.pays
        /\ k.pc = "repair" => k.seen \in Row

RowInv(k) ==
    rows[k] # None =>
        /\ k \in past.stored
        /\ <<k[1], rows[k].pay>> \in past.pays
        /\ rows[k].status = "recorded" => rows[k].pay # None /\ rows[k].bank
        /\ <<rows[k].user, k[1]>> \in past.memberships
        /\ \E j \in Jobs : /\ Accepted(j)
                           /\ jobs[j].photo = k[2]
                           /\ jobs[j].sender = rows[k].user
                           /\ jobs[j].biz \in {k[1], None}

Inv == /\ TypeOK
       /\ MembersInv
       /\ JobsInv
       /\ \A w \in Workers : WorkerInv(w)
       /\ \A k \in Keys : RowInv(k)

-----------------------------------------------------------------------------
(* Shapes of the records the actions build. *)

LEMMA SpendType ==
    ASSUME TypeOK, NEW what \in Kinds, Spend(what)
    PROVE  spent' \in [Kinds -> Nat]
BY DEF TypeOK, Spend

LEMMA NoJobType == NoJob \in Job
BY DEF NoJob, Job, JobStates

LEMMA IdleWorkerType == IdleWorker \in Worker
BY DEF IdleWorker, Worker, Stages

LEMMA NoDeletionType == NoDeletion \in Deletion
BY DEF NoDeletion, Deletion

LEMMA ReleasedType ==
    ASSUME NEW job \in Job, NEW s \in JobStates
    PROVE  Released(job, s) \in Job
BY DEF Released, Job

LEMMA AfterFailureType ==
    ASSUME NEW job \in Job
    PROVE  AfterFailure(job) \in Job
<1> DEFINE s == IF job.failures + 1 < MaxAttempts THEN "waiting" ELSE "failed"
<1>1. Released(job, s) \in Job  BY ReleasedType DEF JobStates
<1>2. QED  BY <1>1 DEF AfterFailure, Job

LEMMA AfterStallType ==
    ASSUME NEW job \in Job
    PROVE  AfterStall(job) \in Job
<1> DEFINE s == IF job.stalls < MaxStalls THEN "waiting" ELSE "failed"
<1>1. Released(job, s) \in Job  BY ReleasedType DEF JobStates
<1>2. QED  BY <1>1 DEF AfterStall, Job

LEMMA SettledType ==
    ASSUME TypeOK, NEW w \in Workers, JobOf(w) \in Jobs
    PROVE  Completed(w) \in [Jobs -> Job] /\ Failed(w) \in [Jobs -> Job]
BY ReleasedType, AfterFailureType DEF TypeOK, Completed, Failed, JobStates

LEMMA IdleAgainType ==
    ASSUME TypeOK, NEW w \in Workers
    PROVE  [workers EXCEPT ![w] = IdleWorker] \in [Workers -> Worker]
BY IdleWorkerType DEF TypeOK

\* What the invariant says of a busy slot, in the form the steps use it.
LEMMA Busy ==
    ASSUME Inv, NEW w \in Workers, workers[w].pc # "idle"
    PROVE  /\ workers[w] \in Worker
           /\ workers[w].delivery \in Deliveries
           /\ JobOf(w) \in Jobs
           /\ Accepted(JobOf(w))
           /\ jobs[JobOf(w)] \in Job
           /\ PhotoOf(w) \in Photos
           /\ jobs[JobOf(w)].sender \in Users
           /\ workers[w].pc \notin {"lookup", "finish"} => KeyOf(w) \in Keys
<1>1. WorkerInv(w)  BY DEF Inv
<1>2. workers[w] \in Worker  BY DEF Inv, TypeOK
<1>3. workers[w].delivery \in Deliveries /\ Accepted(JobOf(w))
  BY <1>1 DEF WorkerInv, JobOf
<1>4. JobOf(w) \in Jobs  BY <1>3 DEF Deliveries, JobOf
<1>5. jobs[JobOf(w)] \in Job  BY <1>4 DEF Inv, TypeOK
<1>6. PhotoOf(w) \in Photos /\ jobs[JobOf(w)].sender \in Users
  BY <1>3, <1>4 DEF Inv, JobsInv, PhotoOf, Accepted
<1>7. workers[w].pc \notin {"lookup", "finish"} => workers[w].biz \in Businesses
  BY <1>1 DEF WorkerInv
<1>8. QED
  BY <1>2, <1>3, <1>4, <1>5, <1>6, <1>7 DEF KeyOf, Keys

LEMMA NewRowType ==
    ASSUME Inv, NEW w \in Workers, workers[w].pc = "create", workers[w].pay # Unstorable
    PROVE  NewRow(w) \in Row
BY Busy DEF NewRow, Row, StatusOf, Worker

LEMMA RepairedType ==
    ASSUME Inv, NEW w \in Workers, workers[w].pc = "repair"
    PROVE  Repaired(w) \in Row
<1>1. workers[w].seen \in Row /\ workers[w].pay # Unstorable
  BY DEF Inv, WorkerInv
<1>2. workers[w] \in Worker /\ jobs[JobOf(w)].sender \in Users  BY Busy
<1>3. StatusOf(w) \in {"recorded", "needs_review"}  BY DEF StatusOf
<1> DEFINE seen == workers[w].seen
           pay == IF workers[w].pay # None THEN workers[w].pay ELSE seen.pay
           image == IF workers[w].image # None THEN workers[w].image ELSE seen.image
<1>4. pay \in Payments \cup {None}  BY <1>1, <1>2 DEF Worker, Row
<1>5. image \in Deliveries \cup {None}  BY <1>1, <1>2 DEF Worker, Row
<1>6. (seen.bank \/ workers[w].bank) \in BOOLEAN  OBVIOUS
<1>7. workers[w].dup \in BOOLEAN  BY <1>2 DEF Worker
<1>8. Repaired(w) = [seen EXCEPT !.user = jobs[JobOf(w)].sender, !.pay = pay,
                       !.bank = seen.bank \/ workers[w].bank, !.dup = workers[w].dup,
                       !.image = image, !.status = StatusOf(w)]
  BY <1>1 DEF Repaired, Row
<1> HIDE DEF pay, image
<1>9. QED
  BY <1>1, <1>2, <1>3, <1>4, <1>5, <1>6, <1>7, <1>8 DEF Row

\* What a slot that stores a row leaves in the table and in the history.
LEMMA StoreType ==
    ASSUME Inv, NEW w \in Workers, workers[w].pc \in {"create", "repair"}, NEW r \in Row, Store(w, r)
    PROVE  /\ rows' \in [Keys -> Row \cup {None}]
           /\ past' \in History
<1> DEFINE k == KeyOf(w)
<1>1. k \in Keys /\ TypeOK /\ past \in History /\ WorkerInv(w)  BY Busy DEF Inv, TypeOK
<1>2. <<k[1], r.pay>> \in Businesses \X (Payments \cup {None})  BY <1>1 DEF Keys, Row
<1>3. Overlapping(w, r.pay) \subseteq Keys
  <2>1. \A v \in Workers : workers[v].pc \in {"create", "find", "repair"} => KeyOf(v) \in Keys
    BY Busy
  <2>2. QED  BY <2>1 DEF Overlapping
<1>4. {k} \X Overlapping(w, r.pay) \subseteq Keys \X Keys  BY <1>1, <1>3
<1>5. Returning(w) \subseteq Deliveries  BY <1>1 DEF Returning, WorkerInv, Row
<1>6. past' = [past EXCEPT
                !.stored = @ \cup {k}, !.pays = @ \cup {<<k[1], r.pay>>},
                !.overlap = (@ \ ({k} \X Keys)) \cup ({k} \X Overlapping(w, r.pay)),
                !.returned = @ \cup Returning(w)]
  BY DEF Store
<1>7. rows' = [rows EXCEPT ![k] = r]  BY DEF Store
<1> HIDE DEF k
<1>8. past' \in History  BY <1>1, <1>2, <1>4, <1>5, <1>6 DEF History
<1>9. QED  BY <1>1, <1>7, <1>8 DEF TypeOK

\* What a slot is when all it has left is its outcome.
LEMMA EndedType ==
    ASSUME TypeOK, NEW w \in Workers, workers' = Ended(w)
    PROVE  /\ workers' \in [Workers -> Worker]
           /\ \A v \in Workers \ {w} : workers'[v] = workers[v]
           /\ workers'[w].pc = "finish" /\ workers'[w].delivery = workers[w].delivery
           /\ workers'[w].pay = None /\ ~workers'[w].dup /\ workers'[w].image = None
<1>1. workers[w].delivery \in Deliveries \cup {None}  BY DEF TypeOK, Worker
<1> DEFINE new == [IdleWorker EXCEPT !.pc = "finish", !.delivery = workers[w].delivery]
<1>2. new \in Worker  BY <1>1, IdleWorkerType DEF Worker, Stages
<1>3. /\ new.pc = "finish" /\ new.delivery = workers[w].delivery
      /\ new.pay = None /\ ~new.dup /\ new.image = None
  BY DEF IdleWorker
<1>4. workers' = [workers EXCEPT ![w] = new]  BY DEF Ended
<1> HIDE DEF new
<1>5. QED  BY <1>2, <1>3, <1>4 DEF TypeOK

\* A slot that only moves on keeps the type of its record.
LEMMA MovesOnType ==
    ASSUME TypeOK, NEW w \in Workers, NEW s \in Stages, workers' = [workers EXCEPT ![w].pc = s]
    PROVE  workers' \in [Workers -> Worker]
<1>1. workers[w] \in Worker  BY DEF TypeOK
<1>2. [workers[w] EXCEPT !.pc = s] \in Worker  BY <1>1 DEF Worker
<1>3. QED  BY <1>2 DEF TypeOK

LEMMA ThrowsType ==
    ASSUME Inv, NEW w \in Workers, workers[w].pc # "idle", Throws(w), spent' \in [Kinds -> Nat]
    PROVE  TypeOK'
BY Busy, SettledType, IdleAgainType DEF Inv, Throws, TypeOK

\* The steps of one slot keep the types.
LEMMA WorkerStepType ==
    ASSUME Inv, NEW w \in Workers,
           ProcessStep(w) \/ DatabaseError(w) \/ \E j \in Jobs : Take(w, j)
    PROVE  TypeOK'
<1> TypeOK  BY DEF Inv
<1>1. ASSUME NEW j \in Jobs, Take(w, j) PROVE TypeOK'
  <2>2. jobs[j] \in Job  BY DEF TypeOK
  <2>1. jobs' \in [Jobs -> Job]
    <3> DEFINE n == jobs[j].starts + 1
    <3>1. n \in Nat  BY <2>2 DEF Job
    <3>2. jobs' = [jobs EXCEPT ![j] = [jobs[j] EXCEPT !.state = "active", !.holder = w, !.starts = n]]
      BY <1>1 DEF Take
    <3> HIDE DEF n
    <3>3. [jobs[j] EXCEPT !.state = "active", !.holder = w, !.starts = n] \in Job
      BY <2>2, <3>1 DEF Job, JobStates
    <3>4. QED  BY <3>2, <3>3 DEF TypeOK
  <2>3. <<j, jobs[j].starts + 1>> \in Deliveries  BY <2>2 DEF Deliveries, Job
  <2>4. workers' \in [Workers -> Worker]
    BY <1>1, <2>2, <2>3, IdleWorkerType DEF Take, FirstStage, TypeOK, Worker, Stages, Job, IdleWorker
  <2>5. QED  BY <1>1, <2>1, <2>4 DEF Take, TypeOK
<1>2. CASE DatabaseError(w)
  <2>1. spent' \in [Kinds -> Nat]  BY <1>2, SpendType DEF DatabaseError, Kinds
  <2>2. QED  BY <1>2, <2>1, ThrowsType DEF DatabaseError
<1>3. CASE LookupLegacy(w)
  <2>1. workers[w].pc # "idle" BY <1>3 DEF LookupLegacy
  <2>2. member[jobs[JobOf(w)].sender] \in Businesses \cup {None}
    BY <2>1, Busy DEF TypeOK
  <2> DEFINE m == member[jobs[JobOf(w)].sender]
             pc == IF m = None THEN "finish" ELSE "read"
  <2>3. [workers[w] EXCEPT !.biz = m, !.pc = pc] \in Worker
    BY <2>1, <2>2, Busy DEF Worker, Stages
  <2>4. QED  BY <1>3, <2>3 DEF LookupLegacy, TypeOK
<1>4. CASE ReadFails(w)  BY <1>4 DEF ReadFails, TypeOK, Worker, Stages
<1>5. CASE ReadImage(w)
  <2>1. ImageKey(w) \in Deliveries  BY <1>5, Busy DEF ReadImage, ImageKey
  <2>2. PhotoOf(w) \in Photos  BY <1>5, Busy DEF ReadImage
  <2>3. ASSUME NEW r \in Readings(PhotoOf(w)) \cup {NothingRead}
        PROVE r.pay \in Payments \cup {None, Unstorable} /\ r.bank \in BOOLEAN
    <3>1. CASE r = NothingRead  BY <3>1 DEF NothingRead
    <3>2. CASE r \in [pay: Readable[PhotoOf(w)] \cup {None}, bank: BOOLEAN]
      BY <2>2, <3>2, ReadableAssumption
    <3>3. CASE r \in [pay: {Unstorable}, bank: BOOLEAN]  BY <3>3
    <3>4. QED  BY <3>1, <3>2, <3>3 DEF Readings
  <2>4. workers' \in [Workers -> Worker]
    <3>1. PICK r \in Readings(PhotoOf(w)) \cup {NothingRead} :
            workers' = [workers EXCEPT ![w] = [@ EXCEPT
                          !.image = ImageKey(w), !.pay = r.pay, !.bank = r.bank,
                          !.pc = AfterReading(r)]]
      BY <1>5 DEF ReadImage
    <3> DEFINE pc == AfterReading(r)
    <3>2. pc \in Stages  BY DEF Stages, AfterReading
    <3>3. workers[w] \in Worker  BY DEF TypeOK
    <3> HIDE DEF pc
    <3>4. [workers[w] EXCEPT !.image = ImageKey(w), !.pay = r.pay, !.bank = r.bank, !.pc = pc]
            \in Worker
      BY <2>1, <2>3, <3>2, <3>3 DEF Worker
    <3>5. QED  BY <3>1, <3>4 DEF TypeOK, pc
  <2>5. QED  BY <1>5, <2>1, <2>4 DEF ReadImage, TypeOK
<1>6. CASE CheckDuplicate(w)
  <2>1. SamePayment(workers[w].biz, workers[w].pay) \in BOOLEAN  BY DEF SamePayment
  <2> DEFINE dup == SamePayment(workers[w].biz, workers[w].pay)
  <2>2. workers' = [workers EXCEPT ![w] = [workers[w] EXCEPT !.dup = dup, !.pc = "create"]]
    BY <1>6 DEF CheckDuplicate
  <2>3. workers[w] \in Worker  BY DEF TypeOK
  <2> HIDE DEF dup
  <2>4. [workers[w] EXCEPT !.dup = dup, !.pc = "create"] \in Worker
    BY <2>1, <2>3 DEF Worker, Stages, dup
  <2>5. QED  BY <1>6, <2>2, <2>4 DEF CheckDuplicate, TypeOK
<1>7. CASE RejectTimestamp(w)
  BY <1>7, ThrowsType DEF RejectTimestamp, TypeOK
<1>8. CASE Create(w)
  <2>1. KeyOf(w) \in Keys /\ NewRow(w) \in Row
    BY <1>8, Busy, NewRowType DEF Create
  <2>2. /\ rows' \in [Keys -> Row \cup {None}]
        /\ past' \in History
    BY <1>8, <2>1, StoreType DEF Create
  <2>3. workers' \in [Workers -> Worker]  BY <1>8, EndedType DEF Create
  <2>4. QED  BY <1>8, <2>2, <2>3 DEF Create, TypeOK
<1>9. CASE CreateConflict(w)  BY <1>9 DEF CreateConflict, TypeOK, Worker, Stages
<1>10. CASE FindExisting(w)
  <2>1. KeyOf(w) \in Keys  BY <1>10, Busy DEF FindExisting
  <2>2. workers' \in [Workers -> Worker]
    <3> DEFINE row == rows[KeyOf(w)]
    <3>1. workers[w] \in Worker /\ row \in Row \cup {None}  BY <2>1 DEF TypeOK
    <3>2. [workers[w] EXCEPT !.pc = "repair", !.seen = row] \in Worker
      BY <3>1 DEF Worker, Stages
    <3>3. CASE row = None \/ row.editedByUploader
      BY <1>10, <3>3, EndedType DEF FindExisting
    <3>4. CASE ~(row = None \/ row.editedByUploader)
      <4>1. workers' = [workers EXCEPT ![w] = [workers[w] EXCEPT !.pc = "repair", !.seen = row]]
        BY <1>10, <3>4 DEF FindExisting
      <4>2. QED  BY <3>2, <4>1 DEF TypeOK
    <3>5. QED  BY <3>3, <3>4
  <2>3. QED  BY <1>10, <2>2 DEF FindExisting, TypeOK
<1>11. CASE SaveRepair(w)
  <2>1. KeyOf(w) \in Keys /\ Repaired(w) \in Row
    BY <1>11, Busy, RepairedType DEF SaveRepair
  <2>2. /\ rows' \in [Keys -> Row \cup {None}]
        /\ past' \in History
    BY <1>11, <2>1, StoreType DEF SaveRepair
  <2>3. workers' \in [Workers -> Worker]  BY <1>11, EndedType DEF SaveRepair
  <2>4. QED  BY <1>11, <2>2, <2>3 DEF SaveRepair, TypeOK
<1>12. CASE SaveConflict(w)  BY <1>12, ThrowsType DEF SaveConflict, TypeOK
<1>13. CASE Finish(w)
  BY <1>13, Busy, SettledType, IdleAgainType DEF Finish, TypeOK
<1>14. QED
  BY <1>1, <1>2, <1>3, <1>4, <1>5, <1>6, <1>7, <1>8, <1>9, <1>10, <1>11, <1>12, <1>13
  DEF ProcessStep

LEMMA StepType == Inv /\ [Next]_vars => TypeOK'
<1> SUFFICES ASSUME Inv, [Next]_vars PROVE TypeOK'
  OBVIOUS
<1> TypeOK  BY DEF Inv
<1>1. ASSUME NEW j \in Jobs, Enqueue(j) PROVE TypeOK'
  BY <1>1 DEF Enqueue, TypeOK, Job, JobStates
<1>2. ASSUME NEW j \in Jobs, NEW u \in Users, NEW p \in Photos, Receive(j, u, p) PROVE TypeOK'
  <2>1. jobs[j] \in Job  BY DEF TypeOK
  <2>2. member[u] \in Businesses  BY <1>2 DEF Receive
  <2>3. [jobs[j] EXCEPT !.state = "resolved", !.photo = p, !.sender = u, !.biz = member[u]] \in Job
    BY <2>1, <2>2 DEF Job, JobStates
  <2>4. QED  BY <1>2, <2>3 DEF Receive, TypeOK
<1>3. ASSUME NEW j \in Jobs, LoseLock(j) \/ RecoverStalled(j) PROVE TypeOK'
  <2>1. spent' \in [Kinds -> Nat]
    BY <1>3, SpendType DEF LoseLock, RecoverStalled, Kinds, TypeOK
  <2>2. QED  BY <1>3, <2>1, AfterStallType DEF LoseLock, RecoverStalled, TypeOK
<1>4. CASE Crash
  <2>1. spent' \in [Kinds -> Nat]  BY <1>4, SpendType DEF Crash, Kinds
  <2>2. jobs' \in [Jobs -> Job]
    BY <1>4, NoJobType DEF Crash, TypeOK, Job
  <2>3. workers' \in [Workers -> Worker] /\ deletion' \in Deletion
    BY <1>4, IdleWorkerType, NoDeletionType DEF Crash
  <2>4. QED  BY <1>4, <2>1, <2>2, <2>3 DEF Crash, TypeOK
<1>5. ASSUME NEW k \in Keys, DeleteCheck(k) PROVE TypeOK'
  <2>1. spent' \in [Kinds -> Nat]  BY <1>5, SpendType DEF DeleteCheck, Kinds
  <2>2. rows[k] \in Row  BY <1>5 DEF DeleteCheck, TypeOK
  <2>3. deletion' \in Deletion  BY <1>5, <2>2 DEF DeleteCheck, Deletion, Row
  <2>4. QED  BY <1>5, <2>1, <2>3 DEF DeleteCheck, TypeOK
<1>6. ASSUME NEW k \in Keys, NEW pay \in Payments, Edit(k, pay) PROVE TypeOK'
  <2>1. spent' \in [Kinds -> Nat]  BY <1>6, SpendType DEF Edit, Kinds
  <2>2. rows[k] \in Row  BY <1>6 DEF Edit, TypeOK
  <2>3. rows' \in [Keys -> Row \cup {None}]  BY <1>6, <2>2 DEF Edit, TypeOK, Row
  <2>4. <<k[1], pay>> \in Businesses \X (Payments \cup {None})  BY DEF Keys
  <2>5. past' \in History  BY <1>6, <2>4 DEF Edit, TypeOK, History
  <2>6. edited' \in [Keys -> Payments \cup {None}]  BY <1>6 DEF Edit, TypeOK
  <2>7. QED  BY <1>6, <2>1, <2>3, <2>5, <2>6 DEF Edit, TypeOK
<1>7. CASE DeleteRow
  <2>1. rows' \in [Keys -> Row \cup {None}] /\ edited' \in [Keys -> Payments \cup {None}]
    BY <1>7 DEF DeleteRow, TypeOK
  <2>2. deletion' \in Deletion
    BY <1>7, NoDeletionType DEF DeleteRow, TypeOK, Deletion
  <2>3. QED  BY <1>7, <2>1, <2>2 DEF DeleteRow, TypeOK
<1>8. CASE DeleteImage  BY <1>8, NoDeletionType DEF DeleteImage, TypeOK
<1>9. CASE SomeMoves
  <2>1. ASSUME NEW u \in Users, Depart(u) PROVE TypeOK'
    BY <2>1, SpendType DEF Depart, Kinds, TypeOK
  <2>2. ASSUME NEW u \in Users, NEW b \in Businesses, Join(u, b) PROVE TypeOK'
    BY <2>2, SpendType DEF Join, Kinds, TypeOK, History
  <2>3. ASSUME NEW b \in Businesses, Suspend(b) PROVE TypeOK'
    BY <2>3, SpendType DEF Suspend, Kinds, TypeOK
  <2>4. QED  BY <1>9, <2>1, <2>2, <2>3 DEF SomeMoves
<1>10. CASE UNCHANGED vars  BY <1>10 DEF vars, TypeOK
<1>11. QED
  BY <1>1, <1>2, <1>3, <1>4, <1>5, <1>6, <1>7, <1>8, <1>9, <1>10, WorkerStepType
  DEF Next, SomeAccepts, SomeWorks, SomeStalls, SomeEdits

-----------------------------------------------------------------------------
(* What every step leaves in place: the identity of an accepted job, and the *)
(* history.                                                                  *)

JobFrame ==
    \A j \in Jobs : Accepted(j) =>
        /\ Accepted(j)'
        /\ jobs'[j].photo = jobs[j].photo
        /\ jobs'[j].sender = jobs[j].sender
        /\ jobs'[j].biz = jobs[j].biz

PastGrows ==
    /\ past.memberships \subseteq past'.memberships
    /\ past.stored \subseteq past'.stored
    /\ past.pays \subseteq past'.pays
    /\ past.returned \subseteq past'.returned

LEMMA SettledFrame ==
    ASSUME Inv, NEW w \in Workers, workers[w].pc # "idle", jobs' \in {Completed(w), Failed(w)}
    PROVE  JobFrame
<1>1. JobOf(w) \in Jobs /\ jobs \in [Jobs -> Job]  BY Busy DEF Inv, TypeOK
<1>2. CASE jobs' = Completed(w)
  BY <1>1, <1>2 DEF JobFrame, Completed, Released, Accepted, Job
<1>3. CASE jobs' = Failed(w)
  BY <1>1, <1>3 DEF JobFrame, Failed, AfterFailure, Released, Accepted, Job
<1>4. QED  BY <1>2, <1>3

LEMMA StepJobFrame == ASSUME Inv, [Next]_vars PROVE JobFrame
<1>1. jobs \in [Jobs -> Job]  BY DEF Inv, TypeOK
<1>2. CASE UNCHANGED jobs  BY <1>2 DEF JobFrame, Accepted
<1>3. ASSUME NEW j \in Jobs, NEW u \in Users, NEW p \in Photos, Receive(j, u, p) PROVE JobFrame
  BY <1>1, <1>3 DEF Receive, JobFrame, Accepted
<1>4. ASSUME NEW j \in Jobs, Enqueue(j) PROVE JobFrame
  BY <1>1, <1>4 DEF Enqueue, JobFrame, Accepted
<1>5. ASSUME NEW w \in Workers, NEW j \in Jobs, Take(w, j) PROVE JobFrame
  BY <1>1, <1>5 DEF Take, JobFrame, Accepted, Job
<1>6. ASSUME NEW w \in Workers, DatabaseError(w) PROVE JobFrame
  BY <1>6, SettledFrame DEF DatabaseError, Throws
<1>7. ASSUME NEW w \in Workers, ProcessStep(w) PROVE JobFrame
  <2>1. CASE Finish(w)  BY <2>1, SettledFrame DEF Finish
  <2>2. CASE RejectTimestamp(w)  BY <2>2, SettledFrame DEF RejectTimestamp, Throws
  <2>3. CASE SaveConflict(w)  BY <2>3, SettledFrame DEF SaveConflict, Throws
  <2>4. CASE UNCHANGED jobs  BY <2>4, <1>2
  <2>5. QED
    BY <1>7, <2>1, <2>2, <2>3, <2>4
    DEF ProcessStep, LookupLegacy, ReadFails, ReadImage, CheckDuplicate, Create,
        CreateConflict, FindExisting, SaveRepair
<1>8. ASSUME NEW j \in Jobs, LoseLock(j) \/ RecoverStalled(j) PROVE JobFrame
  <2> DEFINE new == AfterStall(jobs[j])
  <2>1. jobs' = [jobs EXCEPT ![j] = new]  BY <1>8 DEF LoseLock, RecoverStalled
  <2>2. /\ new.state \in {"waiting", "failed"}
        /\ new.photo = jobs[j].photo /\ new.sender = jobs[j].sender /\ new.biz = jobs[j].biz
    BY <1>1 DEF AfterStall, Released, Job
  <2>3. QED  BY <1>1, <2>1, <2>2 DEF JobFrame, Accepted
<1>9. CASE Crash
  BY <1>1, <1>9 DEF Crash, JobFrame, Accepted, Job
<1>10. QED
  BY <1>2, <1>3, <1>4, <1>5, <1>6, <1>7, <1>8, <1>9
  DEF Next, SomeAccepts, SomeWorks, SomeStalls, SomeEdits, SomeMoves, vars,
      DeleteCheck, Edit, DeleteRow, DeleteImage, Depart, Join, Suspend

LEMMA StoreGrows ==
    ASSUME TypeOK, NEW w, NEW r, Store(w, r)
    PROVE  /\ PastGrows
           /\ KeyOf(w) \in past'.stored
           /\ <<KeyOf(w)[1], r.pay>> \in past'.pays
           /\ past'.memberships = past.memberships
BY DEF Store, PastGrows, TypeOK, History

LEMMA StepPastGrows == ASSUME Inv, [Next]_vars PROVE PastGrows
<1> TypeOK  BY DEF Inv
<1>1. CASE UNCHANGED past  BY <1>1 DEF PastGrows
<1>2. ASSUME NEW w \in Workers, Create(w) \/ SaveRepair(w) PROVE PastGrows
  BY <1>2, StoreGrows DEF Create, SaveRepair
<1>3. ASSUME NEW k \in Keys, NEW pay \in Payments, Edit(k, pay) PROVE PastGrows
  BY <1>3 DEF Edit, PastGrows, TypeOK, History
<1>4. ASSUME NEW u \in Users, NEW b \in Businesses, Join(u, b) PROVE PastGrows
  BY <1>4 DEF Join, PastGrows, TypeOK, History
<1>5. ASSUME NEW w \in Workers, ProcessStep(w) PROVE PastGrows
  BY <1>1, <1>2, <1>5
  DEF ProcessStep, LookupLegacy, ReadFails, ReadImage, CheckDuplicate, RejectTimestamp,
      CreateConflict, FindExisting, SaveConflict, Finish, Throws
<1>6. QED
  BY <1>1, <1>3, <1>4, <1>5
  DEF Next, SomeAccepts, SomeWorks, SomeStalls, SomeEdits, SomeMoves, vars, Receive, Enqueue,
      Take, DatabaseError, Throws, LoseLock, RecoverStalled, Crash,
      DeleteCheck, DeleteRow, DeleteImage, Depart, Suspend

LEMMA StepMembers == ASSUME Inv, [Next]_vars PROVE MembersInv'
<1>1. PastGrows /\ TypeOK /\ MembersInv  BY StepPastGrows DEF Inv
<1>2. CASE UNCHANGED member  BY <1>1, <1>2 DEF PastGrows, MembersInv
<1>3. ASSUME NEW u \in Users, Depart(u) PROVE MembersInv'
  BY <1>1, <1>3 DEF Depart, MembersInv, TypeOK
<1>4. ASSUME NEW u \in Users, NEW b \in Businesses, Join(u, b) PROVE MembersInv'
  BY <1>1, <1>4 DEF Join, MembersInv, TypeOK
<1>5. QED
  BY <1>2, <1>3, <1>4
  DEF Next, SomeAccepts, SomeWorks, SomeStalls, SomeEdits, SomeMoves, vars, Receive, Enqueue,
      Take, DatabaseError, Throws, LoseLock, RecoverStalled, Crash,
      DeleteCheck, Edit, DeleteRow, DeleteImage, Suspend,
      ProcessStep, LookupLegacy, ReadFails, ReadImage, CheckDuplicate, RejectTimestamp,
      Create, CreateConflict, FindExisting, SaveRepair, SaveConflict, Finish

-----------------------------------------------------------------------------
(* The queue keeps its part of the invariant. *)

\* A job whose identity does not change keeps its part, unless it completes.
LEMMA JobKept ==
    ASSUME Inv, PastGrows, NEW j \in Jobs, jobs[j].state # "unused",
           jobs'[j].photo = jobs[j].photo, jobs'[j].sender = jobs[j].sender,
           jobs'[j].biz = jobs[j].biz,
           jobs'[j].state = "completed" /\ jobs[j].biz # None =>
             <<jobs[j].biz, jobs[j].photo>> \in past.stored
    PROVE  /\ jobs'[j].photo \in Photos /\ jobs'[j].sender \in Users
           /\ jobs'[j].biz # None => <<jobs'[j].sender, jobs'[j].biz>> \in past'.memberships
           /\ jobs'[j].state = "completed" /\ jobs'[j].biz # None
                => <<jobs'[j].biz, jobs'[j].photo>> \in past'.stored
BY DEF Inv, JobsInv, PastGrows

LEMMA SettledJobs ==
    ASSUME Inv, PastGrows, NEW w \in Workers, workers[w].pc # "idle",
           \/ jobs' = Failed(w)
           \/ jobs' = Completed(w) /\ workers[w].pc = "finish"
    PROVE  JobsInv'
<1>1. JobOf(w) \in Jobs /\ Accepted(JobOf(w)) /\ jobs \in [Jobs -> Job]
  BY Busy DEF Inv, TypeOK
<1> SUFFICES ASSUME NEW j \in Jobs
             PROVE  /\ jobs'[j].state # "unused" => jobs'[j].photo \in Photos /\ jobs'[j].sender \in Users
                    /\ jobs'[j].state # "unused" /\ jobs'[j].biz # None
                         => <<jobs'[j].sender, jobs'[j].biz>> \in past'.memberships
                    /\ jobs'[j].state = "completed" /\ jobs'[j].biz # None
                         => <<jobs'[j].biz, jobs'[j].photo>> \in past'.stored
  BY DEF JobsInv
<1>2. CASE jobs'[j] = jobs[j]  BY <1>2 DEF Inv, JobsInv, PastGrows
<1>3. CASE jobs'[j] # jobs[j]
  <2>1. j = JobOf(w)  BY <1>1, <1>3 DEF Failed, Completed
  <2>2. jobs[j].state # "unused"  BY <1>1, <2>1 DEF Accepted
  <2>3. jobs'[j].photo = jobs[j].photo /\ jobs'[j].sender = jobs[j].sender
          /\ jobs'[j].biz = jobs[j].biz
    BY <1>1, <2>1, SettledFrame DEF JobFrame
  <2>4. jobs'[j].state = "completed" /\ jobs[j].biz # None
          => <<jobs[j].biz, jobs[j].photo>> \in past.stored
    <3>1. CASE jobs' = Failed(w)
      BY <1>1, <1>3, <2>1, <3>1 DEF Failed, AfterFailure, Released, Job
    <3>2. CASE jobs' = Completed(w) /\ workers[w].pc = "finish"
      BY <2>1, <3>2 DEF Inv, WorkerInv, JobOf
    <3>3. QED  BY <3>1, <3>2
  <2>5. QED  BY <2>2, <2>3, <2>4, JobKept
<1>4. QED  BY <1>2, <1>3

LEMMA StepJobs == ASSUME Inv, [Next]_vars PROVE JobsInv'
<1>1. PastGrows /\ jobs \in [Jobs -> Job]  BY StepPastGrows DEF Inv, TypeOK
<1>2. CASE UNCHANGED jobs  BY <1>1, <1>2 DEF Inv, JobsInv, PastGrows
<1>3. ASSUME NEW j \in Jobs, NEW u \in Users, NEW p \in Photos, Receive(j, u, p) PROVE JobsInv'
  <2>1. member[u] \in Businesses /\ <<u, member[u]>> \in past.memberships
    BY <1>3, NoneAssumption DEF Receive, Inv, MembersInv
  <2>2. QED  BY <1>1, <1>3, <2>1 DEF Receive, Inv, JobsInv, PastGrows, Job
<1>4. ASSUME NEW j \in Jobs, Enqueue(j) PROVE JobsInv'
  BY <1>1, <1>4 DEF Enqueue, Inv, JobsInv, PastGrows
<1>5. ASSUME NEW w \in Workers, NEW j \in Jobs, Take(w, j) PROVE JobsInv'
  BY <1>1, <1>5 DEF Take, Inv, JobsInv, PastGrows, Job
<1>6. ASSUME NEW w \in Workers, DatabaseError(w) PROVE JobsInv'
  BY <1>1, <1>6, SettledJobs DEF DatabaseError, Throws
<1>7. ASSUME NEW w \in Workers, ProcessStep(w) PROVE JobsInv'
  <2>1. CASE Finish(w)  BY <1>1, <2>1, SettledJobs DEF Finish
  <2>2. CASE RejectTimestamp(w)  BY <1>1, <2>2, SettledJobs DEF RejectTimestamp, Throws
  <2>3. CASE SaveConflict(w)  BY <1>1, <2>3, SettledJobs DEF SaveConflict, Throws
  <2>4. CASE UNCHANGED jobs  BY <2>4, <1>2
  <2>5. QED
    BY <1>7, <2>1, <2>2, <2>3, <2>4
    DEF ProcessStep, LookupLegacy, ReadFails, ReadImage, CheckDuplicate, Create,
        CreateConflict, FindExisting, SaveRepair
<1>8. ASSUME NEW j \in Jobs, LoseLock(j) \/ RecoverStalled(j) PROVE JobsInv'
  <2> DEFINE new == AfterStall(jobs[j])
  <2>1. jobs' = [jobs EXCEPT ![j] = new] /\ jobs[j].state = "active"
    BY <1>8 DEF LoseLock, RecoverStalled
  <2>2. /\ new.state \in {"waiting", "failed"}
        /\ new.photo = jobs[j].photo /\ new.sender = jobs[j].sender /\ new.biz = jobs[j].biz
    BY <1>1 DEF AfterStall, Released, Job
  <2> HIDE DEF new
  <2>3. QED  BY <1>1, <2>1, <2>2 DEF Inv, JobsInv, PastGrows
<1>9. CASE Crash
  BY <1>1, <1>9 DEF Crash, Inv, JobsInv, PastGrows, NoJob, Job
<1>10. QED
  BY <1>2, <1>3, <1>4, <1>5, <1>6, <1>7, <1>8, <1>9
  DEF Next, SomeAccepts, SomeWorks, SomeStalls, SomeEdits, SomeMoves, vars,
      DeleteCheck, Edit, DeleteRow, DeleteImage, Depart, Join, Suspend

-----------------------------------------------------------------------------
(* The slots keep theirs. *)

\* A slot whose step is someone else's keeps its part.
LEMMA WorkerKept ==
    ASSUME Inv, JobFrame, PastGrows, NEW w \in Workers, workers'[w] = workers[w]
    PROVE  WorkerInv(w)'
<1>1. CASE workers[w].pc = "idle"  BY <1>1 DEF WorkerInv
<1>2. CASE workers[w].pc # "idle"
  <2> DEFINE j == workers[w].delivery[1]
  <2>1. j \in Jobs /\ Accepted(j) /\ WorkerInv(w)  BY <1>2, Busy DEF JobOf, Inv
  <2>2. /\ Accepted(j)'
        /\ jobs'[j].photo = jobs[j].photo
        /\ jobs'[j].sender = jobs[j].sender
        /\ jobs'[j].biz = jobs[j].biz
    BY <2>1 DEF JobFrame
  <2>3. QED  BY <1>2, <2>1, <2>2 DEF WorkerInv, PastGrows
<1>3. QED  BY <1>1, <1>2

LEMMA WorkerIdle ==
    ASSUME NEW w \in Workers, workers'[w] = IdleWorker
    PROVE  WorkerInv(w)'
BY DEF WorkerInv, IdleWorker

\* A slot's own step that leaves the queue alone.
LEMMA OwnStep ==
    ASSUME Inv, NEW w \in Workers, ProcessStep(w)
    PROVE  WorkerInv(w)'
<1>0. JobFrame /\ PastGrows
  <2>1. Next  BY DEF Next, SomeWorks
  <2>2. QED  BY <2>1, StepJobFrame, StepPastGrows
<1>1. /\ TypeOK /\ workers \in [Workers -> Worker] /\ workers[w] \in Worker
      /\ WorkerInv(w)
  BY DEF Inv, TypeOK
<1>2. workers[w].pc # "idle"
  BY DEF ProcessStep, LookupLegacy, ReadFails, ReadImage, CheckDuplicate, RejectTimestamp,
         Create, CreateConflict, FindExisting, SaveRepair, SaveConflict, Finish
<1>3. JobOf(w) \in Jobs /\ Accepted(JobOf(w)) /\ workers[w].delivery \in Deliveries
  BY <1>2, Busy
<1>5. CASE LookupLegacy(w)
  <2> DEFINE m == member[jobs[JobOf(w)].sender]
  <2>1. jobs[JobOf(w)].sender \in Users  BY <1>2, Busy
  <2>2. m # None => <<jobs[JobOf(w)].sender, m>> \in past.memberships /\ m \in Businesses
    BY <1>1, <2>1 DEF Inv, MembersInv, TypeOK
  <2> DEFINE pc == IF m = None THEN "finish" ELSE "read"
  <2>3. workers'[w] = [workers[w] EXCEPT !.biz = m, !.pc = pc]
    BY <1>1, <1>5 DEF LookupLegacy
  <2>4. pc = "finish" \/ (pc = "read" /\ m # None)  OBVIOUS
  <2>5. jobs' = jobs /\ past' = past /\ workers[w].pc = "lookup"  BY <1>5 DEF LookupLegacy
  <2> HIDE DEF m, pc
  <2>6. QED
    BY <1>1, <1>2, <1>3, <2>2, <2>3, <2>4, <2>5 DEF WorkerInv, JobOf, Accepted, Worker, m
<1>6. CASE ReadFails(w)
  BY <1>1, <1>2, <1>6 DEF ReadFails, WorkerInv, Accepted, Worker
<1>7. CASE ReadImage(w)
  BY <1>1, <1>2, <1>7 DEF ReadImage, AfterReading, WorkerInv, Accepted, Worker
<1>8. CASE CheckDuplicate(w)
  <2>1. workers[w].biz \in Businesses  BY <1>1, <1>8 DEF CheckDuplicate, WorkerInv
  <2>2. ASSUME SamePayment(workers[w].biz, workers[w].pay)
        PROVE  <<workers[w].biz, workers[w].pay>> \in past.pays
    <3>1. PICK p \in Photos : /\ rows[<<workers[w].biz, p>>] # None
                              /\ rows[<<workers[w].biz, p>>].pay = workers[w].pay
      BY <2>2 DEF SamePayment
    <3>2. <<workers[w].biz, p>> \in Keys  BY <2>1 DEF Keys
    <3>3. RowInv(<<workers[w].biz, p>>)  BY <3>2 DEF Inv
    <3>4. QED  BY <3>1, <3>3 DEF RowInv
  <2> DEFINE dup == SamePayment(workers[w].biz, workers[w].pay)
  <2>3. workers'[w] = [workers[w] EXCEPT !.dup = dup, !.pc = "create"]
    BY <1>1, <1>8 DEF CheckDuplicate
  <2> HIDE DEF dup
  <2>4. QED
    BY <1>1, <1>2, <1>8, <2>2, <2>3 DEF CheckDuplicate, WorkerInv, Accepted, Worker, dup
<1>9. CASE RejectTimestamp(w) \/ SaveConflict(w) \/ Finish(w)
  <2>1. workers'[w] = IdleWorker
    BY <1>1, <1>9 DEF RejectTimestamp, SaveConflict, Finish, Throws
  <2>2. QED  BY <2>1, WorkerIdle
<1>10. CASE Create(w)
  <2>1. KeyOf(w) \in past'.stored  BY <1>1, <1>10, StoreGrows DEF Create
  <2>2. /\ workers'[w].pc = "finish" /\ workers'[w].delivery = workers[w].delivery
        /\ ~workers'[w].dup /\ jobs' = jobs
    BY <1>1, <1>10, EndedType DEF Create
  <2>3. QED
    BY <1>0, <1>1, <1>2, <1>3, <1>10, <2>1, <2>2
    DEF Create, WorkerInv, Accepted, Worker, KeyOf, PhotoOf, JobOf, PastGrows
<1>11. CASE CreateConflict(w)
  <2>1. KeyOf(w) \in past.stored
    <3>1. KeyOf(w) \in Keys  BY <1>2, <1>11, Busy DEF CreateConflict
    <3>2. QED  BY <1>11, <3>1 DEF CreateConflict, Inv, RowInv
  <2>2. QED
    BY <1>1, <1>2, <1>11, <2>1
    DEF CreateConflict, WorkerInv, Accepted, Worker, KeyOf, PhotoOf, JobOf
<1>12. CASE FindExisting(w)
  <2> DEFINE row == rows[KeyOf(w)]
  <2>1. KeyOf(w) \in Keys  BY <1>2, <1>12, Busy DEF FindExisting
  <2>2. row # None => row \in Row  BY <1>1, <2>1 DEF TypeOK
  <2>3. CASE row = None \/ row.editedByUploader
    <3>1. /\ workers'[w].pc = "finish" /\ workers'[w].delivery = workers[w].delivery
          /\ ~workers'[w].dup /\ jobs' = jobs /\ past' = past /\ workers[w].pc = "find"
      BY <1>1, <1>12, <2>3, EndedType DEF FindExisting
    <3>2. QED  BY <1>1, <1>2, <1>3, <3>1 DEF WorkerInv, Accepted, JobOf
  <2>4. CASE ~(row = None \/ row.editedByUploader)
    <3>1. workers'[w] = [workers[w] EXCEPT !.pc = "repair", !.seen = row] /\ jobs' = jobs /\ past' = past
      BY <1>1, <1>12, <2>4 DEF FindExisting
    <3>2. QED
      BY <1>1, <1>2, <1>12, <2>2, <2>4, <3>1 DEF FindExisting, WorkerInv, Accepted, Worker
  <2>5. QED  BY <2>3, <2>4
<1>13. CASE SaveRepair(w)
  <2>1. KeyOf(w) \in past'.stored  BY <1>1, <1>13, StoreGrows DEF SaveRepair
  <2>2. /\ workers'[w].pc = "finish" /\ workers'[w].delivery = workers[w].delivery
        /\ ~workers'[w].dup /\ jobs' = jobs
    BY <1>1, <1>13, EndedType DEF SaveRepair
  <2>3. QED
    BY <1>0, <1>1, <1>2, <1>3, <1>13, <2>1, <2>2
    DEF SaveRepair, WorkerInv, Accepted, Worker, KeyOf, PhotoOf, JobOf, PastGrows
<1>14. QED
  BY <1>5, <1>6, <1>7, <1>8, <1>9, <1>10, <1>11, <1>12, <1>13 DEF ProcessStep

LEMMA TakeStep ==
    ASSUME Inv, NEW w \in Workers, NEW j \in Jobs, Take(w, j)
    PROVE  WorkerInv(w)'
<1>1. jobs[j] \in Job /\ TypeOK  BY DEF Inv, TypeOK
<1> DEFINE n == jobs[j].starts + 1
           pc == FirstStage(j)
<1>2. <<j, n>> \in Deliveries  BY <1>1 DEF Job, Deliveries
<1>3. workers'[w] = [IdleWorker EXCEPT !.pc = pc, !.delivery = <<j, n>>, !.biz = jobs[j].biz]
  BY <1>1 DEF Take, TypeOK
<1>4. /\ jobs'[j].state = "active" /\ jobs'[j].photo = jobs[j].photo
      /\ jobs'[j].sender = jobs[j].sender /\ jobs'[j].biz = jobs[j].biz
      /\ past' = past /\ jobs[j].state = "waiting"
  BY <1>1 DEF Take, TypeOK, Job
<1>5. jobs[j].biz # None =>
        jobs[j].biz \in Businesses /\ <<jobs[j].sender, jobs[j].biz>> \in past.memberships
  BY <1>1, <1>4 DEF Inv, JobsInv, Job
<1>6. (pc = "lookup" /\ jobs[j].biz = None) \/ (pc = "read" /\ jobs[j].biz # None)
  BY DEF FirstStage
<1> HIDE DEF pc, n
<1>7. QED
  BY <1>2, <1>3, <1>4, <1>5, <1>6 DEF WorkerInv, IdleWorker, Accepted

LEMMA StepWorkers ==
    ASSUME Inv, [Next]_vars, NEW w \in Workers
    PROVE  WorkerInv(w)'
<1>1. JobFrame /\ PastGrows /\ workers \in [Workers -> Worker]
  BY StepJobFrame, StepPastGrows DEF Inv, TypeOK
<1>2. CASE workers'[w] = workers[w]  BY <1>1, <1>2, WorkerKept
<1>3. CASE workers'[w] = IdleWorker  BY <1>3, WorkerIdle
<1>4. ASSUME NEW v \in Workers, ProcessStep(v) PROVE WorkerInv(w)'
  <2>1. CASE v = w  BY <1>4, <2>1, OwnStep
  <2>2. CASE v # w
    <3>1. workers'[w] = workers[w]
      BY <1>1, <1>4, <2>2
      DEF ProcessStep, LookupLegacy, ReadFails, ReadImage, CheckDuplicate, RejectTimestamp,
          Create, CreateConflict, FindExisting, SaveRepair, SaveConflict, Finish, Throws, Ended
    <3>2. QED  BY <3>1, <1>2
  <2>3. QED  BY <2>1, <2>2
<1>5. ASSUME NEW v \in Workers, NEW j \in Jobs, Take(v, j) PROVE WorkerInv(w)'
  <2>1. CASE v = w  BY <1>5, <2>1, TakeStep
  <2>2. CASE v # w  BY <1>1, <1>2, <1>5, <2>2 DEF Take
  <2>3. QED  BY <2>1, <2>2
<1>6. ASSUME NEW v \in Workers, DatabaseError(v) PROVE WorkerInv(w)'
  BY <1>1, <1>2, <1>3, <1>6 DEF DatabaseError, Throws
<1>7. CASE Crash  BY <1>3, <1>7 DEF Crash
<1>8. CASE UNCHANGED workers  BY <1>2, <1>8
<1>9. QED
  BY <1>4, <1>5, <1>6, <1>7, <1>8
  DEF Next, SomeAccepts, SomeWorks, SomeStalls, SomeEdits, SomeMoves, vars, Receive, Enqueue,
      LoseLock, RecoverStalled, DeleteCheck, Edit, DeleteRow, DeleteImage, Depart, Join, Suspend

-----------------------------------------------------------------------------
(* And so does the transactions table. *)

LEMMA RowKept ==
    ASSUME Inv, JobFrame, PastGrows, NEW k \in Keys, rows'[k] \in {rows[k], None}
    PROVE  RowInv(k)'
<1>1. CASE rows'[k] = None  BY <1>1 DEF RowInv
<1>2. CASE rows'[k] = rows[k] /\ rows[k] # None
  <2>1. RowInv(k)  BY DEF Inv
  <2>2. PICK j \in Jobs : /\ Accepted(j) /\ jobs[j].photo = k[2]
                          /\ jobs[j].sender = rows[k].user /\ jobs[j].biz \in {k[1], None}
    BY <1>2, <2>1 DEF RowInv
  <2>3. /\ Accepted(j)' /\ jobs'[j].photo = k[2]
        /\ jobs'[j].sender = rows'[k].user /\ jobs'[j].biz \in {k[1], None}
    BY <1>2, <2>2 DEF JobFrame
  <2>4. QED  BY <1>2, <2>1, <2>3 DEF RowInv, PastGrows
<1>3. QED  BY <1>1, <1>2

\* Row r is stored under k by the slot that holds job j: Create or SaveRepair.
LEMMA RowWritten ==
    ASSUME Inv, JobFrame, NEW w \in Workers, workers[w].pc \in {"create", "repair"},
           NEW k \in Keys, k = KeyOf(w), NEW j \in Jobs, j = JobOf(w),
           NEW r \in Row, Store(w, r), r.user = jobs[j].sender,
           r.status = "recorded" => r.pay # None /\ r.bank
    PROVE  RowInv(k)'
<1>1. Accepted(j) /\ TypeOK /\ WorkerInv(w)  BY Busy DEF Inv
<1>2. k = <<workers[w].biz, jobs[j].photo>>  BY DEF KeyOf, PhotoOf
<1>3. rows'[k] = r  BY <1>1 DEF Store, TypeOK
<1>4. k \in past'.stored /\ <<k[1], r.pay>> \in past'.pays /\ past'.memberships = past.memberships
  BY <1>1, StoreGrows
<1>5. <<jobs[j].sender, k[1]>> \in past.memberships /\ jobs[j].biz \in {k[1], None}
  BY <1>1, <1>2 DEF WorkerInv, JobOf
<1>6. /\ Accepted(j)' /\ jobs'[j].photo = k[2]
      /\ jobs'[j].sender = r.user /\ jobs'[j].biz \in {k[1], None}
  BY <1>1, <1>2, <1>5 DEF JobFrame
<1>7. QED  BY <1>3, <1>4, <1>5, <1>6 DEF RowInv

\* The status the repair writes is the one this delivery's reading deserves.
LEMMA RecordedWhenComplete ==
    ASSUME NEW w \in Workers, StatusOf(w) = "recorded"
    PROVE  workers[w].pay # None /\ workers[w].bank
BY DEF StatusOf, IsComplete

LEMMA StepRows ==
    ASSUME Inv, [Next]_vars, NEW k \in Keys
    PROVE  RowInv(k)'
<1>1. JobFrame /\ PastGrows /\ rows \in [Keys -> Row \cup {None}] /\ TypeOK
  BY StepJobFrame, StepPastGrows DEF Inv, TypeOK
<1>2. CASE rows'[k] \in {rows[k], None}  BY <1>1, <1>2, RowKept
<1>3. ASSUME NEW w \in Workers, Create(w) PROVE RowInv(k)'
  <2> DEFINE r == NewRow(w)
  <2>1. /\ KeyOf(w) \in Keys /\ JobOf(w) \in Jobs /\ r \in Row
        /\ Store(w, r) /\ workers[w].pc = "create"
    BY <1>3, Busy, NewRowType DEF Create
  <2>2. r.user = jobs[JobOf(w)].sender /\ (r.status = "recorded" => r.pay # None /\ r.bank)
    BY RecordedWhenComplete DEF NewRow
  <2> HIDE DEF r
  <2>3. CASE k = KeyOf(w)
    BY <1>1, <2>1, <2>2, <2>3, RowWritten
  <2>4. CASE k # KeyOf(w)
    BY <1>1, <1>2, <2>1, <2>4 DEF Store
  <2>5. QED  BY <2>3, <2>4
<1>4. ASSUME NEW w \in Workers, SaveRepair(w) PROVE RowInv(k)'
  <2> DEFINE r == Repaired(w)
  <2>1. /\ KeyOf(w) \in Keys /\ JobOf(w) \in Jobs /\ r \in Row
        /\ Store(w, r) /\ workers[w].pc = "repair"
    BY <1>4, Busy, RepairedType DEF SaveRepair
  <2>2. workers[w].seen \in Row  BY <2>1 DEF Inv, WorkerInv
  <2>3. r.user = jobs[JobOf(w)].sender /\ (r.status = "recorded" => r.pay # None /\ r.bank)
    BY <2>2, RecordedWhenComplete DEF Repaired, Row
  <2> HIDE DEF r
  <2>4. CASE k = KeyOf(w)
    BY <1>1, <2>1, <2>3, <2>4, RowWritten
  <2>5. CASE k # KeyOf(w)
    BY <1>1, <1>2, <2>1, <2>5 DEF Store
  <2>6. QED  BY <2>4, <2>5
<1>5. ASSUME NEW l \in Keys, NEW pay \in Payments, Edit(l, pay) PROVE RowInv(k)'
  <2>1. CASE l # k  BY <1>1, <1>2, <1>5, <2>1 DEF Edit
  <2>2. CASE l = k
    <3>1. rows[k] \in Row /\ RowInv(k) /\ rows[k] # None
      BY <1>1, <1>5, <2>2 DEF Edit, Inv
    <3>2. rows'[k] = [rows[k] EXCEPT !.pay = pay, !.bank = TRUE]
      BY <1>1, <1>5, <2>2 DEF Edit
    <3>3. /\ rows'[k].pay = pay /\ rows'[k].bank /\ rows'[k].user = rows[k].user
          /\ rows'[k].status = rows[k].status
      BY <3>1, <3>2 DEF Row
    <3>4. pay # None  BY NoneAssumption
    <3>5. <<k[1], pay>> \in past'.pays  BY <1>1, <1>5, <2>2 DEF Edit, TypeOK, History
    <3>6. jobs' = jobs  BY <1>5 DEF Edit
    <3>7. QED  BY <1>1, <3>1, <3>3, <3>4, <3>5, <3>6 DEF RowInv, PastGrows, Accepted
  <2>3. QED  BY <2>1, <2>2
<1>6. CASE DeleteRow
  <2>1. rows'[k] \in {rows[k], None}  BY <1>1, <1>6 DEF DeleteRow
  <2>2. QED  BY <1>2, <2>1
<1>7. CASE UNCHANGED rows  BY <1>2, <1>7
<1>8. QED
  BY <1>3, <1>4, <1>5, <1>6, <1>7
  DEF Next, SomeAccepts, SomeWorks, SomeStalls, SomeEdits, SomeMoves, vars, Receive, Enqueue,
      Take, DatabaseError, Throws, LoseLock, RecoverStalled, Crash,
      DeleteCheck, DeleteImage, Depart, Join, Suspend,
      ProcessStep, LookupLegacy, ReadFails, ReadImage, CheckDuplicate, RejectTimestamp,
      CreateConflict, FindExisting, SaveConflict, Finish

-----------------------------------------------------------------------------
(* The theorems. *)

LEMMA LegacyJobType ==
    ASSUME NEW p \in Photos, NEW u \in Users
    PROVE  /\ LegacyJob(p, u) \in Job
           /\ LegacyJob(p, u).biz = None /\ LegacyJob(p, u).state = "waiting"
           /\ LegacyJob(p, u).photo = p /\ LegacyJob(p, u).sender = u
BY DEF LegacyJob, NoJob, Job, JobStates

LEMMA InitJobs ==
    ASSUME Init, NEW j \in Jobs
    PROVE  /\ jobs[j] \in Job
           /\ jobs[j].biz = None /\ jobs[j].state \in {"unused", "waiting"}
           /\ jobs[j].state # "unused" => jobs[j].photo \in Photos /\ jobs[j].sender \in Users
<1>1. jobs[j] = NoJob \/ \E p \in Photos, u \in Users : jobs[j] = LegacyJob(p, u)
  <2>1. jobs \in [Jobs -> {NoJob} \cup {LegacyJob(p, u) : p \in Photos, u \in Users}]
    BY DEF Init
  <2>2. QED  BY <2>1
<1>2. CASE jobs[j] = NoJob  BY <1>2, NoJobType DEF NoJob
<1>3. CASE \E p \in Photos, u \in Users : jobs[j] = LegacyJob(p, u)
  BY <1>3, LegacyJobType
<1>4. QED  BY <1>1, <1>2, <1>3

LEMMA InitType == Init => TypeOK
<1> SUFFICES ASSUME Init PROVE TypeOK
  OBVIOUS
<1>1. jobs \in [Jobs -> Job]
  <2>1. \A j \in Jobs : jobs[j] \in Job  BY InitJobs
  <2>2. jobs = [j \in Jobs |-> jobs[j]]  BY DEF Init
  <2>3. QED  BY <2>1, <2>2
<1>2. workers \in [Workers -> Worker] /\ deletion \in Deletion
  BY IdleWorkerType, NoDeletionType DEF Init
<1>3. member \in [Users -> Businesses]  BY DEF Init
<1>4. past \in History
  <2>1. past = [memberships |-> {<<u, member[u]>> : u \in Users}, stored |-> {}, pays |-> {},
                overlap |-> {}, returned |-> {}]
    BY DEF Init
  <2>2. {<<u, member[u]>> : u \in Users} \in SUBSET (Users \X Businesses)  BY <1>3
  <2>3. QED  BY <2>1, <2>2 DEF History
<1>5. rows \in [Keys -> Row \cup {None}] /\ edited \in [Keys -> Payments \cup {None}]
      /\ spent \in [Kinds -> Nat]
  BY DEF Init
<1>6. suspended \subseteq Businesses /\ objects \subseteq Deliveries  BY DEF Init
<1>7. member \in [Users -> Businesses \cup {None}]  BY <1>3
<1>8. QED  BY <1>1, <1>2, <1>4, <1>5, <1>6, <1>7 DEF TypeOK

LEMMA InitInv == Init => Inv
<1> SUFFICES ASSUME Init PROVE Inv
  OBVIOUS
<1>1. TypeOK  BY InitType
<1>2. MembersInv  BY DEF Init, MembersInv
<1>3. JobsInv  BY InitJobs DEF JobsInv
<1>4. \A w \in Workers : WorkerInv(w)  BY DEF Init, WorkerInv, IdleWorker
<1>5. \A k \in Keys : RowInv(k)  BY DEF Init, RowInv
<1>6. QED  BY <1>1, <1>2, <1>3, <1>4, <1>5 DEF Inv

LEMMA StepInv == Inv /\ [Next]_vars => Inv'
<1> SUFFICES ASSUME Inv, [Next]_vars PROVE Inv'
  OBVIOUS
<1>1. TypeOK'  BY StepType
<1>2. MembersInv' /\ JobsInv'  BY StepMembers, StepJobs
<1>3. \A w \in Workers : WorkerInv(w)'  BY StepWorkers
<1>4. \A k \in Keys : RowInv(k)'  BY StepRows
<1>5. QED  BY <1>1, <1>2, <1>3, <1>4 DEF Inv

\* The inductive invariant of the pipeline: whatever the order of deliveries,
\* retries, stalls, crashes, edits, deletions and moves.
THEOREM Inductive == Spec => []Inv
BY InitInv, StepInv, PTL DEF Spec

\* Every variable keeps its type.
THEOREM TypeCorrect == Spec => []TypeOK
<1>1. Inv => TypeOK  BY DEF Inv
<1>2. QED  BY <1>1, Inductive, PTL

\* A Transaction belongs to a sender of its photo and to the Business that sender
\* was an active member of at acceptance (processImageJob, the comment on identity).
THEOREM Attribution == Spec => []AttributedAtAcceptance
<1>1. Inv => AttributedAtAcceptance
  BY DEF Inv, RowInv, AttributedAtAcceptance, Accepted
<1>2. QED  BY <1>1, Inductive, PTL

\* The queue is told "completed" only after the receipt's Transaction was stored.
THEOREM CompletionSound == Spec => []CompletedMeansStored
<1>1. Inv => CompletedMeansStored  BY DEF Inv, JobsInv, CompletedMeansStored
<1>2. QED  BY <1>1, Inductive, PTL

\* A recorded Transaction has all its fields, after any mix of repairs and edits.
THEOREM RecordedSound == Spec => []RecordedIsComplete
<1>1. Inv => RecordedIsComplete  BY DEF Inv, RowInv, RecordedIsComplete
<1>2. QED  BY <1>1, Inductive, PTL

\* A step that flags a row as duplicate finds its payment already stored there.
LEMMA StepFlags ==
    ASSUME Inv, [Next]_vars, NEW k \in Keys,
           rows'[k] # None, rows'[k].dup, rows[k] = None \/ ~rows[k].dup
    PROVE  <<k[1], rows'[k].pay>> \in past.pays
<1>1. rows \in [Keys -> Row \cup {None}]  BY DEF Inv, TypeOK
<1>2. rows'[k] # rows[k]
  OBVIOUS
<1>3. ASSUME NEW w \in Workers, Create(w) PROVE <<k[1], rows'[k].pay>> \in past.pays
  <2>1. KeyOf(w) = k /\ rows'[k] = NewRow(w)
    BY <1>1, <1>2, <1>3 DEF Create, Store
  <2>2. workers[w].dup /\ rows'[k].pay = workers[w].pay /\ WorkerInv(w)
    BY <2>1 DEF NewRow, Inv
  <2>3. QED  BY <1>3, <2>1, <2>2 DEF Create, WorkerInv, KeyOf
<1>4. ASSUME NEW w \in Workers, SaveRepair(w) PROVE <<k[1], rows'[k].pay>> \in past.pays
  <2>1. KeyOf(w) = k /\ rows'[k] = Repaired(w)
    BY <1>1, <1>2, <1>4 DEF SaveRepair, Store
  <2>2. WorkerInv(w) /\ workers[w].seen \in Row
    BY <1>4 DEF SaveRepair, WorkerInv, Inv
  <2>3. workers[w].dup  BY <2>1, <2>2 DEF Repaired, Row
  <2>4. workers[w].pay # None  BY <1>4, <2>2, <2>3 DEF SaveRepair, WorkerInv
  <2>5. rows'[k].pay = workers[w].pay  BY <2>1, <2>2, <2>4 DEF Repaired, Row
  <2>6. QED  BY <1>4, <2>1, <2>2, <2>3, <2>5 DEF SaveRepair, WorkerInv, KeyOf
<1>5. ASSUME NEW l \in Keys, NEW pay \in Payments, Edit(l, pay) PROVE FALSE
  <2>1. l = k  BY <1>1, <1>2, <1>5 DEF Edit
  <2>2. rows[k] \in Row /\ rows'[k] = [rows[k] EXCEPT !.pay = pay, !.bank = TRUE]
    BY <1>1, <1>5, <2>1 DEF Edit
  <2>3. QED  BY <1>5, <2>1, <2>2 DEF Edit, Row
<1>6. CASE DeleteRow  BY <1>1, <1>2, <1>6 DEF DeleteRow
<1>7. QED
  BY <1>2, <1>3, <1>4, <1>5, <1>6
  DEF Next, SomeAccepts, SomeWorks, SomeStalls, SomeEdits, SomeMoves, vars, Receive, Enqueue,
      Take, DatabaseError, Throws, LoseLock, RecoverStalled, Crash,
      DeleteCheck, DeleteImage, Depart, Join, Suspend,
      ProcessStep, LookupLegacy, ReadFails, ReadImage, CheckDuplicate, RejectTimestamp,
      CreateConflict, FindExisting, SaveConflict, Finish

\* A duplicate flag always rests on a payment already stored in the same Business:
\* findDuplicate never reaches into another tenant's Transactions.
THEOREM FlagsGrounded == Spec => DuplicateFlagGrounded
<1>1. Inv /\ [Next]_vars =>
        [\A k \in Keys :
           rows'[k] # None /\ rows'[k].dup /\ (rows[k] = None \/ ~rows[k].dup) =>
             <<k[1], rows'[k].pay>> \in past.pays]_vars
  BY StepFlags
<1>2. QED  BY <1>1, Inductive, PTL DEF Spec, DuplicateFlagGrounded

-----------------------------------------------------------------------------
(* No receipt is lost while errors stay below MaxAttempts and outages within *)
(* MaxStalls: what a job has used up, the budgets have paid for.             *)

\* The job's receipt has a Business and was never stored.
Owed(j) == jobs[j].biz # None /\ <<jobs[j].biz, jobs[j].photo>> \notin past.stored

\* An active job nobody holds will be counted as stalled: its outage is spent already.
Unheld(j) == IF jobs[j].state = "active" /\ jobs[j].holder = None THEN 1 ELSE 0

Paced(j) ==
    /\ jobs[j].state = "unused" => jobs[j] = NoJob
    /\ Owed(j) => /\ jobs[j].state # "failed"
                  /\ jobs[j].failures <= spent["errors"]
                  /\ jobs[j].stalls + Unheld(j) <= spent["outages"]

Budget == /\ spent["errors"] <= MaxErrors
          /\ spent["outages"] <= MaxOutages
          /\ \A w \in Workers : workers[w].pay # Unstorable
          /\ \A j \in Jobs : Paced(j)

SpentGrows == /\ spent'["errors"] \in Nat /\ spent["errors"] <= spent'["errors"]
              /\ spent'["outages"] \in Nat /\ spent["outages"] <= spent'["outages"]
              /\ spent'["errors"] <= MaxErrors
              /\ spent'["outages"] <= MaxOutages

LEMMA BudgetsAreNat == MaxErrors \in Nat /\ MaxOutages \in Nat /\ MaxAttempts \in Nat /\ MaxStalls \in Nat
BY BoundsAssumption, AttemptsAssumption

LEMMA SpendGrows ==
    ASSUME TypeOK, Budget, NEW what \in Kinds, Spend(what)
    PROVE  SpentGrows
<1>1. spent \in [Kinds -> Nat] /\ "errors" \in Kinds /\ "outages" \in Kinds  BY DEF TypeOK, Kinds
<1>2. spent' = [spent EXCEPT ![what] = spent[what] + 1] /\ spent[what] < Bound(what)
  BY DEF Spend
<1>3. CASE what = "errors"
  <2>1. spent[what] < MaxErrors  BY <1>2, <1>3 DEF Bound
  <2>2. QED  BY <1>1, <1>2, <1>3, <2>1, BudgetsAreNat DEF Budget, SpentGrows
<1>4. CASE what = "outages"
  <2>1. spent[what] < MaxOutages  BY <1>2, <1>4 DEF Bound
  <2>2. QED  BY <1>1, <1>2, <1>4, <2>1, BudgetsAreNat DEF Budget, SpentGrows
<1>5. CASE what \notin {"errors", "outages"}
  BY <1>1, <1>2, <1>5, BudgetsAreNat DEF Budget, SpentGrows
<1>6. QED  BY <1>3, <1>4, <1>5

LEMMA StepSpends == ASSUME TypeOK, Budget, [Next]_vars PROVE SpentGrows
<1>1. CASE UNCHANGED spent  BY <1>1 DEF TypeOK, Kinds, Budget, SpentGrows
<1>2. CASE \E what \in Kinds : Spend(what)  BY <1>2, SpendGrows
<1>3. UNCHANGED spent \/ \E what \in Kinds : Spend(what)
  <2>1. {"errors", "outages", "moves", "edits", "deletes"} \subseteq Kinds  BY DEF Kinds
  <2>2. ASSUME NEW w \in Workers, ProcessStep(w) PROVE UNCHANGED spent
    BY <2>2
    DEF ProcessStep, LookupLegacy, ReadFails, ReadImage, CheckDuplicate, RejectTimestamp,
        Create, CreateConflict, FindExisting, SaveRepair, SaveConflict, Finish
  <2>3. QED
    BY <2>1, <2>2
    DEF Next, SomeAccepts, SomeWorks, SomeStalls, SomeEdits, SomeMoves, vars, Receive, Enqueue,
        Take, DatabaseError, LoseLock, RecoverStalled, Crash,
        DeleteCheck, Edit, DeleteRow, DeleteImage, Depart, Join, Suspend
<1>4. QED  BY <1>1, <1>2, <1>3

\* A job that has used up no more than before keeps its part.
LEMMA PacedKept ==
    ASSUME Inv, Budget, SpentGrows, PastGrows, NEW j \in Jobs,
           jobs'[j].biz = jobs[j].biz, jobs'[j].photo = jobs[j].photo,
           jobs'[j].failures = jobs[j].failures, jobs'[j].stalls = jobs[j].stalls,
           jobs'[j].state \notin {"unused", "failed"},
           jobs'[j].state = "active" => jobs'[j].holder # None
    PROVE  Paced(j)'
<1>1. jobs[j] \in Job /\ spent \in [Kinds -> Nat] /\ "errors" \in Kinds /\ "outages" \in Kinds
  BY DEF Inv, TypeOK, Kinds
<1>2. Paced(j)  BY DEF Budget
<1>3. Unheld(j)' = 0 /\ Unheld(j) \in Nat  BY DEF Unheld
<1>4. Owed(j)' => Owed(j)  BY DEF Owed, PastGrows
<1>5. jobs[j].stalls \in Nat /\ jobs[j].failures \in Nat  BY <1>1 DEF Job
<1>6. QED  BY <1>1, <1>2, <1>3, <1>4, <1>5 DEF Paced, SpentGrows

LEMMA PacedSame ==
    ASSUME Inv, Budget, SpentGrows, PastGrows, NEW j \in Jobs, jobs'[j] = jobs[j]
    PROVE  Paced(j)'
<1>1. jobs[j] \in Job /\ spent \in [Kinds -> Nat] /\ "errors" \in Kinds /\ "outages" \in Kinds
  BY DEF Inv, TypeOK, Kinds
<1>2. Paced(j)  BY DEF Budget
<1>3. Unheld(j)' = Unheld(j) /\ Unheld(j) \in Nat  BY DEF Unheld
<1>4. Owed(j)' => Owed(j)  BY DEF Owed, PastGrows
<1>5. jobs[j].stalls \in Nat /\ jobs[j].failures \in Nat  BY <1>1 DEF Job
<1>6. QED  BY <1>1, <1>2, <1>3, <1>4, <1>5 DEF Paced, SpentGrows

\* A stall the outages have paid for puts the job back on the queue.
LEMMA StallPaced ==
    ASSUME Inv, Budget, MaxOutages <= MaxStalls, SpentGrows, PastGrows, NEW j \in Jobs,
           jobs[j].state = "active", jobs'[j] = AfterStall(jobs[j]),
           Owed(j) => jobs[j].stalls + 1 <= spent'["outages"]
    PROVE  Paced(j)'
<1>1. jobs[j] \in Job /\ spent \in [Kinds -> Nat] /\ "errors" \in Kinds /\ "outages" \in Kinds
  BY DEF Inv, TypeOK, Kinds
<1>2. Paced(j)  BY DEF Budget
<1>3. jobs[j].stalls \in Nat /\ jobs[j].failures \in Nat  BY <1>1 DEF Job
<1>4. /\ jobs'[j].biz = jobs[j].biz /\ jobs'[j].photo = jobs[j].photo
      /\ jobs'[j].failures = jobs[j].failures /\ jobs'[j].stalls = jobs[j].stalls + 1
      /\ jobs'[j].state = IF jobs[j].stalls < MaxStalls THEN "waiting" ELSE "failed"
  BY <1>1 DEF AfterStall, Released, Job
<1>5. Owed(j)' => Owed(j)  BY <1>4 DEF Owed, PastGrows
<1>6. Unheld(j)' = 0  BY <1>4 DEF Unheld
<1>7. Owed(j)' => jobs[j].stalls < MaxStalls
  BY <1>3, <1>5, BudgetsAreNat DEF SpentGrows
<1>8. QED  BY <1>1, <1>2, <1>3, <1>4, <1>5, <1>6, <1>7 DEF Paced, SpentGrows

\* So does a failed attempt an error has paid for.
LEMMA FailurePaced ==
    ASSUME Inv, Budget, MaxErrors < MaxAttempts, SpentGrows, PastGrows, NEW w \in Workers,
           workers[w].pc # "idle", jobs' = Failed(w), NEW j \in Jobs,
           j = JobOf(w) /\ Owed(j) => spent'["errors"] = spent["errors"] + 1
    PROVE  Paced(j)'
<1>1. jobs[j] \in Job /\ jobs \in [Jobs -> Job] /\ spent \in [Kinds -> Nat]
      /\ "errors" \in Kinds /\ "outages" \in Kinds
  BY DEF Inv, TypeOK, Kinds
<1>2. Paced(j)  BY DEF Budget
<1>3. jobs[j].stalls \in Nat /\ jobs[j].failures \in Nat  BY <1>1 DEF Job
<1>4. CASE jobs'[j] = jobs[j]  BY <1>4, PacedSame
<1>5. CASE jobs'[j] # jobs[j]
  <2>1. j = JobOf(w) /\ jobs'[j] = AfterFailure(jobs[j])
    BY <1>1, <1>5, Busy DEF Failed
  <2>2. /\ jobs'[j].biz = jobs[j].biz /\ jobs'[j].photo = jobs[j].photo
        /\ jobs'[j].failures = jobs[j].failures + 1 /\ jobs'[j].stalls = jobs[j].stalls
        /\ jobs'[j].state = IF jobs[j].failures + 1 < MaxAttempts THEN "waiting" ELSE "failed"
    BY <1>1, <2>1 DEF AfterFailure, Released, Job
  <2>3. Owed(j)' => Owed(j)  BY <2>2 DEF Owed, PastGrows
  <2>4. Unheld(j)' = 0 /\ Unheld(j) \in Nat  BY <2>2 DEF Unheld
  <2>5. Owed(j)' => jobs[j].failures + 1 <= spent'["errors"]
    BY <1>1, <1>2, <1>3, <2>1, <2>3 DEF Paced
  <2>6. Owed(j)' => jobs[j].failures + 1 < MaxAttempts
    BY <1>3, <2>5, BudgetsAreNat DEF SpentGrows
  <2>7. QED  BY <1>1, <1>2, <1>3, <2>2, <2>3, <2>4, <2>5, <2>6 DEF Paced, SpentGrows
<1>6. QED  BY <1>4, <1>5

LEMMA StepPaced ==
    ASSUME Inv, Budget, MaxErrors < MaxAttempts, MaxOutages <= MaxStalls, [Next]_vars,
           NEW j \in Jobs
    PROVE  Paced(j)'
<1>1. /\ TypeOK /\ SpentGrows /\ PastGrows /\ Paced(j)
      /\ jobs \in [Jobs -> Job] /\ jobs[j] \in Job
      /\ spent \in [Kinds -> Nat] /\ "errors" \in Kinds /\ "outages" \in Kinds
      /\ JobsInv
  BY StepSpends, StepPastGrows DEF Inv, TypeOK, Budget, Kinds
<1>2. CASE jobs'[j] = jobs[j]  BY <1>1, <1>2, PacedSame
<1>3. ASSUME NEW i \in Jobs, NEW u \in Users, NEW p \in Photos, Receive(i, u, p) PROVE Paced(j)'
  <2>1. CASE i # j  BY <1>1, <1>2, <1>3, <2>1 DEF Receive
  <2>2. CASE i = j
    <3>1. jobs[j] = NoJob  BY <1>1, <1>3, <2>2 DEF Receive, Paced
    <3>2. jobs'[j] = [NoJob EXCEPT !.state = "resolved", !.photo = p, !.sender = u, !.biz = member[u]]
      BY <1>1, <1>3, <2>2, <3>1 DEF Receive
    <3>3. jobs'[j].failures = 0 /\ jobs'[j].stalls = 0 /\ jobs'[j].state = "resolved"
      BY <3>2 DEF NoJob
    <3>4. spent'["errors"] \in Nat /\ spent'["outages"] \in Nat  BY <1>1 DEF SpentGrows
    <3>5. QED  BY <3>3, <3>4 DEF Paced, Unheld
  <2>3. QED  BY <2>1, <2>2
<1>4. ASSUME NEW i \in Jobs, Enqueue(i) PROVE Paced(j)'
  <2>1. CASE i # j  BY <1>1, <1>2, <1>4, <2>1 DEF Enqueue
  <2>2. CASE i = j
    <3>1. jobs'[j] = [jobs[j] EXCEPT !.state = "waiting"]  BY <1>1, <1>4, <2>2 DEF Enqueue
    <3>2. QED  BY <1>1, <3>1, PacedKept DEF Job
  <2>3. QED  BY <2>1, <2>2
<1>5. ASSUME NEW w \in Workers, NEW i \in Jobs, Take(w, i) PROVE Paced(j)'
  <2>1. CASE i # j  BY <1>1, <1>2, <1>5, <2>1 DEF Take
  <2>2. CASE i = j
    <3>1. jobs'[j] = [jobs[j] EXCEPT !.state = "active", !.holder = w, !.starts = jobs[j].starts + 1]
      BY <1>1, <1>5, <2>2 DEF Take
    <3>2. w # None  BY NoneAssumption
    <3>3. QED  BY <1>1, <3>1, <3>2, PacedKept DEF Job
  <2>3. QED  BY <2>1, <2>2
<1>6. ASSUME NEW w \in Workers, DatabaseError(w) PROVE Paced(j)'
  <2>1. spent'["errors"] = spent["errors"] + 1  BY <1>1, <1>6 DEF DatabaseError, Spend
  <2>2. workers[w].pc # "idle" /\ jobs' = Failed(w)  BY <1>6 DEF DatabaseError, Throws
  <2>3. QED  BY <1>1, <2>1, <2>2, FailurePaced
<1>7. ASSUME NEW w \in Workers, ProcessStep(w) PROVE Paced(j)'
  <2>1. CASE Finish(w)
    <3>1. jobs' = Completed(w) /\ workers[w].pc # "idle"  BY <2>1 DEF Finish
    <3>2. CASE jobs'[j] # jobs[j]
      <4>1. j = JobOf(w) /\ jobs'[j] = Released(jobs[j], "completed")
        BY <1>1, <3>1, <3>2, Busy DEF Completed
      <4>2. QED  BY <1>1, <4>1, PacedKept DEF Released, Job
    <3>3. QED  BY <1>2, <3>2
  <2>2. CASE RejectTimestamp(w)  BY <2>2 DEF RejectTimestamp, Budget
  <2>3. CASE SaveConflict(w)
    <3>1. workers[w].pc # "idle" /\ jobs' = Failed(w)  BY <2>3 DEF SaveConflict, Throws
    <3>2. WorkerInv(w) /\ workers[w].pc = "repair"  BY <2>3 DEF SaveConflict, Inv
    <3>3. j = JobOf(w) => ~Owed(j)  BY <3>2 DEF WorkerInv, JobOf, Owed
    <3>4. QED  BY <1>1, <3>1, <3>3, FailurePaced
  <2>4. CASE UNCHANGED jobs  BY <2>4, <1>2
  <2>5. QED
    BY <1>7, <2>1, <2>2, <2>3, <2>4
    DEF ProcessStep, LookupLegacy, ReadFails, ReadImage, CheckDuplicate, Create,
        CreateConflict, FindExisting, SaveRepair
<1>8. ASSUME NEW i \in Jobs, LoseLock(i) \/ RecoverStalled(i) PROVE Paced(j)'
  <2>1. CASE i # j  BY <1>1, <1>2, <1>8, <2>1 DEF LoseLock, RecoverStalled
  <2>2. CASE i = j
    <3>1. jobs'[j] = AfterStall(jobs[j]) /\ jobs[j].state = "active"
      BY <1>1, <1>8, <2>2 DEF LoseLock, RecoverStalled
    <3>2. jobs[j].stalls \in Nat  BY <1>1 DEF Job
    <3>3. Owed(j) => jobs[j].stalls + 1 <= spent'["outages"]
      <4>1. CASE LoseLock(j)
        <5>1. spent'["outages"] = spent["outages"] + 1 /\ Unheld(j) = 0
          BY <1>1, <4>1 DEF LoseLock, Spend, Unheld
        <5>2. QED  BY <1>1, <3>2, <5>1 DEF Paced
      <4>2. CASE RecoverStalled(j)
        <5>1. spent' = spent /\ Unheld(j) = 1  BY <4>2 DEF RecoverStalled, Unheld
        <5>2. QED  BY <1>1, <5>1 DEF Paced
      <4>3. QED  BY <1>8, <2>2, <4>1, <4>2
    <3>4. QED  BY <1>1, <3>1, <3>3, StallPaced
  <2>3. QED  BY <2>1, <2>2
<1>9. CASE Crash
  <2>1. CASE jobs[j].state = "resolved"
    <3>1. jobs'[j] = NoJob  BY <1>9, <2>1 DEF Crash
    <3>2. QED  BY <3>1 DEF Paced, Owed, NoJob
  <2>2. CASE jobs[j].state # "resolved"
    <3>1. jobs'[j] = [jobs[j] EXCEPT !.holder = None]  BY <1>9, <2>2 DEF Crash
    <3>2. /\ jobs'[j].biz = jobs[j].biz /\ jobs'[j].photo = jobs[j].photo
          /\ jobs'[j].failures = jobs[j].failures /\ jobs'[j].stalls = jobs[j].stalls
          /\ jobs'[j].state = jobs[j].state /\ Unheld(j)' \in {0, 1}
      BY <1>1, <3>1 DEF Job, Unheld
    <3>3. spent'["outages"] = spent["outages"] + 1 /\ spent'["errors"] = spent["errors"]
      BY <1>1, <1>9 DEF Crash, Spend
    <3>4. jobs[j].state = "unused" => jobs'[j] = NoJob
      BY <1>1, <3>1 DEF Paced, NoJob
    <3>5. Owed(j)' => Owed(j)  BY <1>1, <3>2 DEF Owed, PastGrows
    <3>6. jobs[j].stalls \in Nat /\ Unheld(j) \in {0, 1}  BY <1>1 DEF Job, Unheld
    <3>7. QED  BY <1>1, <3>2, <3>3, <3>4, <3>5, <3>6 DEF Paced
  <2>3. QED  BY <2>1, <2>2
<1>10. QED
  BY <1>2, <1>3, <1>4, <1>5, <1>6, <1>7, <1>8, <1>9
  DEF Next, SomeAccepts, SomeWorks, SomeStalls, SomeEdits, SomeMoves, vars,
      DeleteCheck, Edit, DeleteRow, DeleteImage, Depart, Join, Suspend

LEMMA StepStorable ==
    ASSUME Inv, Budget, ~BadTimestamps, [Next]_vars, NEW w \in Workers
    PROVE  workers'[w].pay # Unstorable
<1>1. workers \in [Workers -> Worker] /\ workers[w].pay # Unstorable  BY DEF Inv, TypeOK, Budget
<1>2. CASE workers'[w] = workers[w]  BY <1>1, <1>2
<1>3. CASE workers'[w] = IdleWorker  BY <1>3, UnstorableAssumption DEF IdleWorker
<1>4. ASSUME NEW v \in Workers, ReadImage(v) PROVE workers'[w].pay # Unstorable
  <2>1. CASE v = w
    <3>1. PICK r \in Readings(PhotoOf(w)) \cup {NothingRead} :
            workers' = [workers EXCEPT ![w] = [@ EXCEPT
                          !.image = ImageKey(w), !.pay = r.pay, !.bank = r.bank,
                          !.pc = AfterReading(r)]]
      BY <1>4, <2>1 DEF ReadImage
    <3>2. PhotoOf(w) \in Photos  BY <1>4, <2>1, Busy DEF ReadImage
    <3>3. r.pay \in Payments \cup {None}
      <4>1. CASE r = NothingRead  BY <4>1 DEF NothingRead
      <4>2. CASE r \in [pay: Readable[PhotoOf(w)] \cup {None}, bank: BOOLEAN]
        BY <3>2, <4>2, ReadableAssumption
      <4>3. QED  BY <3>1, <4>1, <4>2 DEF Readings
    <3>4. workers'[w].pay = r.pay  BY <1>1, <3>1 DEF Worker
    <3>5. QED  BY <3>3, <3>4, UnstorableAssumption
  <2>2. QED  BY <1>1, <1>4, <2>1 DEF ReadImage
<1>5. ASSUME NEW v \in Workers, ProcessStep(v) PROVE workers'[w].pay # Unstorable
  <2>1. CASE ReadImage(v)  BY <1>4, <2>1
  <2>2. CASE LookupLegacy(v)  BY <1>1, <2>2 DEF LookupLegacy, Worker
  <2>3. CASE CheckDuplicate(v)  BY <1>1, <2>3 DEF CheckDuplicate, Worker
  <2>4. CASE workers' = Ended(v)
    BY <1>1, <2>4, EndedType, UnstorableAssumption DEF Inv
  <2>5. CASE ReadFails(v) \/ CreateConflict(v)
    BY <1>1, <2>5 DEF ReadFails, CreateConflict, Worker
  <2>6. CASE RejectTimestamp(v) \/ SaveConflict(v) \/ Finish(v)
    BY <1>1, <1>3, <2>6 DEF RejectTimestamp, SaveConflict, Finish, Throws
  <2>7. CASE FindExisting(v)
    <3>1. CASE workers' = [workers EXCEPT ![v] = [@ EXCEPT !.pc = "repair", !.seen = rows[KeyOf(v)]]]
      BY <1>1, <3>1 DEF Worker
    <3>2. QED  BY <2>4, <2>7, <3>1 DEF FindExisting
  <2>8. QED
    BY <1>5, <2>1, <2>2, <2>3, <2>4, <2>5, <2>6, <2>7 DEF ProcessStep, Create, SaveRepair
<1>6. ASSUME NEW v \in Workers, NEW j \in Jobs, Take(v, j) PROVE workers'[w].pay # Unstorable
  BY <1>1, <1>6, UnstorableAssumption DEF Take, IdleWorker
<1>7. ASSUME NEW v \in Workers, DatabaseError(v) PROVE workers'[w].pay # Unstorable
  BY <1>1, <1>3, <1>7 DEF DatabaseError, Throws
<1>8. CASE Crash  BY <1>3, <1>8 DEF Crash
<1>9. CASE UNCHANGED workers  BY <1>2, <1>9
<1>10. QED
  BY <1>5, <1>6, <1>7, <1>8, <1>9
  DEF Next, SomeAccepts, SomeWorks, SomeStalls, SomeEdits, SomeMoves, vars, Receive, Enqueue,
      LoseLock, RecoverStalled, DeleteCheck, Edit, DeleteRow, DeleteImage, Depart, Join, Suspend

LEMMA InitBudget == Init => Budget
<1> SUFFICES ASSUME Init PROVE Budget
  OBVIOUS
<1>1. spent["errors"] = 0 /\ spent["outages"] = 0  BY DEF Init, Kinds
<1>2. ASSUME NEW j \in Jobs PROVE Paced(j)
  <2>1. jobs \in [Jobs -> {NoJob} \cup {LegacyJob(p, u) : p \in Photos, u \in Users}]
    BY DEF Init
  <2>2. jobs[j] = NoJob \/ \E p \in Photos, u \in Users : jobs[j] = LegacyJob(p, u)
    BY <2>1
  <2>3. jobs[j].state = "unused" => jobs[j] = NoJob  BY <2>2, LegacyJobType
  <2>4. jobs[j].biz = None  BY InitJobs
  <2>5. QED  BY <2>3, <2>4 DEF Paced, Owed
<1>3. \A w \in Workers : workers[w].pay # Unstorable
  BY UnstorableAssumption DEF Init, IdleWorker
<1>4. QED  BY <1>1, <1>2, <1>3, BudgetsAreNat DEF Budget

\* Every accepted Receipt produces a Transaction: with errors below the attempts
\* and outages within the stalls BullMQ allows, no job fails with nothing stored.
THEOREM ReceiptsSurvive ==
    ASSUME MaxErrors < MaxAttempts, MaxOutages <= MaxStalls, ~BadTimestamps
    PROVE  Spec => []NeverLost
<1>1. Inv /\ Budget /\ [Next]_vars => Budget'
  <2> SUFFICES ASSUME Inv, Budget, [Next]_vars PROVE Budget'
    OBVIOUS
  <2>1. SpentGrows  BY StepSpends DEF Inv
  <2>2. \A j \in Jobs : Paced(j)'  BY StepPaced
  <2>3. \A w \in Workers : workers'[w].pay # Unstorable  BY StepStorable
  <2>4. QED  BY <2>1, <2>2, <2>3 DEF Budget, SpentGrows
<1>2. Budget => NeverLost  BY DEF Budget, Paced, Owed, NeverLost
<1>3. QED  BY <1>1, <1>2, InitBudget, Inductive, PTL DEF Spec

-----------------------------------------------------------------------------
(* Of two recorded rows for one payment one is flagged, or the two receipts  *)
(* overlapped: whoever stores a payment between the check of a slot and its  *)
(* write leaves a note in the history.                                       *)

\* Slot w has its duplicate check behind it. When it flagged nothing, every row of that
\* payment was stored since, and noted (or edited since).
Checked(w) == workers[w].pc \in {"create", "find", "repair"} /\ IsComplete(w)
SawAll(w) ==
    /\ workers[w].pc \in {"lookup", "read"} => workers[w].pay = None
    /\ Checked(w) /\ ~workers[w].dup =>
         \A k \in Keys :
            /\ k[1] = workers[w].biz
            /\ rows[k] # None /\ rows[k].pay = workers[w].pay /\ edited[k] = None
            => <<k, KeyOf(w)>> \in past.overlap

\* Two receipts of one payment in one Business, recorded and unflagged as they were read.
Twins(k, l) ==
    /\ k # l /\ k[1] = l[1]
    /\ rows[k] # None /\ rows[l] # None
    /\ rows[k].pay = rows[l].pay /\ rows[k].pay # None
    /\ ~rows[k].dup /\ ~rows[l].dup
    /\ rows[k].status = "recorded" /\ rows[l].status = "recorded"
    /\ edited[k] = None /\ edited[l] = None
Noted(k, l) == <<k, l>> \in past.overlap \/ <<l, k>> \in past.overlap
TwinsNoted == \A k, l \in Keys : Twins(k, l) => Noted(k, l)

Watched == TwinsNoted /\ \A w \in Workers : SawAll(w)

\* What counts of a row that is still there unedited is as it was.
Same(k) ==
    rows'[k] # None /\ edited'[k] = None =>
        /\ rows[k] # None /\ edited[k] = None
        /\ rows'[k].pay = rows[k].pay
        /\ rows'[k].dup = rows[k].dup
        /\ rows'[k].status = rows[k].status
Aside == (\A k \in Keys : Same(k)) /\ past'.overlap = past.overlap

LEMMA TwinsKept ==
    ASSUME TwinsNoted, Aside
    PROVE  TwinsNoted'
<1> SUFFICES ASSUME NEW k \in Keys, NEW l \in Keys, Twins(k, l)' PROVE Noted(k, l)'
  BY DEF TwinsNoted
<1>1. Same(k) /\ Same(l)  BY DEF Aside
<1>2. Twins(k, l)  BY <1>1 DEF Twins, Same
<1>3. Noted(k, l)  BY <1>2 DEF TwinsNoted
<1>4. QED  BY <1>3 DEF Noted, Aside

\* The key a busy slot works for does not change under its feet.
LEMMA KeyKept ==
    ASSUME Inv, JobFrame, NEW w \in Workers, workers[w].pc # "idle",
           workers'[w].biz = workers[w].biz, workers'[w].delivery = workers[w].delivery
    PROVE  KeyOf(w)' = KeyOf(w)
<1>1. JobOf(w) \in Jobs /\ Accepted(JobOf(w))  BY Busy
<1>2. JobOf(w)' = JobOf(w)  BY DEF JobOf
<1>3. jobs'[JobOf(w)].photo = jobs[JobOf(w)].photo  BY <1>1 DEF JobFrame
<1>4. QED  BY <1>2, <1>3 DEF KeyOf, PhotoOf

\* A slot that is checked keeps what it saw while it moves on without storing.
LEMMA SawKept ==
    ASSUME Inv, JobFrame, NEW w \in Workers, SawAll(w), Aside,
           Checked(w), workers'[w].pay = workers[w].pay, workers'[w].dup = workers[w].dup,
           workers'[w].biz = workers[w].biz, workers'[w].delivery = workers[w].delivery,
           workers'[w].pc \notin {"lookup", "read"}
    PROVE  SawAll(w)'
<1> SUFFICES ASSUME ~workers[w].dup, NEW k \in Keys, k[1] = workers[w].biz,
                    rows'[k] # None, rows'[k].pay = workers[w].pay, edited'[k] = None
             PROVE  <<k, KeyOf(w)'>> \in past'.overlap
  BY DEF SawAll
<1>1. KeyOf(w)' = KeyOf(w)  BY KeyKept DEF Checked
<1>2. rows[k] # None /\ rows[k].pay = workers[w].pay /\ edited[k] = None
  BY DEF Aside, Same
<1>3. <<k, KeyOf(w)>> \in past.overlap  BY <1>2 DEF SawAll
<1>4. QED  BY <1>1, <1>3 DEF Aside

LEMMA SawIdle ==
    ASSUME NEW w \in Workers, SawAll(w), JobFrame, Inv, Aside, workers'[w] = workers[w]
    PROVE  SawAll(w)'
<1>1. CASE Checked(w)
  <2>1. workers'[w].pc \notin {"lookup", "read"}  BY <1>1 DEF Checked
  <2>2. QED  BY <1>1, <2>1, SawKept
<1>2. CASE ~Checked(w)
  <2>1. ~Checked(w)'  BY <1>2 DEF Checked, IsComplete
  <2>2. QED  BY <2>1 DEF SawAll
<1>3. QED  BY <1>1, <1>2

\* What a slot stores when its reading was complete.
Deserved(w, r) ==
    r.status = "recorded" => IsComplete(w) /\ r.pay = workers[w].pay /\ r.dup = workers[w].dup

\* The row just stored was checked; those of the same payment are noted.
LEMMA TwinsStored ==
    ASSUME Inv, TwinsNoted, NEW w \in Workers, SawAll(w), workers[w].pc \in {"create", "repair"},
           NEW r \in Row, Store(w, r), Deserved(w, r), UNCHANGED edited
    PROVE  TwinsNoted'
<1>0. PICK here \in Keys : here = KeyOf(w)  BY Busy
<1>1. rows \in [Keys -> Row \cup {None}] /\ past \in History /\ here[1] = workers[w].biz
  BY <1>0 DEF Inv, TypeOK, KeyOf
<1>2. rows' = [rows EXCEPT ![here] = r]  BY <1>0 DEF Store
<1>3. ASSUME NEW k \in Keys, NEW l, k # here, <<k, l>> \in past.overlap
      PROVE  <<k, l>> \in past'.overlap
  <2>1. past'.overlap = (past.overlap \ ({here} \X Keys)) \cup ({here} \X Overlapping(w, r.pay))
    BY <1>0, <1>1 DEF Store, History
  <2>2. QED  BY <1>3, <2>1
<1> SUFFICES ASSUME NEW k \in Keys, NEW l \in Keys, Twins(k, l)' PROVE Noted(k, l)'
  BY DEF TwinsNoted
<1>4. ASSUME NEW a \in Keys, Twins(here, a)' PROVE <<a, here>> \in past'.overlap
  <2>1. rows'[here] = r /\ a # here /\ rows'[a] = rows[a]  BY <1>1, <1>2, <1>4 DEF Twins
  <2>2. Checked(w) /\ ~workers[w].dup /\ r.pay = workers[w].pay
    BY <1>4, <2>1 DEF Twins, Deserved, Checked
  <2>3. /\ rows[a] # None /\ rows[a].pay = workers[w].pay /\ edited[a] = None
        /\ a[1] = workers[w].biz
    BY <1>1, <1>4, <2>1, <2>2 DEF Twins
  <2>4. <<a, here>> \in past.overlap  BY <1>0, <2>2, <2>3 DEF SawAll
  <2>5. QED  BY <1>3, <2>1, <2>4
<1>5. CASE k = here  BY <1>4, <1>5 DEF Noted
<1>6. CASE l = here
  <2>1. Twins(l, k)'  BY DEF Twins
  <2>2. QED  BY <1>4, <1>6, <2>1 DEF Noted
<1>7. CASE k # here /\ l # here
  <2>1. rows'[k] = rows[k] /\ rows'[l] = rows[l]  BY <1>1, <1>2, <1>7
  <2>2. Twins(k, l)  BY <2>1 DEF Twins
  <2>3. Noted(k, l)  BY <2>2 DEF TwinsNoted
  <2>4. QED  BY <1>3, <1>7, <2>3 DEF Noted
<1>8. QED  BY <1>5, <1>6, <1>7

\* The other slots take note of the row just stored.
LEMMA SawStored ==
    ASSUME Inv, JobFrame, NEW w \in Workers, NEW v \in Workers, v # w, SawAll(v),
           workers[w].pc \in {"create", "repair"}, NEW r \in Row, Store(w, r),
           UNCHANGED edited, workers'[v] = workers[v]
    PROVE  SawAll(v)'
<1> DEFINE here == KeyOf(w)
<1>1. here \in Keys /\ rows \in [Keys -> Row \cup {None}] /\ past \in History
  BY Busy DEF Inv, TypeOK
<1>2. rows' = [rows EXCEPT ![here] = r]  BY DEF Store
<1>3. past'.overlap = (past.overlap \ ({here} \X Keys)) \cup ({here} \X Overlapping(w, r.pay))
  BY <1>1 DEF Store, History
<1>4. CASE ~Checked(v)
  <2>1. ~Checked(v)'  BY <1>4 DEF Checked, IsComplete
  <2>2. QED  BY <2>1 DEF SawAll
<1>5. CASE Checked(v)
  <2>1. KeyOf(v)' = KeyOf(v) /\ KeyOf(v) \in Keys  BY <1>5, KeyKept, Busy DEF Checked
  <2> SUFFICES ASSUME ~workers[v].dup, NEW k \in Keys, k[1] = workers[v].biz,
                      rows'[k] # None, rows'[k].pay = workers[v].pay, edited[k] = None
               PROVE  <<k, KeyOf(v)>> \in past'.overlap
    BY <1>5, <2>1 DEF SawAll, Checked
  <2> HIDE DEF here
  <2>2. CASE k = here
    <3>1. r.pay = workers[v].pay  BY <1>1, <1>2, <2>2
    <3>2. KeyOf(v) \in Overlapping(w, r.pay)
      BY <1>5, <3>1 DEF Overlapping, Checked, IsComplete
    <3>3. QED  BY <1>3, <2>2, <3>2
  <2>3. CASE k # here
    <3>1. rows[k] # None /\ rows[k].pay = workers[v].pay  BY <1>1, <1>2, <2>3
    <3>2. <<k, KeyOf(v)>> \in past.overlap  BY <1>5, <3>1 DEF SawAll
    <3>3. QED  BY <1>3, <2>3, <3>2
  <2>4. QED  BY <2>2, <2>3
<1>6. QED  BY <1>4, <1>5

\* Both ways a slot stores a row, seen from all the slots.
LEMMA StoreWatched ==
    ASSUME Inv, JobFrame, Watched, NEW w \in Workers, workers[w].pc \in {"create", "repair"},
           NEW r \in Row, Store(w, r), Deserved(w, r), UNCHANGED edited, workers' = Ended(w)
    PROVE  Watched'
<1>1. TypeOK /\ TwinsNoted /\ SawAll(w)  BY DEF Inv, Watched
<1>2. TwinsNoted'  BY <1>1, TwinsStored
<1>3. SawAll(w)'
  <2>1. workers'[w].pc = "finish"  BY <1>1, EndedType
  <2>2. QED  BY <2>1 DEF SawAll, Checked
<1>4. ASSUME NEW v \in Workers, v # w PROVE SawAll(v)'
  <2>1. workers'[v] = workers[v]  BY <1>1, <1>4, EndedType
  <2>2. QED  BY <1>4, <2>1, SawStored DEF Watched
<1>5. QED  BY <1>2, <1>3, <1>4 DEF Watched

\* The step of a slot that stores nothing.
LEMMA OwnSaw ==
    ASSUME Inv, JobFrame, NEW w \in Workers, SawAll(w), Aside, ProcessStep(w),
           ~Create(w), ~SaveRepair(w)
    PROVE  SawAll(w)'
<1>1. TypeOK /\ workers \in [Workers -> Worker] /\ workers[w] \in Worker
  BY DEF Inv, TypeOK
<1>2. CASE workers'[w].pc \in {"idle", "check", "finish"}  BY <1>2 DEF SawAll, Checked
<1>3. CASE LookupLegacy(w)
  <2>1. workers'[w].pc \in {"read", "finish"} /\ workers'[w].pay = workers[w].pay
    BY <1>1, <1>3 DEF LookupLegacy, Worker
  <2>2. QED  BY <1>3, <2>1 DEF LookupLegacy, SawAll, Checked
<1>4. CASE ReadFails(w)
  <2>1. workers'[w] = [workers[w] EXCEPT !.pc = "create"] /\ workers[w].pay = None
    BY <1>1, <1>4 DEF ReadFails, SawAll
  <2>2. workers'[w].pc = "create" /\ workers'[w].pay = None  BY <1>1, <2>1 DEF Worker
  <2>3. QED  BY <2>2 DEF SawAll, Checked, IsComplete
<1>5. CASE ReadImage(w)
  <2>1. PICK r \in Readings(PhotoOf(w)) \cup {NothingRead} :
          workers' = [workers EXCEPT ![w] = [@ EXCEPT
                        !.image = ImageKey(w), !.pay = r.pay, !.bank = r.bank,
                        !.pc = AfterReading(r)]]
    BY <1>5 DEF ReadImage
  <2> DEFINE pc == AfterReading(r)
  <2>2. workers'[w] = [workers[w] EXCEPT !.image = ImageKey(w), !.pay = r.pay,
                                         !.bank = r.bank, !.pc = pc]
    BY <1>1, <2>1
  <2>3. pc = "check" \/ (pc = "create" /\ ~(r.pay # None /\ r.bank))  BY DEF AfterReading
  <2> HIDE DEF pc
  <2>4. workers'[w].pc = pc /\ workers'[w].pay = r.pay /\ workers'[w].bank = r.bank
    BY <1>1, <2>2 DEF Worker
  <2>5. QED  BY <2>3, <2>4 DEF SawAll, Checked, IsComplete
<1>6. CASE CheckDuplicate(w)
  <2> DEFINE dup == SamePayment(workers[w].biz, workers[w].pay)
  <2>1. workers'[w] = [workers[w] EXCEPT !.dup = dup, !.pc = "create"]
    BY <1>1, <1>6 DEF CheckDuplicate
  <2> HIDE DEF dup
  <2>2. /\ workers'[w].pc = "create" /\ workers'[w].dup = dup
        /\ workers'[w].biz = workers[w].biz /\ workers'[w].pay = workers[w].pay
    BY <1>1, <2>1 DEF Worker
  <2>3. ASSUME ~dup, NEW k \in Keys, k[1] = workers[w].biz, rows[k] # None,
               rows[k].pay = workers[w].pay
        PROVE  FALSE
    <3>1. k[2] \in Photos /\ k = <<workers[w].biz, k[2]>>  BY <2>3 DEF Keys
    <3>2. QED  BY <2>3, <3>1 DEF SamePayment, dup
  <2>4. rows' = rows  BY <1>6 DEF CheckDuplicate
  <2>5. QED  BY <2>2, <2>3, <2>4 DEF SawAll
<1>7. ASSUME NEW pc \in {"find", "repair"}, NEW seen,
             workers'[w] = [workers[w] EXCEPT !.pc = pc, !.seen = seen],
             workers[w].pc \in {"create", "find"}
      PROVE  SawAll(w)'
  <2>1. /\ workers'[w].pc = pc /\ workers'[w].pay = workers[w].pay
        /\ workers'[w].dup = workers[w].dup /\ workers'[w].bank = workers[w].bank
        /\ workers'[w].biz = workers[w].biz /\ workers'[w].delivery = workers[w].delivery
    BY <1>1, <1>7 DEF Worker
  <2>2. CASE Checked(w)  BY <2>1, <2>2, SawKept
  <2>3. CASE ~Checked(w)
    <3>1. ~Checked(w)'  BY <1>7, <2>1, <2>3 DEF Checked, IsComplete
    <3>2. QED  BY <2>1, <3>1 DEF SawAll
  <2>4. QED  BY <2>2, <2>3
<1>8. CASE CreateConflict(w)
  <2>1. workers'[w] = [workers[w] EXCEPT !.pc = "find", !.seen = workers[w].seen]
    BY <1>1, <1>8 DEF CreateConflict, Worker
  <2>2. QED  BY <1>7, <1>8, <2>1 DEF CreateConflict
<1>9. CASE FindExisting(w)
  <2>1. CASE workers' = Ended(w)  BY <1>1, <1>2, <2>1, EndedType
  <2>2. CASE workers' # Ended(w)
    <3>1. workers'[w] = [workers[w] EXCEPT !.pc = "repair", !.seen = rows[KeyOf(w)]]
      BY <1>1, <1>9, <2>2 DEF FindExisting
    <3>2. QED  BY <1>7, <1>9, <3>1 DEF FindExisting
  <2>3. QED  BY <2>1, <2>2
<1>10. CASE RejectTimestamp(w) \/ SaveConflict(w) \/ Finish(w)
  BY <1>1, <1>2, <1>10 DEF RejectTimestamp, SaveConflict, Finish, Throws, IdleWorker
<1>11. QED
  BY <1>3, <1>4, <1>5, <1>6, <1>8, <1>9, <1>10 DEF ProcessStep

LEMMA StepAside ==
    ASSUME Inv, [Next]_vars, \A w \in Workers : ~Create(w) /\ ~SaveRepair(w)
    PROVE  Aside
<1>1. TypeOK /\ rows \in [Keys -> Row \cup {None}] /\ edited \in [Keys -> Payments \cup {None}]
      /\ past \in History
  BY DEF Inv, TypeOK
<1>2. CASE UNCHANGED <<rows, edited, past>>  BY <1>2 DEF Aside, Same
<1>3. CASE DeleteRow
  <2>1. \A k \in Keys : rows'[k] = None \/ (rows'[k] = rows[k] /\ edited'[k] = edited[k])
    <3>1. CASE UNCHANGED <<rows, edited>>  BY <3>1
    <3>2. CASE /\ rows' = [rows EXCEPT ![deletion.key] = None]
               /\ edited' = [edited EXCEPT ![deletion.key] = None]
      BY <1>1, <3>2
    <3>3. QED  BY <1>3, <3>1, <3>2 DEF DeleteRow
  <2>2. past' = past  BY <1>3 DEF DeleteRow
  <2>3. QED  BY <2>1, <2>2 DEF Aside, Same
<1>4. ASSUME NEW l \in Keys, NEW pay \in Payments, Edit(l, pay) PROVE Aside
  <2>1. past'.overlap = past.overlap  BY <1>1, <1>4 DEF Edit, History
  <2>2. ASSUME NEW k \in Keys PROVE Same(k)
    <3>1. CASE k # l  BY <1>1, <1>4, <3>1 DEF Edit, Same
    <3>2. CASE k = l
      <4>1. rows[k] # None /\ rows[k] \in Row  BY <1>1, <1>4, <3>2 DEF Edit
      <4>2. rows'[k] = [rows[k] EXCEPT !.pay = pay, !.bank = TRUE]
        BY <1>1, <1>4, <3>2 DEF Edit
      <4>3. rows'[k].pay = pay /\ rows'[k].dup = rows[k].dup /\ rows'[k].status = rows[k].status
        BY <4>1, <4>2 DEF Row
      <4>4. edited'[k] = IF rows[k].pay # pay THEN pay ELSE edited[k]
        BY <1>1, <1>4, <3>2 DEF Edit
      <4>5. QED  BY <4>1, <4>3, <4>4, NoneAssumption DEF Same
    <3>3. QED  BY <3>1, <3>2
  <2>3. QED  BY <2>1, <2>2 DEF Aside
<1>5. ASSUME NEW u \in Users, NEW b \in Businesses, Join(u, b) PROVE Aside
  <2>1. past'.overlap = past.overlap /\ UNCHANGED <<rows, edited>>  BY <1>1, <1>5 DEF Join, History
  <2>2. QED  BY <2>1 DEF Aside, Same
<1>6. ASSUME NEW w \in Workers, ProcessStep(w) PROVE UNCHANGED <<rows, edited, past>>
  BY <1>6
  DEF ProcessStep, LookupLegacy, ReadFails, ReadImage, CheckDuplicate, RejectTimestamp,
      CreateConflict, FindExisting, SaveConflict, Finish, Throws
<1>7. QED
  BY <1>2, <1>3, <1>4, <1>5, <1>6
  DEF Next, SomeAccepts, SomeWorks, SomeStalls, SomeEdits, SomeMoves, vars, Receive, Enqueue,
      Take, DatabaseError, Throws, LoseLock, RecoverStalled, Crash,
      DeleteCheck, DeleteImage, Depart, Suspend

LEMMA StepSaw ==
    ASSUME Inv, Watched, [Next]_vars, Aside, \A v \in Workers : ~Create(v) /\ ~SaveRepair(v),
           NEW w \in Workers
    PROVE  SawAll(w)'
<1>1. JobFrame /\ SawAll(w) /\ workers \in [Workers -> Worker]
  BY StepJobFrame DEF Inv, TypeOK, Watched
<1>2. CASE workers'[w].pc = "idle"  BY <1>2 DEF SawAll, Checked
<1>3. CASE workers'[w] = workers[w]  BY <1>1, <1>3, SawIdle
<1>4. ASSUME NEW v \in Workers, ProcessStep(v) PROVE SawAll(w)'
  <2>1. CASE v = w  BY <1>1, <1>4, <2>1, OwnSaw
  <2>2. CASE v # w
    <3>1. workers'[w] = workers[w]
      BY <1>1, <1>4, <2>2
      DEF ProcessStep, LookupLegacy, ReadFails, ReadImage, CheckDuplicate, RejectTimestamp,
          Create, CreateConflict, FindExisting, SaveRepair, SaveConflict, Finish, Throws, Ended
    <3>2. QED  BY <1>3, <3>1
  <2>3. QED  BY <2>1, <2>2
<1>5. ASSUME NEW v \in Workers, NEW j \in Jobs, Take(v, j) PROVE SawAll(w)'
  <2>1. CASE v = w
    <3>1. workers'[w].pc \in {"lookup", "read"} /\ workers'[w].pay = None
      BY <1>1, <1>5, <2>1 DEF Take, FirstStage, IdleWorker
    <3>2. QED  BY <3>1 DEF SawAll, Checked
  <2>2. CASE v # w  BY <1>1, <1>3, <1>5, <2>2 DEF Take
  <2>3. QED  BY <2>1, <2>2
<1>6. ASSUME NEW v \in Workers, DatabaseError(v) PROVE SawAll(w)'
  BY <1>1, <1>2, <1>3, <1>6 DEF DatabaseError, Throws, IdleWorker
<1>7. CASE Crash  BY <1>2, <1>7 DEF Crash, IdleWorker
<1>8. CASE UNCHANGED workers  BY <1>3, <1>8
<1>9. QED
  BY <1>4, <1>5, <1>6, <1>7, <1>8
  DEF Next, SomeAccepts, SomeWorks, SomeStalls, SomeEdits, SomeMoves, vars, Receive, Enqueue,
      LoseLock, RecoverStalled, DeleteCheck, Edit, DeleteRow, DeleteImage, Depart, Join, Suspend

LEMMA StepWatched == ASSUME Inv, Watched, [Next]_vars PROVE Watched'
<1>1. JobFrame  BY StepJobFrame
<1>2. ASSUME NEW w \in Workers, Create(w) PROVE Watched'
  <2>1. NewRow(w) \in Row /\ workers[w].pc = "create"  BY <1>2, NewRowType DEF Create
  <2>2. Deserved(w, NewRow(w))
    BY DEF Deserved, NewRow, StatusOf
  <2>3. QED  BY <1>1, <1>2, <2>1, <2>2, StoreWatched DEF Create
<1>3. ASSUME NEW w \in Workers, SaveRepair(w) PROVE Watched'
  <2>1. Repaired(w) \in Row /\ workers[w].pc = "repair"  BY <1>3, RepairedType DEF SaveRepair
  <2>2. workers[w].seen \in Row  BY <2>1 DEF Inv, WorkerInv
  <2>3. Deserved(w, Repaired(w))
    BY <2>2 DEF Deserved, Repaired, StatusOf, IsComplete, Row
  <2>4. QED  BY <1>1, <1>3, <2>1, <2>3, StoreWatched DEF SaveRepair
<1>4. CASE \A w \in Workers : ~Create(w) /\ ~SaveRepair(w)
  <2>1. Aside  BY <1>4, StepAside
  <2>2. TwinsNoted'  BY <2>1, TwinsKept DEF Watched
  <2>3. \A w \in Workers : SawAll(w)'  BY <1>4, <2>1, StepSaw
  <2>4. QED  BY <2>2, <2>3 DEF Watched
<1>5. QED  BY <1>2, <1>3, <1>4

\* "Saved and flagged, never silently dropped", for two receipts of one payment that were
\* not in two slots at once: whatever is retried, sent again, stalled, edited or deleted
\* meanwhile, one of the two recorded Transactions is flagged. With any number of slots.
THEOREM DuplicatesCaught == Spec => []UnflaggedOverlapped
<1>1. Init => Watched
  <2> SUFFICES ASSUME Init PROVE Watched
    OBVIOUS
  <2>1. \A k \in Keys : rows[k] = None  BY DEF Init
  <2>2. TwinsNoted  BY <2>1 DEF TwinsNoted, Twins
  <2>3. \A w \in Workers : SawAll(w)  BY DEF Init, SawAll, Checked, IdleWorker
  <2>4. QED  BY <2>2, <2>3 DEF Watched
<1>2. Inv /\ Watched /\ [Next]_vars => Watched'  BY StepWatched
<1>3. Inv /\ Watched => UnflaggedOverlapped
  <2> SUFFICES ASSUME Inv, Watched, NEW b \in Businesses, NEW p \in Photos, NEW q \in Photos,
                      UnflaggedPair(b, p, q),
                      edited[<<b, p>>] = None, edited[<<b, q>>] = None,
                      <<<<b, p>>, <<b, q>>>> \notin past.overlap,
                      <<<<b, q>>, <<b, p>>>> \notin past.overlap,
                      rows[<<b, p>>].status # "needs_review",
                      rows[<<b, q>>].status # "needs_review"
               PROVE  FALSE
    BY DEF UnflaggedOverlapped
  <2>1. <<b, p>> \in Keys /\ <<b, q>> \in Keys  BY DEF Keys
  <2>2. rows[<<b, p>>] \in Row /\ rows[<<b, q>>] \in Row
    BY <2>1 DEF Inv, TypeOK, UnflaggedPair
  <2>3. Twins(<<b, p>>, <<b, q>>)  BY <2>2 DEF Twins, UnflaggedPair, Row
  <2>4. QED  BY <2>1, <2>3 DEF Watched, TwinsNoted, Noted
<1>4. QED  BY <1>1, <1>2, <1>3, Inductive, PTL DEF Spec

-----------------------------------------------------------------------------
(* The image of a row: each upload has a name of its own, which only one row *)
(* ever takes up, so what a deletion takes away no other row points at.      *)

\* A start of an accepted job that has taken place.
Issued(d) == d[1] \in Jobs /\ Accepted(d[1]) /\ d[2] \in Nat /\ d[2] <= jobs[d[1]].starts

\* Someone knows row id of receipt k with that image: the table, a repair that read
\* it, or the deletion in progress.
RowNames(k, id, image) == rows[k] # None /\ rows[k].id = id /\ rows[k].image = image
SeenNames(w, k, id, image) ==
    workers[w].pc = "repair" /\ KeyOf(w) = k /\ workers[w].seen.id = id /\ workers[w].seen.image = image
DeletionNames(k, id, image) ==
    deletion.pc # "idle" /\ deletion.key = k /\ deletion.id = id /\ deletion.image = image
Names(k, id, image) ==
    \/ RowNames(k, id, image)
    \/ \E w \in Workers : SeenNames(w, k, id, image)
    \/ DeletionNames(k, id, image)

\* The row is in the table and was never away.
Live(k, id) == rows[k] # None /\ rows[k].id = id /\ id \notin past.returned

\* A row has one receipt, and an image one row.
OneRow == \A k, l \in Keys : \A i, j, m, n :
            Names(k, i, m) /\ Names(l, j, n) => (i = j => k = l) /\ (m = n /\ m # None => i = j)
AllIssued == \A k \in Keys : \A i, m : Names(k, i, m) => Issued(i) /\ (m # None => Issued(m))
\* Until it stores, nobody knows what a slot is about to name after its delivery.
OwnName(w) ==
    workers[w].pc # "idle" =>
        /\ Issued(workers[w].delivery)
        /\ workers[w].pc # "finish" =>
             /\ workers[w].image \in {None, workers[w].delivery}
             /\ workers[w].image # None => workers[w].image \in objects
             /\ \A k \in Keys : \A i, m :
                  Names(k, i, m) => i # workers[w].delivery /\ (m # None => m # workers[w].delivery)
OwnDelivery == \A v, w \in Workers :
    v # w /\ workers[v].pc # "idle" /\ workers[w].pc # "idle" =>
        workers[v].delivery # workers[w].delivery
\* Whoever knows a row that was never away knows an image that is there.
Shown == \A k \in Keys : \A i, m : Names(k, i, m) /\ m # None /\ Live(k, i) => m \in objects
\* What a deletion has removed stays away, or is one that returned.
Away == deletion.pc # "idle" =>
            /\ deletion.key \in Keys
            /\ deletion.pc = "removed" => ~Live(deletion.key, deletion.id)

Pictured == OneRow /\ AllIssued /\ (\A w \in Workers : OwnName(w)) /\ OwnDelivery /\ Shown /\ Away

-----------------------------------------------------------------------------

LEMMA StepIssued ==
    ASSUME Inv, [Next]_vars, NEW d, Issued(d)
    PROVE  Issued(d)'
<1> DEFINE j == d[1]
<1>1. j \in Jobs /\ Accepted(j) /\ Accepted(j)' /\ jobs \in [Jobs -> Job] /\ jobs[j].starts \in Nat
  BY StepJobFrame DEF Issued, JobFrame, Inv, TypeOK, Job
<1> SUFFICES jobs'[j].starts \in {jobs[j].starts, jobs[j].starts + 1}
  BY <1>1 DEF Issued
<1> HIDE DEF j
<1>2. CASE UNCHANGED jobs  BY <1>2
<1>3. ASSUME NEW w \in Workers, workers[w].pc # "idle", jobs' \in {Completed(w), Failed(w)}
      PROVE  jobs'[j].starts = jobs[j].starts
  <2>1. jobs[JobOf(w)] \in Job /\ JobOf(w) \in Jobs  BY <1>3, Busy
  <2>2. /\ Released(jobs[JobOf(w)], "completed").starts = jobs[JobOf(w)].starts
        /\ AfterFailure(jobs[JobOf(w)]).starts = jobs[JobOf(w)].starts
    BY <2>1 DEF AfterFailure, Released, Job
  <2>3. CASE jobs' = Completed(w)  BY <1>1, <2>2, <2>3 DEF Completed
  <2>4. CASE jobs' = Failed(w)  BY <1>1, <2>2, <2>4 DEF Failed
  <2>5. QED  BY <1>3, <2>3, <2>4
<1>4. ASSUME NEW i \in Jobs, NEW u \in Users, NEW p \in Photos, Receive(i, u, p)
      PROVE  jobs'[j].starts = jobs[j].starts
  BY <1>1, <1>4 DEF Receive, Accepted
<1>5. ASSUME NEW i \in Jobs, Enqueue(i) PROVE jobs'[j].starts = jobs[j].starts
  BY <1>1, <1>5 DEF Enqueue, Accepted
<1>6. ASSUME NEW w \in Workers, NEW i \in Jobs, Take(w, i)
      PROVE  jobs'[j].starts \in {jobs[j].starts, jobs[j].starts + 1}
  <2>1. CASE i = j
    <3> DEFINE n == jobs[j].starts + 1
    <3>1. jobs'[j] = [jobs[j] EXCEPT !.state = "active", !.holder = w, !.starts = n]
      BY <1>1, <1>6, <2>1 DEF Take
    <3> HIDE DEF n
    <3>2. jobs'[j].starts = n  BY <1>1, <3>1 DEF Job
    <3>3. QED  BY <3>2 DEF n
  <2>2. QED  BY <1>1, <1>6, <2>1 DEF Take
<1>7. ASSUME NEW i \in Jobs, LoseLock(i) \/ RecoverStalled(i)
      PROVE  jobs'[j].starts = jobs[j].starts
  <2>1. jobs' = [jobs EXCEPT ![i] = AfterStall(jobs[i])]  BY <1>7 DEF LoseLock, RecoverStalled
  <2>2. AfterStall(jobs[j]).starts = jobs[j].starts  BY <1>1 DEF AfterStall, Released, Job
  <2>3. QED  BY <1>1, <2>1, <2>2
<1>8. CASE Crash
  <2>1. jobs'[j] = [jobs[j] EXCEPT !.holder = None]  BY <1>1, <1>8 DEF Crash, Accepted
  <2>2. QED  BY <1>1, <2>1 DEF Job
<1>9. ASSUME NEW w \in Workers, DatabaseError(w) PROVE jobs'[j].starts = jobs[j].starts
  BY <1>3, <1>9 DEF DatabaseError, Throws
<1>10. ASSUME NEW w \in Workers, ProcessStep(w) PROVE jobs'[j].starts = jobs[j].starts
  <2>1. CASE Finish(w)  BY <1>3, <2>1 DEF Finish
  <2>2. CASE RejectTimestamp(w)  BY <1>3, <2>2 DEF RejectTimestamp, Throws
  <2>3. CASE SaveConflict(w)  BY <1>3, <2>3 DEF SaveConflict, Throws
  <2>4. QED
    BY <1>2, <1>10, <2>1, <2>2, <2>3
    DEF ProcessStep, LookupLegacy, ReadFails, ReadImage, CheckDuplicate, Create,
        CreateConflict, FindExisting, SaveRepair
<1>11. QED
  BY <1>2, <1>4, <1>5, <1>6, <1>7, <1>8, <1>9, <1>10
  DEF Next, SomeAccepts, SomeWorks, SomeStalls, SomeEdits, SomeMoves, vars,
      DeleteCheck, Edit, DeleteRow, DeleteImage, Depart, Join, Suspend

\* Nobody learns of a row but from the table, and a slot only moves on.
RowStays(k) ==
    rows'[k] # None =>
        rows[k] # None /\ rows'[k].id = rows[k].id /\ rows'[k].image = rows[k].image
SeenStays(w) ==
    workers'[w].pc = "repair" =>
        /\ workers'[w].biz = workers[w].biz /\ workers'[w].delivery = workers[w].delivery
        /\ \/ workers[w].pc = "repair" /\ workers'[w].seen = workers[w].seen
           \/ /\ workers[w].pc = "find" /\ rows[KeyOf(w)] # None
              /\ workers'[w].seen = rows[KeyOf(w)]
DeletionStays ==
    deletion'.pc # "idle" =>
        \/ /\ deletion.pc # "idle" /\ deletion'.key = deletion.key
           /\ deletion'.id = deletion.id /\ deletion'.image = deletion.image
        \/ /\ deletion'.key \in Keys /\ rows[deletion'.key] # None /\ deletion'.pc = "checked"
           /\ deletion'.id = rows[deletion'.key].id /\ deletion'.image = rows[deletion'.key].image
Learning == (\A w \in Workers : SeenStays(w)) /\ DeletionStays

LEMMA Learned ==
    ASSUME Inv, JobFrame, Learning, NEW k \in Keys, NEW i, NEW m, Names(k, i, m)'
    PROVE  Names(k, i, m) \/ (~RowStays(k) /\ RowNames(k, i, m)')
<1>1. CASE RowNames(k, i, m)'  BY <1>1 DEF RowNames, RowStays, Names
<1>2. ASSUME NEW w \in Workers, SeenNames(w, k, i, m)' PROVE Names(k, i, m)
  <2>1. SeenStays(w) /\ workers'[w].pc = "repair"  BY <1>2 DEF Learning, SeenNames
  <2>2. workers[w].pc # "idle"  BY <2>1 DEF SeenStays
  <2>3. KeyOf(w) = k  BY <1>2, <2>1, <2>2, KeyKept DEF SeenStays, SeenNames
  <2>4. CASE workers[w].pc = "repair" /\ workers'[w].seen = workers[w].seen
    <3>1. SeenNames(w, k, i, m)  BY <1>2, <2>3, <2>4 DEF SeenNames
    <3>2. QED  BY <3>1 DEF Names
  <2>5. CASE rows[KeyOf(w)] # None /\ workers'[w].seen = rows[KeyOf(w)]
    <3>1. RowNames(k, i, m)  BY <1>2, <2>3, <2>5 DEF SeenNames, RowNames
    <3>2. QED  BY <3>1 DEF Names
  <2>6. QED  BY <2>1, <2>4, <2>5 DEF SeenStays
<1>3. CASE DeletionNames(k, i, m)'
  BY <1>3 DEF DeletionNames, RowNames, Learning, DeletionStays, Names
<1>4. QED  BY <1>1, <1>2, <1>3 DEF Names

\* A slot carries on with the delivery and image it has.
Onward(w) ==
    workers'[w].pc # "idle" =>
        /\ workers[w].pc # "idle" /\ workers'[w].delivery = workers[w].delivery
        /\ workers'[w].pc # "finish" =>
             workers[w].pc # "finish" /\ workers'[w].image = workers[w].image

\* A step that brings no row, no start and no upload, and takes no object away.
QuietStep ==
    /\ Learning
    /\ \A k \in Keys : RowStays(k)
    /\ \A w \in Workers : Onward(w)
    /\ UNCHANGED objects
    /\ deletion'.pc = "removed" =>
         deletion.pc = "removed" \/ ~Live(deletion.key, deletion.id)'

LEMMA QuietPictured ==
    ASSUME Inv, Pictured, [Next]_vars, QuietStep
    PROVE  Pictured'
<1>1. JobFrame /\ PastGrows  BY StepJobFrame, StepPastGrows
<1>2. ASSUME NEW k \in Keys, NEW i, NEW m, Names(k, i, m)' PROVE Names(k, i, m)
  BY <1>1, <1>2, Learned DEF QuietStep
<1>3. ASSUME NEW k \in Keys, NEW i, Live(k, i)' PROVE Live(k, i)
  BY <1>1, <1>3 DEF QuietStep, RowStays, Live, PastGrows
<1>4. OneRow'
  <2> SUFFICES ASSUME NEW k \in Keys, NEW l \in Keys, NEW i, NEW j, NEW m, NEW n,
                      Names(k, i, m)', Names(l, j, n)'
               PROVE  (i = j => k = l) /\ (m = n /\ m # None => i = j)
    BY DEF OneRow
  <2>1. Names(k, i, m) /\ Names(l, j, n)  BY <1>2
  <2>2. QED  BY <2>1 DEF Pictured, OneRow
<1>5. AllIssued'
  <2> SUFFICES ASSUME NEW k \in Keys, NEW i, NEW m, Names(k, i, m)'
               PROVE  Issued(i)' /\ (m # None => Issued(m)')
    BY DEF AllIssued
  <2>1. Issued(i) /\ (m # None => Issued(m))  BY <1>2 DEF Pictured, AllIssued
  <2>2. QED  BY <2>1, StepIssued
<1>6. ASSUME NEW w \in Workers PROVE OwnName(w)'
  <2> SUFFICES ASSUME workers'[w].pc # "idle" PROVE OwnName(w)'
    BY DEF OwnName
  <2>1. Onward(w) /\ OwnName(w)  BY DEF QuietStep, Pictured
  <2>2. workers[w].pc # "idle" /\ workers'[w].delivery = workers[w].delivery  BY <2>1 DEF Onward
  <2>3. Issued(workers[w].delivery)'
    <3>1. PICK d : d = workers[w].delivery  OBVIOUS
    <3>2. Issued(d)  BY <2>1, <2>2, <3>1 DEF OwnName
    <3>3. Issued(d)'  BY <3>2, StepIssued
    <3>4. QED  BY <2>2, <3>1, <3>3 DEF Issued, Accepted
  <2>4. CASE workers'[w].pc = "finish"  BY <2>3, <2>4 DEF OwnName
  <2>5. CASE workers'[w].pc # "finish"
    <3>1. workers[w].pc # "finish" /\ workers'[w].image = workers[w].image  BY <2>1, <2>5 DEF Onward
    <3>2. objects' = objects  BY DEF QuietStep
    <3>3. ASSUME NEW k \in Keys, NEW i, NEW m, Names(k, i, m)'
          PROVE  i # workers'[w].delivery /\ (m # None => m # workers'[w].delivery)
      BY <1>2, <2>1, <2>2, <3>1, <3>3 DEF OwnName
    <3>4. QED  BY <2>1, <2>2, <2>3, <3>1, <3>2, <3>3 DEF OwnName
  <2>6. QED  BY <2>4, <2>5
<1>7. OwnDelivery'  BY DEF QuietStep, Onward, Pictured, OwnDelivery
<1>8. Shown'
  <2> SUFFICES ASSUME NEW k \in Keys, NEW i, NEW m, Names(k, i, m)', m # None, Live(k, i)'
               PROVE  m \in objects'
    BY DEF Shown
  <2>1. Names(k, i, m) /\ Live(k, i)  BY <1>2, <1>3
  <2>2. QED  BY <2>1 DEF Pictured, Shown, QuietStep
<1>9. Away'
  <2>1. deletion'.pc # "idle" => deletion'.key \in Keys
    BY DEF QuietStep, Learning, DeletionStays, Pictured, Away
  <2>2. ASSUME deletion'.pc = "removed" PROVE ~Live(deletion.key, deletion.id)'
    <3>1. CASE ~Live(deletion.key, deletion.id)'  BY <3>1
    <3>2. CASE deletion.pc = "removed"
      <4>1. PICK k, i : k \in Keys /\ k = deletion.key /\ i = deletion.id
        BY <3>2 DEF Pictured, Away
      <4>2. ~Live(k, i)  BY <3>2, <4>1 DEF Pictured, Away
      <4>3. ~Live(k, i)'  BY <1>3, <4>1, <4>2
      <4>4. deletion'.key = k /\ deletion'.id = i
        BY <2>2, <3>2, <4>1 DEF QuietStep, Learning, DeletionStays
      <4>5. QED  BY <4>3, <4>4 DEF Live
    <3>3. QED  BY <2>2, <3>1, <3>2 DEF QuietStep
  <2>3. QED  BY <2>1, <2>2 DEF Away
<1>10. QED  BY <1>4, <1>5, <1>6, <1>7, <1>8, <1>9 DEF Pictured

\* A job starts: its delivery is a new name.
LEMMA TakePictured ==
    ASSUME Inv, Pictured, NEW w \in Workers, NEW j \in Jobs, Take(w, j)
    PROVE  Pictured'
<1>0. PICK n : n = jobs[j].starts + 1  OBVIOUS
<1>1. [Next]_vars  BY DEF Next, SomeWorks
<1>2. /\ workers \in [Workers -> Worker] /\ jobs \in [Jobs -> Job] /\ jobs[j] \in Job
      /\ JobFrame
  BY <1>1, StepJobFrame DEF Inv, TypeOK
<1>3. UNCHANGED <<rows, objects, deletion, past>>  BY DEF Take
<1>4. n \in Nat /\ ~(n <= jobs[j].starts)  BY <1>0, <1>2 DEF Job
<1>5. workers' = [workers EXCEPT ![w] = [IdleWorker EXCEPT
                   !.pc = FirstStage(j), !.delivery = <<j, n>>, !.biz = jobs[j].biz]]
  BY <1>0 DEF Take
<1>6. jobs' = [jobs EXCEPT ![j] = [jobs[j] EXCEPT !.state = "active", !.holder = w, !.starts = n]]
  BY <1>0 DEF Take
<1>7. /\ workers'[w].pc \in {"lookup", "read"} /\ workers'[w].delivery = <<j, n>>
      /\ workers'[w].image = None
  BY <1>2, <1>5 DEF IdleWorker, FirstStage
<1>8. ~Issued(<<j, n>>) /\ Issued(<<j, n>>)'
  <2>1. jobs'[j].starts = n /\ Accepted(j)'  BY <1>2, <1>6 DEF Job, Accepted
  <2>2. QED  BY <1>4, <2>1 DEF Issued, Accepted
<1>9. \A v \in Workers \ {w} : workers'[v] = workers[v]  BY <1>2, <1>5
<1>10. ASSUME NEW k \in Keys, NEW i, NEW m, Names(k, i, m)' PROVE Names(k, i, m)
  <2>1. ASSUME NEW v \in Workers, SeenNames(v, k, i, m)' PROVE SeenNames(v, k, i, m)
    <3>1. v # w  BY <1>7, <2>1 DEF SeenNames
    <3>2. workers'[v] = workers[v] /\ workers[v].pc # "idle"
      BY <1>9, <2>1, <3>1 DEF SeenNames
    <3>3. KeyOf(v)' = KeyOf(v)  BY <1>2, <3>2, KeyKept
    <3>4. QED  BY <2>1, <3>2, <3>3 DEF SeenNames
  <2>2. QED  BY <1>3, <1>10, <2>1 DEF Names, RowNames, DeletionNames
<1>11. ASSUME NEW k, NEW i PROVE Live(k, i)' <=> Live(k, i)  BY <1>3 DEF Live
<1>12. OneRow'
  <2> SUFFICES ASSUME NEW k \in Keys, NEW l \in Keys, NEW i, NEW h, NEW m, NEW o,
                      Names(k, i, m)', Names(l, h, o)'
               PROVE  (i = h => k = l) /\ (m = o /\ m # None => i = h)
    BY DEF OneRow
  <2>1. Names(k, i, m) /\ Names(l, h, o)  BY <1>10
  <2>2. QED  BY <2>1 DEF Pictured, OneRow
<1>13. AllIssued'
  <2> SUFFICES ASSUME NEW k \in Keys, NEW i, NEW m, Names(k, i, m)'
               PROVE  Issued(i)' /\ (m # None => Issued(m)')
    BY DEF AllIssued
  <2>1. Issued(i) /\ (m # None => Issued(m))  BY <1>10 DEF Pictured, AllIssued
  <2>2. QED  BY <1>1, <2>1, StepIssued
<1>14. OwnName(w)'
  <2>1. Issued(workers[w].delivery)'  BY <1>7, <1>8 DEF Issued, Accepted
  <2>2. ASSUME NEW k \in Keys, NEW i, NEW m, Names(k, i, m)'
        PROVE  i # <<j, n>> /\ (m # None => m # <<j, n>>)
    <3>1. Issued(i) /\ (m # None => Issued(m))  BY <1>10, <2>2 DEF Pictured, AllIssued
    <3>2. QED  BY <1>8, <3>1
  <2>3. QED  BY <1>7, <2>1, <2>2 DEF OwnName
<1>15. ASSUME NEW v \in Workers, v # w PROVE OwnName(v)'
  <2> SUFFICES ASSUME workers[v].pc # "idle" PROVE OwnName(v)'
    BY <1>9, <1>15 DEF OwnName
  <2>1. workers'[v] = workers[v] /\ OwnName(v)  BY <1>9, <1>15 DEF Pictured
  <2>2. Issued(workers[v].delivery)'
    <3>1. PICK d : d = workers[v].delivery  OBVIOUS
    <3>2. Issued(d)'  BY <1>1, <2>1, <3>1, StepIssued DEF OwnName
    <3>3. QED  BY <2>1, <3>1, <3>2 DEF Issued, Accepted
  <2>3. QED  BY <1>3, <1>10, <2>1, <2>2 DEF OwnName
<1>16. OwnDelivery'
  <2>1. ASSUME NEW v \in Workers, v # w, workers[v].pc # "idle"
        PROVE  workers[v].delivery # <<j, n>>
    <3>1. Issued(workers[v].delivery)  BY <2>1 DEF Pictured, OwnName
    <3>2. QED  BY <1>8, <3>1
  <2>2. QED  BY <1>7, <1>9, <2>1 DEF Pictured, OwnDelivery
<1>17. Shown'
  <2> SUFFICES ASSUME NEW k \in Keys, NEW i, NEW m, Names(k, i, m)', m # None, Live(k, i)'
               PROVE  m \in objects'
    BY DEF Shown
  <2>1. Names(k, i, m) /\ Live(k, i)  BY <1>10, <1>11
  <2>2. QED  BY <1>3, <2>1 DEF Pictured, Shown
<1>18. Away'  BY <1>3 DEF Pictured, Away, Live
<1>19. QED  BY <1>12, <1>13, <1>14, <1>15, <1>16, <1>17, <1>18 DEF Pictured

\* An upload: the slot's own name, which nobody knows.
LEMMA ReadPictured ==
    ASSUME Inv, Pictured, NEW w \in Workers, ReadImage(w)
    PROVE  Pictured'
<1>1. /\ workers \in [Workers -> Worker] /\ workers[w] \in Worker /\ OwnName(w)
      /\ workers[w].pc = "read"
  BY DEF ReadImage, Inv, TypeOK, Pictured
<1>2. /\ UNCHANGED <<jobs, rows, deletion, past>>
      /\ objects' = objects \cup {workers[w].delivery}
  BY DEF ReadImage, ImageKey
<1>3. PICK r \in Readings(PhotoOf(w)) \cup {NothingRead} :
        workers' = [workers EXCEPT ![w] = [@ EXCEPT
                      !.image = ImageKey(w), !.pay = r.pay, !.bank = r.bank,
                      !.pc = AfterReading(r)]]
  BY DEF ReadImage
<1> DEFINE pc == AfterReading(r)
<1>4. workers' = [workers EXCEPT ![w] = [workers[w] EXCEPT !.image = workers[w].delivery,
                    !.pay = r.pay, !.bank = r.bank, !.pc = pc]]
  BY <1>3 DEF ImageKey
<1>5. pc \in {"check", "create"}  BY DEF AfterReading
<1> HIDE DEF pc
<1>6. /\ workers'[w].pc \in {"check", "create"} /\ workers'[w].delivery = workers[w].delivery
      /\ workers'[w].image = workers[w].delivery
  BY <1>1, <1>4, <1>5 DEF Worker
<1>7. \A v \in Workers \ {w} : workers'[v] = workers[v]  BY <1>1, <1>4
<1>8. ASSUME NEW k, NEW i, NEW m, Names(k, i, m)' PROVE Names(k, i, m)
  <2>1. ASSUME NEW v \in Workers, SeenNames(v, k, i, m)' PROVE SeenNames(v, k, i, m)
    <3>1. v # w  BY <1>6, <2>1 DEF SeenNames
    <3>2. QED  BY <1>2, <1>7, <2>1, <3>1 DEF SeenNames, KeyOf, PhotoOf, JobOf
  <2>2. QED  BY <1>2, <1>8, <2>1 DEF Names, RowNames, DeletionNames
<1>9. OneRow' /\ AllIssued'
  BY <1>2, <1>8 DEF Pictured, OneRow, AllIssued, Issued, Accepted
<1>10. ASSUME NEW v \in Workers PROVE OwnName(v)'
  <2>1. CASE v = w
    BY <1>1, <1>2, <1>6, <1>8, <2>1 DEF OwnName, Issued, Accepted
  <2>2. CASE v # w
    BY <1>2, <1>7, <1>8, <2>2 DEF Pictured, OwnName, Issued, Accepted
  <2>3. QED  BY <2>1, <2>2
<1>11. OwnDelivery'  BY <1>1, <1>6, <1>7 DEF Pictured, OwnDelivery
<1>12. Shown'  BY <1>2, <1>8 DEF Pictured, Shown, Live
<1>13. Away'  BY <1>2 DEF Pictured, Away, Live
<1>14. QED  BY <1>9, <1>10, <1>11, <1>12, <1>13 DEF Pictured

\* A row is stored: under the slot's own name, or under the one its repair read.
LEMMA StorePictured ==
    ASSUME Inv, Pictured, NEW w \in Workers, NEW r \in Row, Store(w, r),
           UNCHANGED <<jobs, objects, deletion>>, workers' = Ended(w),
           \/ /\ workers[w].pc = "create" /\ rows[KeyOf(w)] = None
              /\ r.id = workers[w].delivery /\ r.image = workers[w].image
           \/ /\ workers[w].pc = "repair"
              /\ rows[KeyOf(w)] # None => rows[KeyOf(w)].id = workers[w].seen.id
              /\ r.id = workers[w].seen.id
              /\ r.image \in {workers[w].image, workers[w].seen.image}
              /\ r.image = None => workers[w].image = None
    PROVE  Pictured'
<1> DEFINE here == KeyOf(w)
           own == workers[w].delivery
           read == workers[w].pc = "repair"
<1>1. /\ TypeOK /\ rows \in [Keys -> Row \cup {None}] /\ past \in History
      /\ OwnName(w) /\ here \in Keys /\ workers[w].pc \in {"create", "repair"}
  BY Busy DEF Inv, TypeOK, Pictured
<1>2. rows' = [rows EXCEPT ![here] = r]  BY DEF Store
<1>3. /\ \A v \in Workers \ {w} : workers'[v] = workers[v]
      /\ workers'[w].pc = "finish" /\ workers'[w].delivery = own
  BY <1>1, EndedType
<1>4. past'.returned = past.returned \cup Returning(w)  BY <1>1 DEF Store, History
<1>5. read => Names(here, workers[w].seen.id, workers[w].seen.image)
  BY DEF Names, SeenNames
<1>6. /\ Issued(own) /\ workers[w].image \in {None, own}
      /\ workers[w].image # None => workers[w].image \in objects
      /\ \A k \in Keys : \A i, m : Names(k, i, m) => i # own /\ (m # None => m # own)
  BY <1>1 DEF OwnName
<1>7. ASSUME NEW k \in Keys, NEW i, NEW m, Names(k, i, m)'
      PROVE  Names(k, i, m) \/ (k = here /\ i = r.id /\ m = r.image)
  <2>1. ASSUME NEW v \in Workers, SeenNames(v, k, i, m)' PROVE SeenNames(v, k, i, m)
    <3>1. v # w  BY <1>3, <2>1 DEF SeenNames
    <3>2. QED  BY <1>3, <2>1, <3>1 DEF SeenNames, KeyOf, PhotoOf, JobOf
  <2>2. RowNames(k, i, m)' => RowNames(k, i, m) \/ (k = here /\ i = r.id /\ m = r.image)
    BY <1>1, <1>2 DEF RowNames
  <2>3. QED  BY <1>7, <2>1, <2>2 DEF Names, DeletionNames
<1>8. ASSUME NEW k \in Keys, NEW i, NEW m, Names(k, i, m)
      PROVE  (i = r.id => k = here) /\ (m = r.image /\ m # None => i = r.id)
  <2>1. CASE read
    <3>1. r.id = workers[w].seen.id /\ (r.image = workers[w].seen.image \/ r.image \in {None, own})
      BY <1>6, <2>1
    <3>2. OneRow  BY DEF Pictured
    <3>3. i = r.id => k = here  BY <1>1, <1>5, <1>8, <2>1, <3>1, <3>2 DEF OneRow
    <3>4. m = r.image /\ m # None => i = r.id
      <4>1. CASE r.image = workers[w].seen.image
        BY <1>1, <1>5, <1>8, <2>1, <3>1, <3>2, <4>1 DEF OneRow
      <4>2. CASE r.image \in {None, own}  BY <1>6, <1>8, <4>2
      <4>3. QED  BY <3>1, <4>1, <4>2
    <3>5. QED  BY <3>3, <3>4
  <2>2. CASE ~read  BY <1>6, <1>8, <2>2
  <2>3. QED  BY <2>1, <2>2
<1>9. Issued(r.id) /\ (r.image # None => Issued(r.image))
  <2>1. CASE read
    <3>1. AllIssued  BY DEF Pictured
    <3>2. Issued(workers[w].seen.id)
          /\ (workers[w].seen.image # None => Issued(workers[w].seen.image))
      BY <1>1, <1>5, <2>1, <3>1 DEF AllIssued
    <3>3. r.id = workers[w].seen.id /\ (r.image = workers[w].seen.image \/ r.image \in {None, own})
      BY <1>6, <2>1
    <3>4. QED  BY <1>6, <3>2, <3>3
  <2>2. CASE ~read  BY <1>6, <2>2
  <2>3. QED  BY <2>1, <2>2
<1>10. ASSUME NEW k \in Keys, NEW i, Live(k, i)' PROVE Live(k, i) \/ i = own
  <2>1. CASE k # here  BY <1>1, <1>2, <1>4, <1>10, <2>1 DEF Live
  <2>2. CASE k = here
    <3>1. i = r.id /\ i \notin past.returned /\ i \notin Returning(w)
      BY <1>1, <1>2, <1>4, <1>10, <2>2 DEF Live
    <3>2. CASE read
      <4>1. rows[here] # None  BY <3>1, <3>2 DEF Returning
      <4>2. QED  BY <2>2, <3>1, <3>2, <4>1 DEF Live
    <3>3. QED  BY <3>1, <3>2
  <2>3. QED  BY <2>1, <2>2
<1>11. OneRow'
  <2> SUFFICES ASSUME NEW k \in Keys, NEW l \in Keys, NEW i, NEW j, NEW m, NEW n,
                      Names(k, i, m)', Names(l, j, n)'
               PROVE  (i = j => k = l) /\ (m = n /\ m # None => i = j)
    BY DEF OneRow
  <2>1. Names(k, i, m) \/ (k = here /\ i = r.id /\ m = r.image)  BY <1>7
  <2>2. Names(l, j, n) \/ (l = here /\ j = r.id /\ n = r.image)  BY <1>7
  <2>3. CASE Names(k, i, m) /\ Names(l, j, n)  BY <2>3 DEF Pictured, OneRow
  <2>4. CASE ~Names(k, i, m) \/ ~Names(l, j, n)  BY <1>8, <2>1, <2>2, <2>4
  <2>5. QED  BY <2>3, <2>4
<1>12. AllIssued'
  <2> SUFFICES ASSUME NEW k \in Keys, NEW i, NEW m, Names(k, i, m)'
               PROVE  Issued(i) /\ (m # None => Issued(m))
    BY DEF AllIssued, Issued, Accepted
  <2>1. QED  BY <1>7, <1>9 DEF Pictured, AllIssued
<1>13. ASSUME NEW v \in Workers PROVE OwnName(v)'
  <2>1. CASE v = w  BY <1>3, <1>6, <2>1 DEF OwnName, Issued, Accepted
  <2>2. CASE v # w
    <3> SUFFICES ASSUME workers[v].pc # "idle" PROVE OwnName(v)'
      BY <1>3, <2>2 DEF OwnName
    <3>1. workers'[v] = workers[v] /\ OwnName(v) /\ own # workers[v].delivery
      BY <1>1, <1>3, <2>2 DEF Pictured, OwnDelivery
    <3>2. CASE workers[v].pc = "finish"  BY <3>1, <3>2 DEF OwnName, Issued, Accepted
    <3>3. CASE workers[v].pc # "finish"
      <4>1. /\ r.id # workers[v].delivery
            /\ r.image # None => r.image # workers[v].delivery
        <5>1. CASE read
          <6>1. /\ workers[w].seen.id # workers[v].delivery
                /\ workers[w].seen.image # None => workers[w].seen.image # workers[v].delivery
            BY <1>1, <1>5, <3>1, <3>3, <5>1 DEF OwnName
          <6>2. QED  BY <1>6, <3>1, <5>1, <6>1
        <5>2. CASE ~read  BY <1>6, <3>1, <5>2
        <5>3. QED  BY <5>1, <5>2
      <4>2. ASSUME NEW k \in Keys, NEW i, NEW m, Names(k, i, m)'
            PROVE  i # workers[v].delivery /\ (m # None => m # workers[v].delivery)
        BY <1>7, <3>1, <3>3, <4>1, <4>2 DEF OwnName
      <4>3. QED  BY <3>1, <3>3, <4>2 DEF OwnName, Issued, Accepted
    <3>4. QED  BY <3>2, <3>3
  <2>3. QED  BY <2>1, <2>2
<1>14. OwnDelivery'
  BY <1>1, <1>3 DEF Pictured, OwnDelivery
<1>15. Shown'
  <2> SUFFICES ASSUME NEW k \in Keys, NEW i, NEW m, Names(k, i, m)', m # None, Live(k, i)'
               PROVE  m \in objects
    BY DEF Shown
  <2>1. CASE Names(k, i, m)
    <3>1. i # own  BY <1>6, <2>1
    <3>2. Live(k, i)  BY <1>10, <3>1
    <3>3. QED  BY <2>1, <3>2 DEF Pictured, Shown
  <2>2. CASE ~Names(k, i, m)
    <3>1. k = here /\ i = r.id /\ m = r.image  BY <1>7, <2>2
    <3>2. CASE m = workers[w].image  BY <1>6, <3>2
    <3>3. CASE m # workers[w].image
      <4>1. read /\ m = workers[w].seen.image /\ i = workers[w].seen.id  BY <3>1, <3>3
      <4>2. Names(k, i, m)  BY <1>5, <3>1, <4>1
      <4>3. QED  BY <2>2, <4>2
    <3>4. QED  BY <3>2, <3>3
  <2>3. QED  BY <2>1, <2>2
<1>16. Away'
  <2>1. ASSUME deletion.pc = "removed" PROVE ~Live(deletion.key, deletion.id)'
    <3>1. PICK k, i, m : k \in Keys /\ k = deletion.key /\ i = deletion.id /\ m = deletion.image
      BY <2>1 DEF Pictured, Away
    <3>2. ~Live(k, i)  BY <2>1, <3>1 DEF Pictured, Away
    <3>3. Names(k, i, m)  BY <2>1, <3>1 DEF Names, DeletionNames
    <3>4. ~Live(k, i)'  BY <1>6, <1>10, <3>1, <3>2, <3>3
    <3>5. QED  BY <3>1, <3>4 DEF Live
  <2>2. QED  BY <2>1 DEF Pictured, Away
<1>17. QED  BY <1>11, <1>12, <1>13, <1>14, <1>15, <1>16 DEF Pictured

\* The object of a deleted row goes: whoever else knows it, knows that very row.
LEMMA DeletePictured ==
    ASSUME Inv, Pictured, DeleteImage
    PROVE  Pictured'
<1>1. /\ UNCHANGED <<jobs, rows, workers, past>> /\ deletion'.pc = "idle"
      /\ objects' \in {objects, objects \ {deletion.image}}
      /\ deletion.pc = "removed"
  BY DEF DeleteImage, NoDeletion
<1>2. PICK k0, i0, m0 : k0 \in Keys /\ k0 = deletion.key /\ i0 = deletion.id /\ m0 = deletion.image
  BY <1>1 DEF Pictured, Away
<1>3. Names(k0, i0, m0) /\ ~Live(k0, i0)
  BY <1>1, <1>2 DEF Names, DeletionNames, Pictured, Away
<1>4. ASSUME NEW k, NEW i, NEW m, Names(k, i, m)' PROVE Names(k, i, m)
  BY <1>1, <1>4 DEF Names, RowNames, SeenNames, DeletionNames, KeyOf, PhotoOf, JobOf
<1>5. OneRow' /\ AllIssued'
  BY <1>1, <1>4 DEF Pictured, OneRow, AllIssued, Issued, Accepted
<1>6. ASSUME NEW w \in Workers PROVE OwnName(w)'
  <2>1. workers[w].pc \notin {"idle", "finish"} /\ workers[w].image # None
          => workers[w].image # m0
    BY <1>2, <1>3 DEF Pictured, OwnName
  <2>2. QED  BY <1>1, <1>2, <1>4, <2>1 DEF Pictured, OwnName, Issued, Accepted
<1>7. OwnDelivery' /\ Away'  BY <1>1 DEF Pictured, OwnDelivery, Away
<1>8. Shown'
  <2> SUFFICES ASSUME NEW k \in Keys, NEW i, NEW m, Names(k, i, m)', m # None, Live(k, i)'
               PROVE  m \in objects'
    BY DEF Shown
  <2>1. Names(k, i, m) /\ Live(k, i)  BY <1>1, <1>4 DEF Live
  <2>2. m \in objects  BY <2>1 DEF Pictured, Shown
  <2>3. m # m0
    <3>1. OneRow  BY DEF Pictured
    <3>2. m = m0 => i = i0 /\ k = k0  BY <1>2, <1>3, <2>1, <3>1 DEF OneRow
    <3>3. QED  BY <1>3, <2>1, <3>2
  <2>4. QED  BY <1>1, <1>2, <2>2, <2>3
<1>9. QED  BY <1>5, <1>6, <1>7, <1>8 DEF Pictured

\* All the other steps are quiet.
LEMMA StepQuiet ==
    ASSUME Inv, Pictured, [Next]_vars, ~DeleteImage,
           \A w \in Workers : /\ ~Create(w) /\ ~SaveRepair(w) /\ ~ReadImage(w)
                              /\ \A j \in Jobs : ~Take(w, j)
    PROVE  QuietStep
<1>1. /\ TypeOK /\ workers \in [Workers -> Worker] /\ rows \in [Keys -> Row \cup {None}]
      /\ deletion \in Deletion
  BY DEF Inv, TypeOK
<1>2. UNCHANGED rows => \A k \in Keys : RowStays(k)  BY DEF RowStays
<1>3. ASSUME NEW w \in Workers, workers'[w] \in {workers[w], IdleWorker}
      PROVE  SeenStays(w) /\ Onward(w)
  BY <1>3 DEF SeenStays, Onward, IdleWorker
<1>4. UNCHANGED deletion \/ deletion' = NoDeletion
        => DeletionStays /\ (deletion'.pc = "removed" => deletion.pc = "removed")
  BY DEF DeletionStays, NoDeletion
<1>5. ASSUME NEW v \in Workers, ProcessStep(v) PROVE QuietStep
  <2>1. UNCHANGED <<rows, objects, deletion>>
    BY <1>5
    DEF ProcessStep, LookupLegacy, ReadFails, CheckDuplicate, RejectTimestamp,
        CreateConflict, FindExisting, SaveConflict, Finish, Throws
  <2>2. SeenStays(v) /\ Onward(v)
    <3>1. CASE LookupLegacy(v)
      <4>1. /\ workers'[v].pc \in {"finish", "read"} /\ workers[v].pc = "lookup"
            /\ workers'[v].delivery = workers[v].delivery
            /\ workers'[v].image = workers[v].image
        BY <1>1, <3>1 DEF LookupLegacy, Worker
      <4>2. QED  BY <4>1 DEF SeenStays, Onward
    <3>2. CASE ReadFails(v)
      <4>1. /\ workers'[v].pc = "create" /\ workers[v].pc = "read"
            /\ workers'[v].delivery = workers[v].delivery
            /\ workers'[v].image = workers[v].image
        BY <1>1, <3>2 DEF ReadFails, Worker
      <4>2. QED  BY <4>1 DEF SeenStays, Onward
    <3>3. CASE CheckDuplicate(v)
      <4> DEFINE dup == SamePayment(workers[v].biz, workers[v].pay)
      <4>1. workers'[v] = [workers[v] EXCEPT !.dup = dup, !.pc = "create"] /\ workers[v].pc = "check"
        BY <1>1, <3>3 DEF CheckDuplicate
      <4> HIDE DEF dup
      <4>2. /\ workers'[v].pc = "create" /\ workers'[v].delivery = workers[v].delivery
            /\ workers'[v].image = workers[v].image
        BY <1>1, <4>1 DEF Worker
      <4>3. QED  BY <4>1, <4>2 DEF SeenStays, Onward
    <3>4. CASE CreateConflict(v)
      <4>1. /\ workers'[v].pc = "find" /\ workers[v].pc = "create"
            /\ workers'[v].delivery = workers[v].delivery
            /\ workers'[v].image = workers[v].image
        BY <1>1, <3>4 DEF CreateConflict, Worker
      <4>2. QED  BY <4>1 DEF SeenStays, Onward
    <3>5. CASE FindExisting(v) /\ workers' = Ended(v)
      <4>1. /\ workers'[v].pc = "finish" /\ workers[v].pc = "find"
            /\ workers'[v].delivery = workers[v].delivery
        BY <1>1, <3>5, EndedType DEF FindExisting
      <4>2. QED  BY <4>1 DEF SeenStays, Onward
    <3>6. CASE FindExisting(v) /\ workers' # Ended(v)
      <4> DEFINE row == rows[KeyOf(v)]
      <4>1. /\ workers'[v] = [workers[v] EXCEPT !.pc = "repair", !.seen = row]
            /\ row # None /\ workers[v].pc = "find"
        BY <1>1, <3>6 DEF FindExisting
      <4> HIDE DEF row
      <4>2. /\ workers'[v].pc = "repair" /\ workers'[v].seen = row
            /\ workers'[v].delivery = workers[v].delivery /\ workers'[v].biz = workers[v].biz
            /\ workers'[v].image = workers[v].image
        BY <1>1, <4>1 DEF Worker
      <4>3. QED  BY <4>1, <4>2 DEF SeenStays, Onward, row
    <3>7. CASE RejectTimestamp(v) \/ SaveConflict(v) \/ Finish(v)
      BY <1>1, <1>3, <3>7 DEF RejectTimestamp, SaveConflict, Finish, Throws
    <3>8. QED
      BY <1>5, <3>1, <3>2, <3>3, <3>4, <3>5, <3>6, <3>7 DEF ProcessStep
  <2>3. ASSUME NEW w \in Workers, w # v PROVE SeenStays(w) /\ Onward(w)
    <3>1. workers'[w] = workers[w]
      BY <1>1, <1>5, <2>3
      DEF ProcessStep, LookupLegacy, ReadFails, CheckDuplicate, RejectTimestamp,
          CreateConflict, FindExisting, SaveConflict, Finish, Throws, Ended
    <3>2. QED  BY <1>3, <3>1
  <2>4. QED  BY <1>2, <1>4, <2>1, <2>2, <2>3 DEF QuietStep, Learning
<1>6. ASSUME NEW v \in Workers, DatabaseError(v) PROVE QuietStep
  <2>1. \A w \in Workers : workers'[w] \in {workers[w], IdleWorker}
    BY <1>1, <1>6 DEF DatabaseError, Throws
  <2>2. QED  BY <1>2, <1>3, <1>4, <1>6, <2>1 DEF DatabaseError, Throws, QuietStep, Learning
<1>7. CASE Crash
  <2>1. \A w \in Workers : workers'[w] = IdleWorker  BY <1>7 DEF Crash
  <2>2. QED  BY <1>2, <1>3, <1>4, <1>7, <2>1 DEF Crash, QuietStep, Learning
<1>8. ASSUME NEW k \in Keys, NEW pay \in Payments, Edit(k, pay) PROVE QuietStep
  <2>1. UNCHANGED <<workers, objects, deletion>>  BY <1>8 DEF Edit
  <2>2. ASSUME NEW l \in Keys PROVE RowStays(l)
    <3>1. CASE l # k  BY <1>1, <1>8, <3>1 DEF Edit, RowStays
    <3>2. CASE l = k
      <4>1. rows[k] \in Row /\ rows[k] # None /\ rows'[k] = [rows[k] EXCEPT !.pay = pay, !.bank = TRUE]
        BY <1>1, <1>8, <3>2 DEF Edit
      <4>2. rows'[k].id = rows[k].id /\ rows'[k].image = rows[k].image  BY <4>1 DEF Row
      <4>3. QED  BY <3>2, <4>1, <4>2 DEF RowStays
    <3>3. QED  BY <3>1, <3>2
  <2>3. QED  BY <1>3, <1>4, <2>1, <2>2 DEF QuietStep, Learning
<1>9. ASSUME NEW k \in Keys, DeleteCheck(k) PROVE QuietStep
  <2>1. UNCHANGED <<workers, objects, rows>>  BY <1>9 DEF DeleteCheck
  <2>2. DeletionStays /\ deletion'.pc = "checked"  BY <1>9 DEF DeleteCheck, DeletionStays
  <2>3. QED  BY <1>2, <1>3, <2>1, <2>2 DEF QuietStep, Learning
<1>10. CASE DeleteRow
  <2> DEFINE k == deletion.key
  <2>1. k \in Keys /\ UNCHANGED <<workers, objects, past>> /\ deletion.pc = "checked"
    BY <1>10 DEF DeleteRow, Pictured, Away
  <2>2. rows' = rows \/ rows' = [rows EXCEPT ![k] = None]  BY <1>10 DEF DeleteRow
  <2>3. \A l \in Keys : RowStays(l)  BY <1>1, <2>1, <2>2 DEF RowStays
  <2>4. DeletionStays
    BY <1>1, <1>10, <2>1 DEF DeleteRow, DeletionStays, NoDeletion, Deletion
  <2>5. deletion'.pc = "removed" => deletion'.key = k /\ deletion'.id = deletion.id
    BY <1>1, <1>10 DEF DeleteRow, NoDeletion, Deletion
  <2>6. rows'[k] = None \/ rows'[k].id # deletion.id
    BY <1>1, <1>10, <2>1 DEF DeleteRow
  <2>7. deletion'.pc = "removed" => ~Live(deletion.key, deletion.id)'
    BY <2>5, <2>6 DEF Live
  <2>8. QED  BY <1>3, <2>1, <2>3, <2>4, <2>7 DEF QuietStep, Learning
<1>11. CASE UNCHANGED <<workers, rows, objects, deletion>>
  BY <1>2, <1>3, <1>4, <1>11 DEF QuietStep, Learning
<1>12. QED
  BY <1>5, <1>6, <1>7, <1>8, <1>9, <1>10, <1>11
  DEF Next, SomeAccepts, SomeWorks, SomeStalls, SomeEdits, SomeMoves, vars, Receive, Enqueue,
      LoseLock, RecoverStalled, Depart, Join, Suspend

LEMMA StepPictured == ASSUME Inv, Pictured, [Next]_vars PROVE Pictured'
<1>1. ASSUME NEW w \in Workers, NEW j \in Jobs, Take(w, j) PROVE Pictured'
  BY <1>1, TakePictured
<1>2. ASSUME NEW w \in Workers, ReadImage(w) PROVE Pictured'
  BY <1>2, ReadPictured
<1>3. ASSUME NEW w \in Workers, Create(w) PROVE Pictured'
  <2>1. NewRow(w) \in Row  BY <1>3, NewRowType DEF Create
  <2>2. NewRow(w).id = workers[w].delivery /\ NewRow(w).image = workers[w].image  BY DEF NewRow
  <2>3. QED  BY <1>3, <2>1, <2>2, StorePictured DEF Create
<1>4. ASSUME NEW w \in Workers, SaveRepair(w) PROVE Pictured'
  <2>1. Repaired(w) \in Row /\ workers[w].seen \in Row
    BY <1>4, RepairedType DEF SaveRepair, Inv, WorkerInv
  <2>2. /\ Repaired(w).id = workers[w].seen.id
        /\ Repaired(w).image \in {workers[w].image, workers[w].seen.image}
        /\ Repaired(w).image = None => workers[w].image = None
    BY <2>1 DEF Repaired, Row
  <2>3. QED  BY <1>4, <2>1, <2>2, StorePictured DEF SaveRepair
<1>5. CASE DeleteImage  BY <1>5, DeletePictured
<1>6. QED  BY <1>1, <1>2, <1>3, <1>4, <1>5, StepQuiet, QuietPictured

LEMMA InitPictured == Init => Pictured
<1> SUFFICES ASSUME Init PROVE Pictured
  OBVIOUS
<1>1. /\ \A k \in Keys : rows[k] = None
      /\ \A w \in Workers : workers[w].pc = "idle"
      /\ deletion.pc = "idle"
  BY DEF Init, IdleWorker, NoDeletion
<1>2. \A k \in Keys : \A i, m : ~Names(k, i, m)
  BY <1>1 DEF Names, RowNames, SeenNames, DeletionNames
<1>3. QED
  BY <1>1, <1>2 DEF Pictured, OneRow, AllIssued, OwnName, OwnDelivery, Shown, Away

\* The receipt can be looked at as long as its Transaction is there: no deletion takes
\* away the image of another, with any number of slots, resent photos, outages and
\* deletions. Only a row that a repair brings back after its deletion may lack its image.
THEOREM ImagesStay == Spec => []RowImageAvailable
<1>1. Inv /\ Pictured /\ [Next]_vars => Pictured'  BY StepPictured
<1>2. Pictured => RowImageAvailable
  <2> SUFFICES ASSUME Pictured, NEW k \in Keys, rows[k] # None, rows[k].id \notin past.returned,
                      rows[k].image # None
               PROVE  rows[k].image \in objects
    BY DEF RowImageAvailable
  <2>1. Names(k, rows[k].id, rows[k].image) /\ Live(k, rows[k].id)
    BY DEF Names, RowNames, Live
  <2>2. QED  BY <2>1 DEF Pictured, Shown
<1>3. QED  BY <1>1, <1>2, InitPictured, Inductive, PTL DEF Spec


-----------------------------------------------------------------------------
(* The refinement. *)

\* Only a running job is locked, and a job about to be queued knows its Business.
HeldInv == \A j \in Jobs :
    /\ jobs[j].holder # None => jobs[j].state = "active"
    /\ jobs[j].state = "resolved" => jobs[j].biz \in Businesses

RInv == Inv /\ HeldInv

LedgerStep == [Ledger!Next]_(Ledger!lvars)

-----------------------------------------------------------------------------
(* The three parts of the mapping, in the next state. *)

LEMMA StandingNext == Standing' = [j \in Jobs |-> ReceiptOf(jobs'[j])]
BY DEF Standing

LEMMA EntriesNext == Entries' = [k \in Keys |-> LedgerEntry(rows'[k])]
BY DEF Entries

\* A step the ledger does not see.
LEMMA Quiet ==
    ASSUME \A j \in Jobs : ReceiptOf(jobs'[j]) = ReceiptOf(jobs[j]),
           \A k \in Keys : LedgerEntry(rows'[k]) = LedgerEntry(rows[k]),
           past'.stored = past.stored
    PROVE  LedgerStep
<1>1. Standing' = Standing  BY StandingNext DEF Standing
<1>2. Entries' = Entries  BY EntriesNext DEF Entries
<1>3. Stored' = Stored  BY DEF Stored
<1>4. QED  BY <1>1, <1>2, <1>3 DEF LedgerStep, Ledger!lvars

\* A running job goes back to the queue, is given up, or is completed with its
\* receipt stored.
LEMMA Settling ==
    ASSUME jobs \in [Jobs -> Job], NEW j \in Jobs, jobs[j].state = "active",
           jobs[j].photo \in Photos,
           NEW new, jobs' = [jobs EXCEPT ![j] = new],
           new.biz = jobs[j].biz, new.photo = jobs[j].photo,
           new.state \in {"waiting", "failed", "completed"},
           new.state = "completed" /\ jobs[j].biz # None =>
             <<jobs[j].biz, jobs[j].photo>> \in past.stored,
           UNCHANGED rows, past'.stored = past.stored
    PROVE  LedgerStep
<1> DEFINE b == jobs[j].biz
           p == jobs[j].photo
           Now(s) == [state |-> s, biz |-> b, photo |-> p]
<1>1. b \in Businesses \cup {None}  BY DEF Job
<1>2. Standing[j] = Now("accepted")  BY DEF Standing, ReceiptOf, Fate
<1>3. jobs'[j] = new /\ \A i \in Jobs \ {j} : jobs'[i] = jobs[i]  OBVIOUS
<1>4. Entries' = Entries /\ Stored' = Stored  BY EntriesNext DEF Entries, Stored
<1>5. ReceiptOf(new) = Now(Fate(new.state))  BY DEF ReceiptOf
<1>6. CASE new.state = "waiting"
  <2>1. ReceiptOf(jobs'[j]) = ReceiptOf(jobs[j])
    BY <1>3, <1>5, <1>6 DEF ReceiptOf, Fate
  <2>2. QED  BY <1>3, <2>1, Quiet
<1>7. Standing' = [Standing EXCEPT ![j] = Now(Fate(new.state))]
  BY <1>3, <1>5, StandingNext DEF Standing
<1> HIDE DEF b, p
<1>8. CASE new.state = "failed"
  <2>1. Fate(new.state) = "lost"  BY <1>8 DEF Fate
  <2>2. Ledger!Lose(j, b, p)
    BY <1>2, <1>4, <1>7, <2>1 DEF Ledger!Lose, Ledger!Settle, Ledger!Accepted
  <2>3. p \in Photos  BY DEF p
  <2>4. QED  BY <1>1, <2>2, <2>3 DEF LedgerStep, Ledger!Next
<1>9. CASE new.state = "completed"
  <2>1. Fate(new.state) = "done"  BY <1>9 DEF Fate
  <2>2. Ledger!Done(j, b, p)  BY <1>9 DEF Ledger!Done, Stored, b, p
  <2>3. Ledger!Complete(j, b, p)
    BY <1>2, <1>4, <1>7, <2>1, <2>2 DEF Ledger!Complete, Ledger!Settle, Ledger!Accepted
  <2>4. p \in Photos  BY DEF p
  <2>5. QED  BY <1>1, <2>3, <2>4 DEF LedgerStep, Ledger!Next
<1>10. QED  BY <1>6, <1>8, <1>9

\* A slot that stores a row does so for the Receipt of its job.
LEMMA Recording ==
    ASSUME RInv, NEW w \in Workers, workers[w].pc \in {"create", "repair"},
           NEW r \in Row, Store(w, r), UNCHANGED jobs
    PROVE  LedgerStep
<1> DEFINE j == JobOf(w)
           k == KeyOf(w)
<1>1. j \in Jobs /\ Accepted(j) /\ jobs[j] \in Job /\ k \in Keys  BY Busy DEF RInv
<1>2. k = <<workers[w].biz, jobs[j].photo>> /\ jobs[j].biz \in {None, workers[w].biz}
  BY DEF RInv, Inv, WorkerInv, KeyOf, PhotoOf, JobOf
<1>3. /\ rows' = [rows EXCEPT ![k] = r]
      /\ past'.stored = past.stored \cup {k}
      /\ rows \in [Keys -> Row \cup {None}]
  BY DEF RInv, Inv, TypeOK, Store
<1>4. k[1] = workers[w].biz /\ k[2] = jobs[j].photo  BY <1>2
<1> HIDE DEF j, k
<1>5. Standing[j] = [state |-> Fate(jobs[j].state), biz |-> jobs[j].biz, photo |-> jobs[j].photo]
  BY <1>1 DEF Standing, ReceiptOf, Accepted
<1>6. Fate(jobs[j].state) \in {"accepted", "done", "lost"}  BY DEF Fate
<1>7. Standing[j] \in Ledger!Progress(k[1], k[2]) \cup Ledger!Progress(None, k[2])
  BY <1>2, <1>4, <1>5, <1>6 DEF Ledger!Progress
<1>8. Standing' = Standing  BY StandingNext DEF Standing
<1>9. LedgerEntry(r) \in Ledger!Statuses
  BY RowAssumption DEF LedgerEntry, Row, Ledger!Statuses
<1>10. Entries' = [Entries EXCEPT ![k] = LedgerEntry(r)]  BY <1>3, EntriesNext DEF Entries
<1>11. Stored' = Stored \cup {k}  BY <1>3 DEF Stored
<1>12. Ledger!Record(k)  BY <1>1, <1>7, <1>8, <1>9, <1>10, <1>11 DEF Ledger!Record
<1>13. k \in Ledger!LedgerKeys  BY <1>1 DEF Keys, Ledger!LedgerKeys
<1>14. QED  BY <1>12, <1>13 DEF LedgerStep, Ledger!Next

-----------------------------------------------------------------------------
(* HeldInv is inductive, given Inv. *)

\* What a slot's last step does to its job, when it still holds the lock.
LEMMA SettledBy ==
    ASSUME RInv, NEW w \in Workers, workers[w].pc # "idle",
           jobs' = Failed(w) \/ (jobs' = Completed(w) /\ workers[w].pc = "finish")
    PROVE  \/ UNCHANGED jobs
           \/ \E new : /\ jobs[JobOf(w)].state = "active"
                       /\ jobs' = [jobs EXCEPT ![JobOf(w)] = new]
                       /\ new.biz = jobs[JobOf(w)].biz /\ new.photo = jobs[JobOf(w)].photo
                       /\ new.holder = None
                       /\ new.state \in {"waiting", "failed", "completed"}
                       /\ new.state = "completed" => workers[w].pc = "finish"
<1> DEFINE job == jobs[JobOf(w)]
<1>1. JobOf(w) \in Jobs /\ job \in Job  BY Busy DEF RInv
<1>2. CASE job.holder = w
  <2>1. job.state = "active"  BY <1>1, <1>2, NoneAssumption DEF RInv, HeldInv
  <2>2. CASE jobs' = Failed(w)
    <3>1. jobs' = [jobs EXCEPT ![JobOf(w)] = AfterFailure(job)]  BY <1>2, <2>2 DEF Failed
    <3>2. /\ AfterFailure(job).biz = job.biz /\ AfterFailure(job).photo = job.photo
          /\ AfterFailure(job).holder = None /\ AfterFailure(job).state \in {"waiting", "failed"}
      BY <1>1 DEF AfterFailure, Released, Job
    <3>3. QED  BY <2>1, <3>1, <3>2
  <2>3. CASE jobs' = Completed(w) /\ workers[w].pc = "finish"
    <3>1. jobs' = [jobs EXCEPT ![JobOf(w)] = Released(job, "completed")]
      BY <1>2, <2>3 DEF Completed
    <3>2. LET new == Released(job, "completed") IN
             /\ new.biz = job.biz /\ new.photo = job.photo
             /\ new.holder = None /\ new.state = "completed"
      BY <1>1 DEF Released, Job
    <3>3. QED  BY <2>1, <2>3, <3>1, <3>2
  <2>4. QED  BY <2>2, <2>3
<1>3. CASE job.holder # w  BY <1>3 DEF Failed, Completed
<1>4. QED  BY <1>2, <1>3

LEMMA InitHeld == Init => HeldInv
<1> SUFFICES ASSUME Init, NEW j \in Jobs
             PROVE  /\ jobs[j].holder = None
                    /\ jobs[j].state # "resolved"
  BY DEF HeldInv
<1>1. jobs[j] \in {NoJob} \cup {LegacyJob(p, u) : p \in Photos, u \in Users}
  BY DEF Init
<1>2. CASE jobs[j] = NoJob  BY <1>2 DEF NoJob
<1>3. ASSUME NEW p \in Photos, NEW u \in Users, jobs[j] = LegacyJob(p, u)
      PROVE  jobs[j].holder = None /\ jobs[j].state # "resolved"
  BY <1>3 DEF LegacyJob, NoJob
<1>4. QED  BY <1>1, <1>2, <1>3

\* A slot leaves the queue alone, or settles its job.
LEMMA SlotSettles ==
    ASSUME NEW w \in Workers, ProcessStep(w) \/ DatabaseError(w)
    PROVE  \/ UNCHANGED jobs
           \/ /\ workers[w].pc # "idle"
              /\ jobs' = Failed(w) \/ (jobs' = Completed(w) /\ workers[w].pc = "finish")
<1>1. CASE Finish(w)  BY <1>1 DEF Finish
<1>2. CASE RejectTimestamp(w) \/ SaveConflict(w) \/ DatabaseError(w)
  <2>1. workers[w].pc # "idle"  BY <1>2 DEF RejectTimestamp, SaveConflict, DatabaseError
  <2>2. Throws(w)  BY <1>2 DEF RejectTimestamp, SaveConflict, DatabaseError
  <2>3. jobs' = Failed(w)  BY <2>2 DEF Throws
  <2>4. QED  BY <2>1, <2>3
<1>3. CASE LookupLegacy(w) \/ ReadFails(w) \/ ReadImage(w) \/ CheckDuplicate(w)
  BY <1>3 DEF LookupLegacy, ReadFails, ReadImage, CheckDuplicate
<1>4. CASE Create(w) \/ CreateConflict(w) \/ FindExisting(w) \/ SaveRepair(w)
  BY <1>4 DEF Create, CreateConflict, FindExisting, SaveRepair
<1>5. QED  BY <1>1, <1>2, <1>3, <1>4 DEF ProcessStep

\* A job that its slot or the stalled check settles keeps HeldInv.
LEMMA Settled ==
    ASSUME HeldInv, jobs \in [Jobs -> Job], NEW j \in Jobs, NEW new,
           jobs' = [jobs EXCEPT ![j] = new], new.holder = None, new.state # "resolved"
    PROVE  HeldInv'
BY DEF HeldInv

LEMMA StepHeld == ASSUME RInv, [Next]_vars PROVE HeldInv'
<1>1. HeldInv /\ jobs \in [Jobs -> Job]  BY DEF RInv, Inv, TypeOK
<1>2. CASE UNCHANGED jobs  BY <1>1, <1>2 DEF HeldInv
<1>3. ASSUME NEW j \in Jobs, NEW u \in Users, NEW p \in Photos, Receive(j, u, p) PROVE HeldInv'
  <2>1. member[u] \in Businesses  BY <1>3 DEF Receive
  <2>2. jobs[j].holder = None  BY <1>1, <1>3 DEF Receive, HeldInv
  <2>3. QED  BY <1>1, <1>3, <2>1, <2>2 DEF Receive, HeldInv, Job
<1>4. ASSUME NEW j \in Jobs, Enqueue(j) PROVE HeldInv'
  BY <1>1, <1>4 DEF Enqueue, HeldInv, Job
<1>5. ASSUME NEW w \in Workers, NEW j \in Jobs, Take(w, j) PROVE HeldInv'
  BY <1>1, <1>5 DEF Take, HeldInv, Job
<1>6. ASSUME NEW w \in Workers, workers[w].pc # "idle",
             jobs' = Failed(w) \/ (jobs' = Completed(w) /\ workers[w].pc = "finish")
      PROVE  HeldInv'
  <2>1. JobOf(w) \in Jobs  BY <1>6, Busy DEF RInv
  <2>2. QED  BY <1>1, <1>2, <1>6, <2>1, SettledBy, Settled
<1>7. ASSUME NEW w \in Workers, ProcessStep(w) \/ DatabaseError(w) PROVE HeldInv'
  BY <1>2, <1>6, <1>7, SlotSettles
<1>8. ASSUME NEW j \in Jobs, LoseLock(j) \/ RecoverStalled(j) PROVE HeldInv'
  <2>1. jobs' = [jobs EXCEPT ![j] = AfterStall(jobs[j])]  BY <1>8 DEF LoseLock, RecoverStalled
  <2>2. AfterStall(jobs[j]).holder = None /\ AfterStall(jobs[j]).state # "resolved"
    BY <1>1 DEF AfterStall, Released, Job
  <2>3. QED  BY <1>1, <2>1, <2>2, Settled
<1>9. CASE Crash  BY <1>1, <1>9 DEF Crash, HeldInv, NoJob, Job
<1>10. QED
  BY <1>2, <1>3, <1>4, <1>5, <1>7, <1>8, <1>9
  DEF Next, SomeAccepts, SomeWorks, SomeStalls, SomeEdits, SomeMoves, vars,
      DeleteCheck, Edit, DeleteRow, DeleteImage, Depart, Join, Suspend

\* Locks and acceptances stay as the mapping needs them, next to the invariant of the pipeline.
THEOREM Held == Spec => []RInv
<1>1. Init => RInv  BY InitInv, InitHeld DEF RInv
<1>2. RInv /\ [Next]_vars => RInv'  BY StepInv, StepHeld DEF RInv
<1>3. QED  BY <1>1, <1>2, PTL DEF Spec

-----------------------------------------------------------------------------
(* Every step of the pipeline is a step of the ledger, or none. *)

LEMMA InitLedger == Init => Ledger!Init
<1> SUFFICES ASSUME Init PROVE Ledger!Init
  OBVIOUS
<1>1. \A j \in Jobs : Standing[j] \in {Ledger!Unsent} \cup {Ledger!Accepted(None, p) : p \in Photos}
  <2> SUFFICES ASSUME NEW j \in Jobs
               PROVE  ReceiptOf(jobs[j]) \in
                        {Ledger!Unsent} \cup {Ledger!Accepted(None, p) : p \in Photos}
    BY DEF Standing
  <2>1. jobs[j] \in {NoJob} \cup {LegacyJob(p, u) : p \in Photos, u \in Users}
    BY DEF Init
  <2>2. CASE jobs[j] = NoJob  BY <2>2 DEF NoJob, ReceiptOf, Ledger!Unsent
  <2>3. ASSUME NEW p \in Photos, NEW u \in Users, jobs[j] = LegacyJob(p, u)
        PROVE  ReceiptOf(jobs[j]) = Ledger!Accepted(None, p)
    BY <2>3 DEF LegacyJob, NoJob, ReceiptOf, Fate, Ledger!Accepted
  <2>4. QED  BY <2>1, <2>2, <2>3
<1>2. Standing \in [Jobs -> {Ledger!Unsent} \cup {Ledger!Accepted(None, p) : p \in Photos}]
  BY <1>1 DEF Standing
<1>3. Entries = [k \in Ledger!LedgerKeys |-> "absent"]
  BY DEF Init, Entries, LedgerEntry, Keys, Ledger!LedgerKeys
<1>4. Stored = {}  BY DEF Init, Stored
<1>5. QED  BY <1>2, <1>3, <1>4 DEF Ledger!Init

\* The handler acknowledges: the Receipt is accepted.
LEMMA Acknowledged == ASSUME RInv, NEW j \in Jobs, Enqueue(j) PROVE LedgerStep
<1> DEFINE b == jobs[j].biz
           p == jobs[j].photo
<1>1. jobs \in [Jobs -> Job] /\ jobs[j].state = "resolved"  BY DEF RInv, Inv, TypeOK, Enqueue
<1>2. b \in Businesses /\ p \in Photos  BY <1>1 DEF RInv, HeldInv, Inv, JobsInv
<1>3. Standing[j] = Ledger!Unsent  BY <1>1 DEF Standing, ReceiptOf, Ledger!Unsent
<1>4. jobs' = [jobs EXCEPT ![j] = [jobs[j] EXCEPT !.state = "waiting"]]  BY DEF Enqueue
<1>5. ReceiptOf(jobs'[j]) = Ledger!Accepted(b, p)
  BY <1>1, <1>4 DEF ReceiptOf, Fate, Job, Ledger!Accepted
<1>6. \A i \in Jobs \ {j} : jobs'[i] = jobs[i]  BY <1>1, <1>4
<1>7. Standing' = [Standing EXCEPT ![j] = Ledger!Accepted(b, p)]
  BY <1>5, <1>6, StandingNext DEF Standing
<1>8. Entries' = Entries /\ Stored' = Stored  BY EntriesNext DEF Enqueue, Entries, Stored
<1>9. Ledger!Accept(j, b, p)  BY <1>3, <1>7, <1>8 DEF Ledger!Accept
<1>10. QED  BY <1>2, <1>9 DEF LedgerStep, Ledger!Next

\* A row is deleted.
LEMMA Removing == ASSUME RInv, DeleteRow PROVE LedgerStep
<1> DEFINE k == deletion.key
           present == rows[k] # None /\ rows[k].id = deletion.id
<1>1. UNCHANGED jobs /\ past' = past  BY DEF DeleteRow
<1>2. CASE ~present
  <2>1. rows' = rows  BY <1>2 DEF DeleteRow
  <2>2. QED  BY <1>1, <2>1, Quiet
<1>3. CASE present
  <2>1. rows' = [rows EXCEPT ![k] = None] /\ rows \in [Keys -> Row \cup {None}]
    BY <1>3 DEF DeleteRow, RInv, Inv, TypeOK
  <2>2. CASE k \notin Keys
    <3>1. rows' = rows  BY <2>1, <2>2
    <3>2. QED  BY <1>1, <3>1, Quiet
  <2>3. CASE k \in Keys
    <3>1. Entries' = [Entries EXCEPT ![k] = "absent"]
      BY <2>1, <2>3, EntriesNext DEF Entries, LedgerEntry
    <3>2. Entries[k] # "absent"
      BY <1>3, <2>1, <2>3 DEF Entries, LedgerEntry, Row
    <3>3. Standing' = Standing /\ Stored' = Stored  BY <1>1, StandingNext DEF Standing, Stored
    <3>4. Ledger!Remove(k)  BY <3>1, <3>2, <3>3 DEF Ledger!Remove
    <3>5. QED  BY <2>3, <3>4 DEF LedgerStep, Ledger!Next, Keys, Ledger!LedgerKeys
  <2>4. QED  BY <2>2, <2>3
<1>4. QED  BY <1>2, <1>3

\* The steps of the slots.
LEMMA Working ==
    ASSUME RInv, NEW w \in Workers, ProcessStep(w) \/ DatabaseError(w)
    PROVE  LedgerStep
<1>1. CASE Create(w)
  <2>1. workers[w].pc = "create" /\ NewRow(w) \in Row /\ Store(w, NewRow(w)) /\ UNCHANGED jobs
    BY <1>1, NewRowType DEF Create, RInv
  <2>2. QED  BY <2>1, Recording
<1>2. CASE SaveRepair(w)
  <2>1. workers[w].pc = "repair" /\ Repaired(w) \in Row /\ Store(w, Repaired(w)) /\ UNCHANGED jobs
    BY <1>2, RepairedType DEF SaveRepair, RInv
  <2>2. QED  BY <2>1, Recording
<1>3. ASSUME ~Create(w), ~SaveRepair(w) PROVE LedgerStep
  <2>1. UNCHANGED rows /\ past' = past
    <3>1. CASE Finish(w) \/ RejectTimestamp(w) \/ SaveConflict(w) \/ DatabaseError(w)
      BY <3>1 DEF Finish, RejectTimestamp, SaveConflict, DatabaseError, Throws
    <3>2. CASE LookupLegacy(w) \/ ReadFails(w) \/ ReadImage(w) \/ CheckDuplicate(w)
      BY <3>2 DEF LookupLegacy, ReadFails, ReadImage, CheckDuplicate
    <3>3. CASE CreateConflict(w) \/ FindExisting(w)
      BY <3>3 DEF CreateConflict, FindExisting
    <3>4. QED  BY <1>3, <3>1, <3>2, <3>3 DEF ProcessStep
  <2>2. CASE UNCHANGED jobs  BY <2>1, <2>2, Quiet
  <2>3. ASSUME workers[w].pc # "idle", ~UNCHANGED jobs,
               jobs' = Failed(w) \/ (jobs' = Completed(w) /\ workers[w].pc = "finish")
        PROVE  LedgerStep
    <3> DEFINE j == JobOf(w)
    <3>1. PICK new : /\ jobs[j].state = "active"
                     /\ jobs' = [jobs EXCEPT ![j] = new]
                     /\ new.biz = jobs[j].biz /\ new.photo = jobs[j].photo
                     /\ new.holder = None
                     /\ new.state \in {"waiting", "failed", "completed"}
                     /\ new.state = "completed" => workers[w].pc = "finish"
      BY <2>3, SettledBy
    <3>2. j \in Jobs /\ jobs \in [Jobs -> Job] /\ jobs[j].photo \in Photos
      BY <2>3, Busy DEF RInv, Inv, TypeOK, PhotoOf
    <3>3. new.state = "completed" /\ jobs[j].biz # None =>
            <<jobs[j].biz, jobs[j].photo>> \in past.stored
      BY <3>1 DEF RInv, Inv, WorkerInv, JobOf
    <3> HIDE DEF j
    <3>4. QED  BY <2>1, <3>1, <3>2, <3>3, Settling
  <2>4. QED  BY <2>2, <2>3, SlotSettles
<1>4. QED  BY <1>1, <1>2, <1>3

\* A lost lock or a stall puts the job back, or is one too many.
LEMMA Stalling == ASSUME RInv, NEW j \in Jobs, LoseLock(j) \/ RecoverStalled(j) PROVE LedgerStep
<1> DEFINE new == AfterStall(jobs[j])
<1>1. /\ jobs' = [jobs EXCEPT ![j] = new] /\ jobs[j].state = "active"
      /\ UNCHANGED rows /\ past' = past
  BY DEF LoseLock, RecoverStalled
<1>2. jobs \in [Jobs -> Job] /\ jobs[j].photo \in Photos
  BY <1>1 DEF RInv, Inv, TypeOK, JobsInv
<1>3. /\ new.state \in {"waiting", "failed"}
      /\ new.photo = jobs[j].photo /\ new.biz = jobs[j].biz
  BY <1>2 DEF AfterStall, Released, Job
<1> HIDE DEF new
<1>4. QED  BY <1>1, <1>2, <1>3, Settling

\* An edit changes what a row holds, not that it is there nor how it counts.
LEMMA Editing == ASSUME RInv, NEW k \in Keys, NEW pay \in Payments, Edit(k, pay) PROVE LedgerStep
<1>1. rows \in [Keys -> Row \cup {None}] /\ rows[k] # None  BY DEF RInv, Inv, TypeOK, Edit
<1>2. rows' = [rows EXCEPT ![k] = [rows[k] EXCEPT !.pay = pay, !.bank = TRUE]]  BY DEF Edit
<1>3. rows'[k].status = rows[k].status /\ rows'[k] \in Row  BY <1>1, <1>2 DEF Row
<1>4. \A l \in Keys : LedgerEntry(rows'[l]) = LedgerEntry(rows[l])
  BY <1>1, <1>2, <1>3, RowAssumption DEF LedgerEntry
<1>5. past'.stored = past.stored  BY DEF Edit, RInv, Inv, TypeOK
<1>6. UNCHANGED jobs  BY DEF Edit
<1>7. QED  BY <1>4, <1>5, <1>6, Quiet

LEMMA Stopping == ASSUME RInv, Crash PROVE LedgerStep
<1>1. jobs \in [Jobs -> Job]  BY DEF RInv, Inv, TypeOK
<1>2. \A j \in Jobs : ReceiptOf(jobs'[j]) = ReceiptOf(jobs[j])
  BY <1>1 DEF Crash, ReceiptOf, NoJob, Job
<1>3. UNCHANGED rows /\ past' = past  BY DEF Crash
<1>4. QED  BY <1>2, <1>3, Quiet

LEMMA StepLedger == ASSUME RInv, [Next]_vars PROVE LedgerStep
<1>1. jobs \in [Jobs -> Job]  BY DEF RInv, Inv, TypeOK
<1>2. CASE UNCHANGED vars  BY <1>2, Quiet DEF vars
<1>3. ASSUME NEW j \in Jobs, NEW u \in Users, NEW p \in Photos, Receive(j, u, p) PROVE LedgerStep
  <2>1. \A i \in Jobs : ReceiptOf(jobs'[i]) = ReceiptOf(jobs[i])
    BY <1>1, <1>3 DEF Receive, ReceiptOf, Job
  <2>2. UNCHANGED rows /\ past' = past  BY <1>3 DEF Receive
  <2>3. QED  BY <2>1, <2>2, Quiet
<1>4. ASSUME NEW w \in Workers, NEW j \in Jobs, Take(w, j) PROVE LedgerStep
  <2>1. \A i \in Jobs : ReceiptOf(jobs'[i]) = ReceiptOf(jobs[i])
    BY <1>1, <1>4 DEF Take, ReceiptOf, Fate, Job
  <2>2. UNCHANGED rows /\ past' = past  BY <1>4 DEF Take
  <2>3. QED  BY <2>1, <2>2, Quiet
<1>5. CASE (\E k \in Keys : DeleteCheck(k)) \/ DeleteImage
  BY <1>5, Quiet DEF DeleteCheck, DeleteImage
<1>6. CASE SomeMoves
  <2>1. UNCHANGED <<jobs, rows>> /\ past'.stored = past.stored
    BY <1>6 DEF SomeMoves, Depart, Join, Suspend, RInv, Inv, TypeOK, History
  <2>2. QED  BY <2>1, Quiet
<1>7. QED
  BY <1>2, <1>3, <1>4, <1>5, <1>6, Acknowledged, Working, Stalling, Stopping, Editing, Removing
  DEF Next, SomeAccepts, SomeWorks, SomeStalls, SomeEdits

\* The pipeline keeps the promises of the ledger: every acknowledged receipt ends as
\* recorded or, its attempts used up, as lost, never as silently dropped; nothing is
\* recorded that nobody sent; each photo has at most one Transaction per Business.
THEOREM LedgerImplemented == Spec => ImplementsLedger
<1>1. RInv /\ [Next]_vars => [Ledger!Next]_(Ledger!lvars)  BY StepLedger DEF LedgerStep
<1>2. QED  BY <1>1, InitLedger, Held, PTL DEF Spec, ImplementsLedger, Ledger!Spec
============================================================================
