-------------------------- MODULE ReceiptPipeline --------------------------
(***************************************************************************)
(* The path of a Receipt through the backend: a photo accepted by the bot  *)
(* becomes a BullMQ job, one of the concurrent worker slots reads the image *)
(* and stores a Transaction, and meanwhile people edit and delete          *)
(* Transactions and change Business.                                       *)
(*                                                                         *)
(* One action is one atomic step of the Node process: the code between two *)
(* awaits on the database, the queue or the object store.                  *)
(***************************************************************************)
EXTENDS Naturals, FiniteSets

CONSTANTS
    Users,          \* Telegram accounts with a users row
    Businesses,     \* tenants
    Photos,         \* Telegram file_unique_ids
    Payments,       \* (amount, transactionId, timestamp) triples shown on receipts
    Readable,       \* Readable[p]: the payments the VLM may read from photo p
    Jobs,           \* identities of the jobs on the queue: one per delivered photo update
    LegacyJobs,     \* jobs queued by a release whose payload had no businessId/userId
    Workers,        \* concurrent slots of the BullMQ worker
    MaxAttempts,    \* DEFAULT_JOB_OPTIONS.attempts
    MaxStalls,      \* BullMQ's maxStalledCount
    BadTimestamps,  \* may the VLM answer with a timestamp string that is no date?
    None,           \* a nullable column or field that is null, an idle slot
    Unstorable,     \* a payment whose timestamp is no date: the driver rejects it
    Resends,        \* bound: may the same photo reach the bot more than once?
    MaxErrors,      \* bound: failed database calls
    MaxOutages,     \* bound: crashes of the process and lost job locks
    MaxMoves,       \* bound: changes of membership and Business status
    MaxEdits,       \* bound: edits in the Mini App
    MaxDeletes,     \* bound: deletions in the Mini App
    MaxTogether     \* bound: all of these together

ASSUME JobsAssumption == LegacyJobs \subseteq Jobs
ASSUME NoneAssumption == None \notin Users \cup Businesses \cup Photos \cup Payments \cup Workers
ASSUME UnstorableAssumption == Unstorable \notin Payments \cup {None}
ASSUME AttemptsAssumption == MaxAttempts \in Nat \ {0} /\ MaxStalls \in Nat
ASSUME BoundsAssumption == {MaxErrors, MaxOutages, MaxMoves, MaxEdits, MaxDeletes,
                            MaxTogether} \subseteq Nat
ASSUME ReadableAssumption == Readable \in [Photos -> SUBSET Payments]
ASSUME SwitchesAssumption == BadTimestamps \in BOOLEAN /\ Resends \in BOOLEAN

VARIABLES
    member,     \* member[u]: the Business u is an active member of, or None
    suspended,  \* the Businesses that are not active
    jobs,       \* the queue, with its finished jobs
    workers,    \* what each slot is doing
    rows,       \* the transactions table, by its unique index (businessId, fileUniqueId)
    objects,    \* the keys present in the object store
    edited,     \* edited[b, p]: the newest payment the EditLog records for that row
    deletion,   \* the DELETE /transactions/:id request in progress
    past,       \* history: memberships held, receipts and payments stored, receipts
                \* checked too early to see one stored, rows that a deletion did not keep away
    spent       \* how much of each bound is used up

vars == <<member, suspended, jobs, workers, rows, objects, edited, deletion, past, spent>>

-----------------------------------------------------------------------------
(* Data *)

Deliveries == Jobs \X Nat       \* a job and which of its starts: names what that start creates
Keys == Businesses \X Photos    \* idx_transaction_idempotency

JobStates == {"unused", "resolved", "waiting", "active", "completed", "failed"}
Job == [state: JobStates, photo: Photos \cup {None}, sender: Users \cup {None},
        biz: Businesses \cup {None}, holder: Workers \cup {None},
        starts: Nat, failures: Nat, stalls: Nat]

Row == [id: Deliveries, user: Users, status: {"recorded", "needs_review"},
        pay: Payments \cup {None}, bank: BOOLEAN, dup: BOOLEAN,
        image: Deliveries \cup {None}, editedByUploader: BOOLEAN]
ASSUME RowAssumption == None \notin Row

Stages == {"idle", "lookup", "read", "check", "create", "find", "repair", "finish"}
Worker == [pc: Stages, delivery: Deliveries \cup {None}, biz: Businesses \cup {None},
           pay: Payments \cup {None, Unstorable}, bank: BOOLEAN, dup: BOOLEAN,
           image: Deliveries \cup {None}, seen: Row \cup {None}]

Deletion == [pc: {"idle", "checked", "removed"}, key: Keys \cup {None},
             id: Deliveries \cup {None}, image: Deliveries \cup {None}]

History == [memberships: SUBSET (Users \X Businesses), stored: SUBSET Keys,
            pays: SUBSET (Businesses \X (Payments \cup {None})),
            overlap: SUBSET (Keys \X Keys), returned: SUBSET Deliveries]

Kinds == {"errors", "outages", "moves", "edits", "deletes"}
Bound(what) == CASE what = "errors" -> MaxErrors [] what = "outages" -> MaxOutages
                 [] what = "moves" -> MaxMoves [] what = "edits" -> MaxEdits
                 [] what = "deletes" -> MaxDeletes

NoJob == [state |-> "unused", photo |-> None, sender |-> None, biz |-> None,
          holder |-> None, starts |-> 0, failures |-> 0, stalls |-> 0]
IdleWorker == [pc |-> "idle", delivery |-> None, biz |-> None, pay |-> None,
               bank |-> FALSE, dup |-> FALSE, image |-> None, seen |-> None]
NoDeletion == [pc |-> "idle", key |-> None, id |-> None, image |-> None]

Spent == spent["errors"] + spent["outages"] + spent["moves"] + spent["edits"] + spent["deletes"]
Spend(what) == /\ spent[what] < Bound(what)
               /\ Spent < MaxTogether
               /\ spent' = [spent EXCEPT ![what] = @ + 1]

\* A slot that has only its outcome left to report.
Ended(w) ==
    [workers EXCEPT ![w] = [IdleWorker EXCEPT !.pc = "finish", !.delivery = workers[w].delivery]]

\* The job, photo, sender and table key a busy slot works on.
JobOf(w) == workers[w].delivery[1]
PhotoOf(w) == jobs[JobOf(w)].photo
KeyOf(w) == <<workers[w].biz, PhotoOf(w)>>

\* isComplete: every one of amount, transactionId, timestamp and bankName was read.
TripleRead(w) == workers[w].pay # None      \* mutant: the bank name is forgotten
IsComplete(w) == workers[w].pay # None /\ workers[w].bank
ThirdStatus(w) == "processing"              \* mutant: a status outside the enum
StatusOf(w) == IF IsComplete(w) THEN "recorded" ELSE "needs_review"

\* A job the old release left on the queue: photo and sender, no Business.
LegacyJob(p, u) == [NoJob EXCEPT !.state = "waiting", !.photo = p, !.sender = u]

Init ==
    /\ member \in [Users -> Businesses]
    /\ suspended = {}
    /\ jobs \in [Jobs -> {NoJob} \cup {LegacyJob(p, u) : p \in Photos, u \in Users}]
    /\ \A j \in Jobs : jobs[j].state = "waiting" <=> j \in LegacyJobs
    /\ workers = [w \in Workers |-> IdleWorker]
    /\ rows = [k \in Keys |-> None]
    /\ objects = {}
    /\ edited = [k \in Keys |-> None]
    /\ deletion = NoDeletion
    /\ past = [memberships |-> {<<u, member[u]>> : u \in Users}, stored |-> {}, pays |-> {},
               overlap |-> {}, returned |-> {}]
    /\ spent = [what \in Kinds |-> 0]

-----------------------------------------------------------------------------
(* The bot accepts a photo *)

\* A photo update reaches the bot; the identity middleware resolves the sender.
\* Sending the photo again, editing its caption or a webhook redelivery is the
\* same step for another job: nothing deduplicates updates.
Receive(j, u, p) ==
    /\ jobs[j].state = "unused"
    /\ member[u] \in Businesses \ suspended
    /\ Resends \/ \A i \in Jobs : jobs[i].photo # p
    /\ jobs' = [jobs EXCEPT ![j] = [@ EXCEPT !.state = "resolved", !.photo = p,
                                            !.sender = u, !.biz = member[u]]]
    /\ UNCHANGED <<member, suspended, workers, rows, objects, edited, deletion, past, spent>>

\* The handler enqueues the job with the identity it resolved, then acknowledges.
Enqueue(j) ==
    /\ jobs[j].state = "resolved"
    /\ jobs' = [jobs EXCEPT ![j].state = "waiting"]
    /\ UNCHANGED <<member, suspended, workers, rows, objects, edited, deletion, past, spent>>

-----------------------------------------------------------------------------
(* Queue mechanics *)

\* A payload with identity is used as it is.
AlwaysLookup(j) == "lookup"                 \* mutant: membership of now, for every job
FirstStage(j) == IF jobs[j].biz = None THEN "lookup" ELSE "read"

Take(w, j) ==
    /\ workers[w].pc = "idle"
    /\ jobs[j].state = "waiting"
    /\ jobs' = [jobs EXCEPT ![j] = [@ EXCEPT !.state = "active", !.holder = w,
                                            !.starts = jobs[j].starts + 1]]
    /\ workers' = [workers EXCEPT ![w] = [IdleWorker EXCEPT
                     !.pc = FirstStage(j),
                     !.delivery = <<j, jobs[j].starts + 1>>,
                     !.biz = jobs[j].biz]]
    /\ UNCHANGED <<member, suspended, rows, objects, edited, deletion, past, spent>>

\* A job leaves the slot that held its lock.
Released(job, state) == [job EXCEPT !.state = state, !.holder = None]

\* A settled result only counts for the slot that still holds the job's lock.
Completed(w) ==
    IF jobs[JobOf(w)].holder = w
      THEN [jobs EXCEPT ![JobOf(w)] = Released(@, "completed")]
      ELSE jobs

\* Mutant: one attempt too few.
OneAttemptLess(job) ==
    [Released(job, IF job.failures + 2 < MaxAttempts THEN "waiting" ELSE "failed")
       EXCEPT !.failures = @ + 1]
AfterFailure(job) ==
    [Released(job, IF job.failures + 1 < MaxAttempts THEN "waiting" ELSE "failed")
       EXCEPT !.failures = @ + 1]

Failed(w) ==
    IF jobs[JobOf(w)].holder = w
      THEN [jobs EXCEPT ![JobOf(w)] = AfterFailure(@)]
      ELSE jobs

NoSecondChance(job) == [Released(job, "failed") EXCEPT !.stalls = @ + 1]   \* mutant
AfterStall(job) ==
    [Released(job, IF job.stalls < MaxStalls THEN "waiting" ELSE "failed")
       EXCEPT !.stalls = @ + 1]

Finish(w) ==
    /\ workers[w].pc = "finish"
    /\ jobs' = Completed(w)
    /\ workers' = [workers EXCEPT ![w] = IdleWorker]
    /\ UNCHANGED <<member, suspended, rows, objects, edited, deletion, past, spent>>

\* processImageJob throws: BullMQ retries the job until its attempts are used up.
Throws(w) ==
    /\ jobs' = Failed(w)
    /\ workers' = [workers EXCEPT ![w] = IdleWorker]
    /\ UNCHANGED <<member, suspended, rows, objects, edited, deletion, past>>

\* A query fails outside the try block of the reading stages.
DatabaseError(w) ==
    /\ workers[w].pc \in {"lookup", "check", "create", "find", "repair"}
    /\ Spend("errors")
    /\ Throws(w)

\* The slot loses the lock of a job it is still working on (a blocked event
\* loop, Redis out of reach): the job is handed out again, the slot carries on.
LoseLock(j) ==
    /\ jobs[j].state = "active"
    /\ jobs[j].holder # None
    /\ Spend("outages")
    /\ jobs' = [jobs EXCEPT ![j] = AfterStall(@)]
    /\ UNCHANGED <<member, suspended, workers, rows, objects, edited, deletion, past>>

\* The process dies: running jobs and photo handlers vanish, the queue and the
\* tables stay.
Crash ==
    /\ Spend("outages")
    /\ workers' = [w \in Workers |-> IdleWorker]
    /\ jobs' = [j \in Jobs |-> IF jobs[j].state = "resolved" THEN NoJob
                               ELSE [jobs[j] EXCEPT !.holder = None]]
    /\ deletion' = NoDeletion
    /\ UNCHANGED <<member, suspended, rows, objects, edited, past>>

\* The stalled-job check of a running worker finds an active job nobody holds.
RecoverStalled(j) ==
    /\ jobs[j].state = "active"
    /\ jobs[j].holder = None
    /\ jobs' = [jobs EXCEPT ![j] = AfterStall(@)]
    /\ UNCHANGED <<member, suspended, workers, rows, objects, edited, deletion, past, spent>>

-----------------------------------------------------------------------------
(* processImageJob *)

\* A payload without identity falls back on the sender's membership of now;
\* without one the job is skipped.
LookupLegacy(w) ==
    /\ workers[w].pc = "lookup"
    /\ workers' = [workers EXCEPT ![w] = [@ EXCEPT
                     !.biz = member[jobs[JobOf(w)].sender],
                     !.pc = IF member[jobs[JobOf(w)].sender] = None THEN "finish" ELSE "read"]]
    /\ UNCHANGED <<member, suspended, jobs, rows, objects, edited, deletion, past, spent>>

\* What the VLM may return for a photo, after normalisation.
Readings(p) ==
    [pay: Readable[p] \cup {None}, bank: BOOLEAN]
      \cup (IF BadTimestamps THEN [pay: {Unstorable}, bank: BOOLEAN] ELSE {})

NothingRead == [pay |-> None, bank |-> FALSE]

\* The object key is a fresh UUID per upload.
SharedKey(w) == <<CHOOSE j \in Jobs : TRUE, 0>>    \* mutant: one object for all uploads
ImageKey(w) == workers[w].delivery

\* Only a complete reading is compared with the Business's Transactions.
SkipsCheck(r) == "create"                   \* mutant
DropsUnread(r) == IF r.pay # None /\ r.bank THEN "check" ELSE "finish"     \* mutant
AfterReading(r) == IF r.pay # None /\ r.bank THEN "check" ELSE "create"

\* getFile, download or upload failed: the error is logged, every field stays null.
ReadFails(w) ==
    /\ workers[w].pc = "read"
    /\ workers' = [workers EXCEPT ![w].pc = "create"]
    /\ UNCHANGED <<member, suspended, jobs, rows, objects, edited, deletion, past, spent>>

\* The image is stored; the VLM then answers, or fails and leaves every field null.
ReadImage(w) ==
    /\ workers[w].pc = "read"
    /\ objects' = objects \cup {ImageKey(w)}
    /\ \E r \in Readings(PhotoOf(w)) \cup {NothingRead} :
         workers' = [workers EXCEPT ![w] = [@ EXCEPT
                      !.image = ImageKey(w), !.pay = r.pay, !.bank = r.bank,
                      !.pc = AfterReading(r)]]
    /\ UNCHANGED <<member, suspended, jobs, rows, edited, deletion, past, spent>>

\* findDuplicate: some Transaction of that Business with the same triple.
AnyTenant(b, pay) == \E k \in Keys : rows[k] # None /\ rows[k].pay = pay    \* mutant
SamePayment(b, pay) == \E p \in Photos : rows[<<b, p>>] # None /\ rows[<<b, p>>].pay = pay

CheckDuplicate(w) ==
    /\ workers[w].pc = "check"
    /\ workers[w].pay # Unstorable
    /\ workers' = [workers EXCEPT ![w] = [@ EXCEPT
                     !.dup = SamePayment(workers[w].biz, workers[w].pay), !.pc = "create"]]
    /\ UNCHANGED <<member, suspended, jobs, rows, objects, edited, deletion, past, spent>>

\* A date that is none cannot be bound to a query: every statement with it fails.
RejectTimestamp(w) ==
    /\ workers[w].pc \in {"check", "create"}
    /\ workers[w].pay = Unstorable
    /\ Throws(w)
    /\ UNCHANGED spent

\* The other receipts of payment pay whose duplicate check is behind them already.
Overlapping(w, pay) ==
    {KeyOf(v) : v \in {v \in Workers \ {w} : /\ workers[v].pc \in {"create", "find", "repair"}
                                            /\ workers[v].pay = pay /\ pay # None}}

\* The row that slot w brings back: one deleted since its repair read it.
Returning(w) ==
    IF workers[w].pc = "repair" /\ rows[KeyOf(w)] = None THEN {workers[w].seen.id} ELSE {}

\* Slot w stores row r, which the history notes.
Store(w, r) ==
    LET k == KeyOf(w) IN
    /\ rows' = [rows EXCEPT ![k] = r]
    /\ past' = [past EXCEPT
                  !.stored = @ \cup {k}, !.pays = @ \cup {<<k[1], r.pay>>},
                  !.overlap = (@ \ ({k} \X Keys)) \cup ({k} \X Overlapping(w, r.pay)),
                  !.returned = @ \cup Returning(w)]

NewRow(w) ==
    [id |-> workers[w].delivery, user |-> jobs[JobOf(w)].sender, status |-> StatusOf(w),
     pay |-> workers[w].pay, bank |-> workers[w].bank, dup |-> workers[w].dup,
     image |-> workers[w].image, editedByUploader |-> FALSE]

Create(w) ==
    /\ workers[w].pc = "create"
    /\ workers[w].pay # Unstorable
    /\ rows[KeyOf(w)] = None
    /\ Store(w, NewRow(w))
    /\ workers' = Ended(w)
    /\ UNCHANGED <<member, suspended, jobs, objects, edited, deletion, spent>>

\* The insert hits the unique index: 'duplicate key', caught, on to the repair.
CreateConflict(w) ==
    /\ workers[w].pc = "create"
    /\ workers[w].pay # Unstorable
    /\ rows[KeyOf(w)] # None
    /\ workers' = [workers EXCEPT ![w].pc = "find"]
    /\ UNCHANGED <<member, suspended, jobs, rows, objects, edited, deletion, past, spent>>

\* repairIdempotentRedelivery reads the row; a row that is gone, or one flagged
\* as edited by its uploader, is left as it is.
FindExisting(w) ==
    /\ workers[w].pc = "find"
    /\ LET row == rows[KeyOf(w)] IN
         workers' = IF row = None \/ row.editedByUploader
                      THEN Ended(w)
                      ELSE [workers EXCEPT ![w] = [@ EXCEPT !.pc = "repair", !.seen = row]]
    /\ UNCHANGED <<member, suspended, jobs, rows, objects, edited, deletion, past, spent>>

\* The row read before, overlaid with what this delivery read.
Repaired(w) ==
    [workers[w].seen EXCEPT
        !.user = jobs[JobOf(w)].sender,
        !.pay = IF workers[w].pay # None THEN workers[w].pay ELSE @,
        !.bank = @ \/ workers[w].bank,
        !.dup = workers[w].dup,
        !.image = IF workers[w].image # None THEN workers[w].image ELSE @,
        !.status = StatusOf(w)]

\* save() updates the row by id, and inserts it again when it was deleted since.
SaveRepair(w) ==
    /\ workers[w].pc = "repair"
    /\ rows[KeyOf(w)] # None => rows[KeyOf(w)].id = workers[w].seen.id
    /\ Store(w, Repaired(w))
    /\ workers' = Ended(w)
    /\ UNCHANGED <<member, suspended, jobs, objects, edited, deletion, spent>>

\* The row was deleted and another delivery inserted one for the same receipt:
\* the insert violates the unique index, this time outside any catch.
SaveConflict(w) ==
    /\ workers[w].pc = "repair"
    /\ rows[KeyOf(w)] # None
    /\ rows[KeyOf(w)].id # workers[w].seen.id
    /\ Throws(w)
    /\ UNCHANGED spent

ProcessStep(w) ==
    \/ LookupLegacy(w) \/ ReadFails(w) \/ ReadImage(w) \/ CheckDuplicate(w) \/ RejectTimestamp(w)
    \/ Create(w) \/ CreateConflict(w) \/ FindExisting(w) \/ SaveRepair(w) \/ SaveConflict(w)
    \/ Finish(w)

-----------------------------------------------------------------------------
(* People *)

\* The Mini App saves a form with all four fields: an EditLog entry per changed
\* field and the columns, in one database transaction. Neither the status, nor
\* the duplicate flag, nor editedByUploader is among the columns.
Edit(k, pay) ==
    /\ rows[k] # None
    /\ Spend("edits")
    /\ rows' = [rows EXCEPT ![k] = [@ EXCEPT !.pay = pay, !.bank = TRUE]]
    /\ edited' = [edited EXCEPT ![k] = IF rows[k].pay # pay THEN pay ELSE @]
    /\ past' = [past EXCEPT !.pays = @ \cup {<<k[1], pay>>}]
    /\ UNCHANGED <<member, suspended, jobs, workers, objects, deletion>>

\* remove(): the row is read and its status checked...
DeleteCheck(k) ==
    /\ deletion.pc = "idle"
    /\ rows[k] # None
    /\ rows[k].status = "needs_review"
    /\ Spend("deletes")
    /\ deletion' = [pc |-> "checked", key |-> k, id |-> rows[k].id, image |-> rows[k].image]
    /\ UNCHANGED <<member, suspended, jobs, workers, rows, objects, edited, past>>

\* ...then deleted by id, whatever it has become; its EditLog goes with it...
DeleteRow ==
    /\ deletion.pc = "checked"
    /\ LET k == deletion.key
           present == rows[k] # None /\ rows[k].id = deletion.id IN
         /\ rows' = IF present THEN [rows EXCEPT ![k] = None] ELSE rows
         /\ edited' = IF present THEN [edited EXCEPT ![k] = None] ELSE edited
    /\ deletion' = IF deletion.image = None THEN NoDeletion ELSE [deletion EXCEPT !.pc = "removed"]
    /\ UNCHANGED <<member, suspended, jobs, workers, objects, past, spent>>

\* ...and at last its image object, a failure of which is only logged.
DeleteImage ==
    /\ deletion.pc = "removed"
    /\ objects' \in {objects, objects \ {deletion.image}}
    /\ deletion' = NoDeletion
    /\ UNCHANGED <<member, suspended, jobs, workers, rows, edited, past, spent>>

Depart(u) ==
    /\ member[u] # None
    /\ Spend("moves")
    /\ member' = [member EXCEPT ![u] = None]
    /\ UNCHANGED <<suspended, jobs, workers, rows, objects, edited, deletion, past>>

\* A departed account redeems an Invite of any Business; its users row is reused.
Join(u, b) ==
    /\ member[u] = None
    /\ Spend("moves")
    /\ member' = [member EXCEPT ![u] = b]
    /\ past' = [past EXCEPT !.memberships = @ \cup {<<u, b>>}]
    /\ UNCHANGED <<suspended, jobs, workers, rows, objects, edited, deletion>>

Suspend(b) ==
    /\ b \notin suspended
    /\ Spend("moves")
    /\ suspended' = suspended \cup {b}
    /\ UNCHANGED <<member, jobs, workers, rows, objects, edited, deletion, past>>

-----------------------------------------------------------------------------

SomeAccepts == \E j \in Jobs : Enqueue(j) \/ \E u \in Users, p \in Photos : Receive(j, u, p)
SomeWorks == \E w \in Workers : ProcessStep(w) \/ DatabaseError(w) \/ \E j \in Jobs : Take(w, j)
SomeStalls == \E j \in Jobs : LoseLock(j) \/ RecoverStalled(j)
SomeEdits == \E k \in Keys : DeleteCheck(k) \/ \E pay \in Payments : Edit(k, pay)
SomeMoves == \/ \E u \in Users : Depart(u) \/ \E b \in Businesses : Join(u, b)
             \/ \E b \in Businesses : Suspend(b)

Next == SomeAccepts \/ SomeWorks \/ SomeStalls \/ Crash \/ SomeEdits \/ DeleteRow \/ DeleteImage
        \/ SomeMoves

Spec == Init /\ [][Next]_vars

\* The worker keeps fetching and running jobs and its stalled-job check is a
\* timer; nothing obliges people or the bot's users to do anything.
Fairness ==
    /\ \A w \in Workers : WF_vars(ProcessStep(w)) /\ WF_vars(\E j \in Jobs : Take(w, j))
    /\ \A j \in Jobs : WF_vars(RecoverStalled(j))

FairSpec == Spec /\ Fairness

-----------------------------------------------------------------------------
(* Properties *)

TypeOK ==
    /\ member \in [Users -> Businesses \cup {None}]
    /\ suspended \subseteq Businesses
    /\ jobs \in [Jobs -> Job]
    /\ workers \in [Workers -> Worker]
    /\ rows \in [Keys -> Row \cup {None}]
    /\ objects \subseteq Deliveries
    /\ edited \in [Keys -> Payments \cup {None}]
    /\ deletion \in Deletion
    /\ past \in History
    /\ spent \in [Kinds -> Nat]

\* Every Transaction belongs to someone who sent that very photo, and to the
\* Business that person was an active member of when the bot accepted it, however
\* often they left and joined elsewhere before the job ran (the comment on
\* processImageJob). A job of the old release counts with any membership held.
AttributedAtAcceptance ==
    \A k \in Keys : rows[k] # None =>
        \E j \in Jobs :
            /\ jobs[j].state \notin {"unused", "resolved"}
            /\ jobs[j].photo = k[2]
            /\ jobs[j].sender = rows[k].user
            /\ jobs[j].biz \in {k[1], None}
            /\ <<rows[k].user, k[1]>> \in past.memberships

\* BullMQ only hears "completed" for an accepted receipt once its Transaction was
\* stored: no early return or swallowed error of processImageJob drops it.
CompletedMeansStored ==
    \A j \in Jobs : jobs[j].state = "completed" /\ jobs[j].biz # None =>
        <<jobs[j].biz, jobs[j].photo>> \in past.stored

\* Every Receipt produces a Transaction: the attempts of a job are never used up
\* with nothing stored. Holds while errors stay below MaxAttempts, outages within MaxStalls,
\* and every timestamp read is a date.
NeverLost ==
    \A j \in Jobs : jobs[j].state = "failed" /\ jobs[j].biz # None =>
        <<jobs[j].biz, jobs[j].photo>> \in past.stored

\* A Transaction counts as recorded only with all its fields present, whatever
\* mix of deliveries, repairs and edits wrote them.
RecordedIsComplete ==
    \A k \in Keys : rows[k] # None /\ rows[k].status = "recorded" =>
        rows[k].pay # None /\ rows[k].bank

\* Two different receipts of the same payment in one Business.
UnflaggedPair(b, p, q) ==
    LET x == rows[<<b, p>>]
        y == rows[<<b, q>>] IN
    /\ p # q /\ x # None /\ y # None
    /\ x.pay = y.pay /\ x.pay # None
    /\ ~x.dup /\ ~y.dup

\* Of two recorded Transactions for one payment, as the VLM read them, at least one is
\* flagged, unless the two were in two slots at once and the duplicate check of the one
\* came before the insert of the other. That alone lets a duplicate through: no retry,
\* redelivery, deletion or edit in between does.
UnflaggedOverlapped ==
    \A b \in Businesses, p, q \in Photos :
        /\ UnflaggedPair(b, p, q)
        /\ edited[<<b, p>>] = None /\ edited[<<b, q>>] = None
        /\ {<<<<b, p>>, <<b, q>>>>, <<<<b, q>>, <<b, p>>>>} \cap past.overlap = {}
        => "needs_review" \in {rows[<<b, p>>].status, rows[<<b, q>>].status}

\* The image a Transaction points at exists: the receipt can be looked at for as
\* long as the Transaction is there, whatever is deleted, sent again or run twice
\* meanwhile. Not so for a Transaction that was deleted under a repair, whose save
\* brings it back, perhaps with the image that went with the deletion.
RowImageAvailable ==
    \A k \in Keys :
        rows[k] # None /\ rows[k].id \notin past.returned /\ rows[k].image # None =>
            rows[k].image \in objects

\* A step that flags a Transaction as a duplicate does so because that payment had
\* been stored before in the same Business: never because of another tenant's.
DuplicateFlagGrounded ==
    [][\A k \in Keys :
         rows'[k] # None /\ rows'[k].dup /\ (rows[k] = None \/ ~rows[k].dup) =>
            <<k[1], rows'[k].pay>> \in past.pays]_vars

\* An acknowledged receipt ends up in the transactions table.
AckedReceiptStored ==
    \A j \in Jobs, k \in Keys :
        jobs[j].state = "waiting" /\ <<jobs[j].biz, jobs[j].photo>> = k ~> k \in past.stored

-----------------------------------------------------------------------------
(* What the documents say and the code does not keep; see the README. *)

\* Duplicate: "match an earlier Transaction": not the Transaction itself.
FlaggedAgainstAnother ==
    [][\A k \in Keys :
         rows'[k] # None /\ rows'[k].dup /\ (rows[k] = None \/ ~rows[k].dup) =>
            \E p \in Photos \ {k[2]} : <<k[1], p>> \in past.stored]_vars

\* Duplicates are saved and flagged, never silently dropped: of two recorded
\* Transactions for one payment one is flagged, with or without overlap.
DuplicatesFlagged ==
    \A b \in Businesses, p, q \in Photos : UnflaggedPair(b, p, q) =>
        "needs_review" \in {rows[<<b, p>>].status, rows[<<b, q>>].status}

\* A redelivered receipt preserves what a user has entered.
EditsPreserved == \A k \in Keys : rows[k] # None /\ edited[k] # None => rows[k].pay = edited[k]
=============================================================================
