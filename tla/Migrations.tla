----------------------------- MODULE Migrations -----------------------------
(***************************************************************************)
(* The five migrations of the database, up and down, run and reverted in    *)
(* any order over the data of the releases in between.  TypeORM runs all    *)
(* pending migrations in one transaction and reverts one at a time.         *)
(***************************************************************************)
EXTENDS Naturals, Schema

CONSTANTS
    Ids,            \* ids of rows: each is used in every table
    MaxWrites,      \* bound: rows written and deleted
    MaxRuns         \* bound: runs and reverts

ASSUME BoundsAssumption == MaxWrites \in Nat /\ MaxRuns \in Nat

VARIABLES
    db,         \* the database
    applied,    \* how many migrations the migrations table lists
    inPlace,    \* does TypeORM alter every changed column in place?
    spent       \* how much of each bound is used up
dbVars == <<db, applied, inPlace, spent>>

Payment == {"bankName", "timestamp", "transactionId", "amount"}
\* What TypeORM never takes for another type.
Altered(c) == inPlace \/ c = "amount"

-----------------------------------------------------------------------------
(* InitialSchema *)

BusinessesUp(d) ==
    LET d1 == CreateTable(d, "businesses", Columns({"name"}, {"createdAt"}, {}))
    IN AddUnique(d1, "businesses", {"name"})
ManagersUp(d) ==
    LET d1 == CreateTable(d, "managers", Columns({"businessId", "email", "passwordHash"}, {}, {}))
        d2 == AddUnique(d1, "managers", {"email"})
    IN AddKey(d2, "managers", "businessId", "businesses", "CASCADE")
TransactionsUp(d) ==
    CreateTable(d, "transactions",
        Columns({"telegramUserId", "telegramName", "amount", "transactionId", "timestamp",
                 "bankName", "confidence"}, {"isDuplicate", "createdAt"}, {"imageUrl"}))
EditLogsUp(d) ==
    LET d1 == CreateTable(d, "edit_logs",
                  Columns({"transactionId", "fieldName", "editedBy"}, {"editedAt"}, {"oldValue", "newValue"}))
    IN AddKey(d1, "edit_logs", "transactionId", "transactions", "CASCADE")
InitialUp(d) == EditLogsUp(TransactionsUp(ManagersUp(BusinessesUp(d))))
InitialDown(d) ==
    LET d1 == DropTable(DropKey(d, "edit_logs", "transactionId"), "edit_logs")
        d2 == DropTable(d1, "transactions")
        d3 == DropTable(DropKey(d2, "managers", "businessId"), "managers")
    IN DropTable(d3, "businesses")

-----------------------------------------------------------------------------
(* AddUsersInvitesAndMultiTenancy *)

UsersUp(d) ==
    LET d1 == CreateTable(d, "users",
                  Columns({"telegramUserId", "displayName", "role"}, {"createdAt"}, {"businessId", "removedAt"}))
        d2 == AddUnique(d1, "users", {"telegramUserId"})
    IN AddKey(d2, "users", "businessId", "businesses", "SET_NULL")
\* The unique index only counts pending Invites, which all of them are here.
InvitesUp(d) ==
    LET d1 == CreateTable(d, "invites",
                  Columns({"inviteeTelegramId", "businessId", "role", "createdByUserId", "expiresAt"},
                          {"status", "createdAt"}, {}))
        d2 == AddUnique(d1, "invites", {"inviteeTelegramId"})
        d3 == AddKey(d2, "invites", "businessId", "businesses", "CASCADE")
    IN AddKey(d3, "invites", "createdByUserId", "users", "CASCADE")
WithoutDefault == "required"                                                       \* mutant
StatusKind == "defaulted"
BusinessColumnsUp(d) ==
    LET d1 == AddColumn(DropUnique(d, "businesses", {"name"}), "businesses", "status", StatusKind)
    IN AddColumn(d1, "businesses", "ownerUserId", "nullable")
OwnersUp(d) ==
    LET d1 == AddColumn(d, "transactions", "businessId", "nullable")
    IN AddColumn(d1, "transactions", "userId", "nullable")
StatusUp(d) ==
    LET d1 == AddColumn(d, "transactions", "status", StatusKind)
    IN AddColumn(d1, "transactions", "editedByUploader", "defaulted")
Relaxed(d, c) == Relax(d, "transactions", c, Altered(c))
AllButBank(d) == Relaxed(Relaxed(Relaxed(d, "amount"), "transactionId"), "timestamp")  \* mutant
RelaxUp(d) == Relaxed(Relaxed(Relaxed(Relaxed(d, "amount"), "transactionId"), "timestamp"), "bankName")
Replaced(d) ==                                                                     \* mutant
    AddColumn(DropColumn(d, "transactions", "imageUrl"), "transactions", "imageKey", "nullable")
ImageUp(d) == RenameColumn(d, "transactions", "imageUrl", "imageKey")
KeysUp(d) ==
    AddKey(AddKey(d, "transactions", "businessId", "businesses", "SET_NULL"),
           "transactions", "userId", "users", "SET_NULL")
MultiTenancyUp(d) ==
    KeysUp(ImageUp(RelaxUp(StatusUp(OwnersUp(BusinessColumnsUp(InvitesUp(UsersUp(d))))))))

KeysDown(d) == DropKey(DropKey(d, "transactions", "businessId"), "transactions", "userId")
ImageDown(d) == RenameColumn(d, "transactions", "imageKey", "imageUrl")
StatusDown(d) == DropColumn(DropColumn(d, "transactions", "editedByUploader"), "transactions", "status")
OwnersDown(d) == DropColumn(DropColumn(d, "transactions", "userId"), "transactions", "businessId")
Tightened(d, c) == ChangeColumn(d, "transactions", c, "required", Altered(c))
TightenDown(d) ==
    Tightened(Tightened(Tightened(Tightened(d, "bankName"), "timestamp"), "transactionId"), "amount")
BusinessColumnsDown(d) ==
    DropColumn(DropColumn(d, "businesses", "ownerUserId"), "businesses", "status")
UsersFirst(d) == DropTable(DropTable(d, "users"), "invites")                       \* mutant
TenancyTablesDown(d) ==
    LET d1 == DropKey(DropKey(d, "invites", "businessId"), "invites", "createdByUserId")
        d2 == DropTable(d1, "invites")
    IN DropTable(DropKey(d2, "users", "businessId"), "users")
MultiTenancyDown(d) ==
    TenancyTablesDown(BusinessColumnsDown(TightenDown(OwnersDown(StatusDown(ImageDown(KeysDown(d)))))))

-----------------------------------------------------------------------------
(* The three small ones *)

FileIdUp(d) ==
    AddUnique(AddColumn(d, "transactions", "fileUniqueId", "nullable"),
              "transactions", {"businessId", "fileUniqueId"})
FileIdDown(d) ==
    DropColumn(DropUnique(d, "transactions", {"businessId", "fileUniqueId"}),
               "transactions", "fileUniqueId")
LanguageUp(d) == AddMissing(d, "users", "language", "defaulted")
LanguageDown(d) == DropPresent(d, "users", "language")
ReasonUp(d) == AddMissing(d, "businesses", "rejectionReason", "nullable")
ReasonDown(d) == DropPresent(d, "businesses", "rejectionReason")

Latest == 5
Up(k, d) ==
    CASE k = 1 -> InitialUp(d) [] k = 2 -> MultiTenancyUp(d) [] k = 3 -> FileIdUp(d)
      [] k = 4 -> LanguageUp(d) [] k = 5 -> ReasonUp(d)
Down(k, d) ==
    CASE k = 1 -> InitialDown(d) [] k = 2 -> MultiTenancyDown(d) [] k = 3 -> FileIdDown(d)
      [] k = 4 -> LanguageDown(d) [] k = 5 -> ReasonDown(d)

-----------------------------------------------------------------------------

DbInit ==
    /\ db = EmptyDatabase
    /\ applied = 0
    /\ inPlace \in BOOLEAN
    /\ spent = [writes |-> 0, runs |-> 0]

Spend(what, bound) == spent[what] < bound /\ spent' = [spent EXCEPT ![what] = @ + 1]

\* migration:run of the release that came with the first n migrations.
Pending(k, n, d) == IF applied < k /\ k <= n THEN Up(k, d) ELSE d
Upgraded(n) == Pending(5, n, Pending(4, n, Pending(3, n, Pending(2, n, Pending(1, n, db)))))
Run(n) ==
    /\ applied < n
    /\ Spend("runs", MaxRuns)
    /\ Upgraded(n) # Refused
    /\ db' = Upgraded(n)
    /\ applied' = n
    /\ UNCHANGED inPlace

\* migration:revert.
Downgraded == Down(applied, db)
Revert ==
    /\ applied > 0
    /\ Spend("runs", MaxRuns)
    /\ Downgraded # Refused
    /\ db' = Downgraded
    /\ applied' = applied - 1
    /\ UNCHANGED inPlace

\* A row of some release: names recur, everything else is told apart by id; the
\* columns a release may leave null are null all together or not at all.
Value(t, c, i, bare) ==
    LET of == {key.of : key \in {k \in db.keys : k.table = t /\ k.column = c}} IN
    IF bare /\ c \in Cols(db, t).nullable THEN Null
    ELSE IF of # {} THEN IF \E r \in DOMAIN db.tables[CHOOSE r \in of : TRUE].rows : TRUE
                           THEN CHOOSE r \in DOMAIN db.tables[CHOOSE u \in of : TRUE].rows : TRUE
                           ELSE Null
    ELSE IF c = "name" THEN "name" ELSE i
NewRow(t, i, bare) == [c \in Names(Cols(db, t)) |-> Value(t, c, i, bare)]

Write(t, i, bare) ==
    /\ Exists(db, t)
    /\ Spend("writes", MaxWrites)
    /\ Insert(db, t, i, NewRow(t, i, bare)) # Refused
    /\ db' = Insert(db, t, i, NewRow(t, i, bare))
    /\ UNCHANGED <<applied, inPlace>>

\* Transactions are the only rows that are ever deleted.
Erase(i) ==
    /\ Exists(db, "transactions") /\ i \in DOMAIN Rows(db, "transactions")
    /\ Spend("writes", MaxWrites)
    /\ db' = Delete(db, "transactions", i)
    /\ UNCHANGED <<applied, inPlace>>

Tables == {"businesses", "managers", "transactions", "edit_logs", "users", "invites"}
DbNext ==
    \/ \E n \in 1..Latest : Run(n)
    \/ Revert
    \/ \E t \in Tables, i \in Ids, bare \in BOOLEAN : Write(t, i, bare)
    \/ \E i \in Ids : Erase(i)

DbSpec == DbInit /\ [][DbNext]_dbVars

-----------------------------------------------------------------------------
(* Properties *)

\* Every row has just the columns of its table, and no constraint is broken by
\* rows that were there before it.
DbTypeOK ==
    /\ applied \in 0..Latest /\ inPlace \in BOOLEAN /\ DOMAIN db.tables \subseteq Tables
    /\ \A t \in DOMAIN db.tables :
         \A i \in DOMAIN Rows(db, t) : DOMAIN Rows(db, t)[i] = Names(Cols(db, t))
    /\ Sound(db)

\* "Migrations tested against a non-empty database": from whatever release, data
\* and reverts a database has been through, migration:run brings it up to date.
UpgradeSucceeds == applied < Latest => Upgraded(Latest) # Refused

\* What the entities declare: the columns, and the nullable ones among them.
Entities == [
    businesses |-> [all |-> {"name", "status", "ownerUserId", "rejectionReason", "createdAt"},
                    nullable |-> {"ownerUserId", "rejectionReason"}],
    transactions |-> [all |-> {"telegramUserId", "telegramName", "businessId", "userId", "status",
                               "amount", "transactionId", "timestamp", "bankName", "confidence",
                               "isDuplicate", "editedByUploader", "imageKey", "fileUniqueId", "createdAt"},
                      nullable |-> {"businessId", "userId", "amount", "transactionId", "timestamp",
                                    "bankName", "imageKey", "fileUniqueId"}],
    edit_logs |-> [all |-> {"transactionId", "fieldName", "oldValue", "newValue", "editedBy", "editedAt"},
                   nullable |-> {"oldValue", "newValue"}],
    users |-> [all |-> {"telegramUserId", "displayName", "businessId", "role", "language", "removedAt",
                        "createdAt"}, nullable |-> {"businessId", "removedAt"}],
    invites |-> [all |-> {"inviteeTelegramId", "businessId", "role", "createdByUserId", "status",
                          "expiresAt", "createdAt"}, nullable |-> {}]]
Relied == {[table |-> "transactions", columns |-> {"businessId", "fileUniqueId"}],
           [table |-> "users", columns |-> {"telegramUserId"}],
           [table |-> "invites", columns |-> {"inviteeTelegramId"}]}

\* Once up to date, by whatever way, the tables take every row the entities of the
\* code can hold, a receipt of which nothing could be read included, and have the
\* unique indexes its 'duplicate key' paths rely on, and none it does not expect.
EntitiesFit ==
    applied = Latest =>
        /\ \A t \in DOMAIN Entities :
             /\ Names(Cols(db, t)) = Entities[t].all
             /\ Cols(db, t).nullable = Entities[t].nullable
        /\ {u \in db.uniques : u.table \in DOMAIN Entities} = Relied

\* A release can be taken back unless a Transaction lacks a field that an older
\* release requires, or TypeORM would have to fill such a column anew.
DowngradeRefusedForCause ==
    applied > 0 /\ Downgraded = Refused =>
        /\ applied = 2
        /\ \E i \in DOMAIN Rows(db, "transactions") :
             ~inPlace \/ \E c \in Payment : Rows(db, "transactions")[i][c] = Null

\* No migration, up or down, costs a Transaction its amount, its image or its edit
\* log, short of dropping the tables; none makes one appear in some Business.
Image(d, i) == LET row == Rows(d, "transactions")[i] IN
               IF "imageKey" \in DOMAIN row THEN row.imageKey ELSE row.imageUrl
Kept(d, e) ==
    /\ DOMAIN Rows(d, "transactions") = DOMAIN Rows(e, "transactions")
    /\ Rows(d, "edit_logs") = Rows(e, "edit_logs")
    /\ \A i \in DOMAIN Rows(d, "transactions") :
         /\ Rows(d, "transactions")[i].amount = Rows(e, "transactions")[i].amount
         /\ Image(d, i) = Image(e, i)
         /\ Has(e, "transactions", "businessId") /\ Rows(e, "transactions")[i].businessId # Null =>
              /\ Has(d, "transactions", "businessId")
              /\ Rows(d, "transactions")[i].businessId = Rows(e, "transactions")[i].businessId
MoneyAndImagesKept == [][applied' # applied /\ applied > 0 /\ applied' > 0 => Kept(db, db')]_dbVars
=============================================================================
