------------------------------- MODULE Schema -------------------------------
(***************************************************************************)
(* A relational database as the migrations see it, and the statements they  *)
(* are made of.  A column is required, defaulted (required, with a default) *)
(* or nullable; indexes that only make queries faster, types and lengths    *)
(* are left out.  A statement the database refuses yields Refused, and so   *)
(* does every statement after it: the transaction is rolled back.           *)
(***************************************************************************)
EXTENDS Functions

Null == "null"
Refused == [refused |-> TRUE]

Database(tables, uniques, keys) == [tables |-> tables, uniques |-> uniques, keys |-> keys]
EmptyDatabase == Database([t \in {} |-> {}], {}, {})

\* The columns of a table, by what they demand.
Columns(required, defaulted, nullable) ==
    [required |-> required, defaulted |-> defaulted, nullable |-> nullable]
Names(columns) == columns.required \cup columns.defaulted \cup columns.nullable
Put(columns, kind, c) ==
    Columns(columns.required \cup (IF kind = "required" THEN {c} ELSE {}),
            columns.defaulted \cup (IF kind = "defaulted" THEN {c} ELSE {}),
            columns.nullable \cup (IF kind = "nullable" THEN {c} ELSE {}))
Take(columns, c) ==
    Columns(columns.required \ {c}, columns.defaulted \ {c}, columns.nullable \ {c})

Exists(db, t) == t \in DOMAIN db.tables
Cols(db, t) == db.tables[t].columns
Rows(db, t) == db.tables[t].rows
Has(db, t, c) == Exists(db, t) /\ c \in Names(Cols(db, t))
KindOf(db, t, c) ==
    IF c \in Cols(db, t).nullable THEN "nullable"
    ELSE IF c \in Cols(db, t).defaulted THEN "defaulted" ELSE "required"

With(row, c, value) == [d \in DOMAIN row \cup {c} |-> IF d = c THEN value ELSE row[d]]
Without(f, x) == Restrict(f, DOMAIN f \ {x})
SetTable(db, t, columns, rows) ==
    Database([u \in DOMAIN db.tables \cup {t} |->
                 IF u = t THEN [columns |-> columns, rows |-> rows] ELSE db.tables[u]],
             db.uniques, db.keys)

-----------------------------------------------------------------------------
(* What the constraints demand of the rows *)

Filled(db, t) ==
    \A i \in DOMAIN Rows(db, t), c \in Cols(db, t).required \cup Cols(db, t).defaulted :
        Rows(db, t)[i][c] # Null
\* Rows with a null among the columns never collide.
Distinct(db, unique) ==
    \A i, j \in DOMAIN Rows(db, unique.table) :
        LET a == Rows(db, unique.table)[i]
            b == Rows(db, unique.table)[j] IN
        (i # j /\ \A c \in unique.columns : a[c] = b[c]) => \E c \in unique.columns : a[c] = Null
Anchored(db, key) ==
    \A i \in DOMAIN Rows(db, key.table) :
        Rows(db, key.table)[i][key.column] \in DOMAIN Rows(db, key.of) \cup {Null}
Sound(db) ==
    /\ \A t \in DOMAIN db.tables : Filled(db, t)
    /\ \A unique \in db.uniques : Distinct(db, unique)
    /\ \A key \in db.keys : Anchored(db, key)

-----------------------------------------------------------------------------
(* The statements *)

When(db, condition, result) == IF db # Refused /\ condition THEN result ELSE Refused

CreateTable(db, t, columns) ==
    When(db, ~Exists(db, t), SetTable(db, t, columns, [i \in {} |-> {}]))

\* Refused while a foreign key of another table refers to it.
DropTable(db, t) ==
    When(db, Exists(db, t) /\ \A key \in db.keys : key.of = t => key.table = t,
         Database(Without(db.tables, t), {u \in db.uniques : u.table # t},
                  {key \in db.keys : key.table # t}))

Initial(kind) == IF kind = "nullable" THEN Null ELSE "default"
\* A required column without a default cannot be added to rows that are there.
AddColumn(db, t, c, kind) ==
    When(db, Exists(db, t) /\ ~Has(db, t, c) /\ (kind # "required" \/ DOMAIN Rows(db, t) = {}),
         SetTable(db, t, Put(Cols(db, t), kind, c),
                  [i \in DOMAIN Rows(db, t) |-> With(Rows(db, t)[i], c, Initial(kind))]))
AddMissing(db, t, c, kind) ==
    IF db # Refused /\ Has(db, t, c) THEN db ELSE AddColumn(db, t, c, kind)

\* Constraints that involve the column go with it.
DropColumn(db, t, c) ==
    When(db, Has(db, t, c),
         Database(SetTable(db, t, Take(Cols(db, t), c),
                           [i \in DOMAIN Rows(db, t) |-> Without(Rows(db, t)[i], c)]).tables,
                  {u \in db.uniques : ~(u.table = t /\ c \in u.columns)},
                  {key \in db.keys : ~(key.table = t /\ key.column = c)}))
DropPresent(db, t, c) ==
    IF db # Refused /\ ~Has(db, t, c) THEN db ELSE DropColumn(db, t, c)

\* No constraint involves a column that is ever renamed.
RenameColumn(db, t, c, d) ==
    When(db, Has(db, t, c) /\ ~Has(db, t, d),
         SetTable(db, t, Put(Take(Cols(db, t), c), KindOf(db, t, c), d),
                  [i \in DOMAIN Rows(db, t) |->
                      With(Without(Rows(db, t)[i], c), d, Rows(db, t)[i][c])]))

\* TypeORM alters a column in place, or, when it takes the type for another one
\* (varchar for character varying, timestamptz for its long name), drops it and
\* adds it anew: with or without its values.
AlterColumn(db, t, c, kind) ==
    When(db, /\ Has(db, t, c)
             /\ kind = "nullable" \/ \A i \in DOMAIN Rows(db, t) : Rows(db, t)[i][c] # Null,
         SetTable(db, t, Put(Take(Cols(db, t), c), kind, c), Rows(db, t)))
ChangeColumn(db, t, c, kind, inPlace) ==
    IF inPlace THEN AlterColumn(db, t, c, kind)
    ELSE AddColumn(DropColumn(db, t, c), t, c, kind)
\* Only of a column that is not nullable yet.
Relax(db, t, c, inPlace) ==
    IF db # Refused /\ Has(db, t, c) /\ c \notin Cols(db, t).nullable
      THEN ChangeColumn(db, t, c, "nullable", inPlace) ELSE db

AddUnique(db, t, columns) ==
    LET unique == [table |-> t, columns |-> columns] IN
    When(db, Distinct(db, unique), Database(db.tables, db.uniques \cup {unique}, db.keys))
DropUnique(db, t, columns) ==
    When(db, TRUE, Database(db.tables, db.uniques \ {[table |-> t, columns |-> columns]}, db.keys))

AddKey(db, t, c, of, onDelete) ==
    LET key == [table |-> t, column |-> c, of |-> of, onDelete |-> onDelete] IN
    When(db, Exists(db, of) /\ Has(db, t, c) /\ Anchored(db, key),
         Database(db.tables, db.uniques, db.keys \cup {key}))
DropKey(db, t, c) ==
    When(db, TRUE, Database(db.tables, db.uniques, {k \in db.keys : ~(k.table = t /\ k.column = c)}))

-----------------------------------------------------------------------------
(* What an application may do to the rows *)

Insert(db, t, i, row) ==
    LET new == SetTable(db, t, Cols(db, t), With(Rows(db, t), i, row))
    IN When(db, i \notin DOMAIN Rows(db, t) /\ Sound(new), new)

Referring(db, i, key) == {j \in DOMAIN Rows(db, key.table) : Rows(db, key.table)[j][key.column] = i}
\* Rows that refer to it by a key that cascades go with it.
Gone(db, t, i, u) ==
    (IF u = t THEN {i} ELSE {})
      \cup UNION {Referring(db, i, key) : key \in {k \in db.keys :
                     k.table = u /\ k.of = t /\ k.onDelete = "CASCADE"}}
Delete(db, t, i) ==
    Database([u \in DOMAIN db.tables |->
                [columns |-> Cols(db, u),
                 rows |-> Restrict(Rows(db, u), DOMAIN Rows(db, u) \ Gone(db, t, i, u))]],
             db.uniques, db.keys)
=============================================================================
