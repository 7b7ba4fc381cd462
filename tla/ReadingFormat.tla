--------------------------- MODULE ReadingFormat ---------------------------
(***************************************************************************)
(* What becomes of the text the vision model writes about a receipt: the    *)
(* inference service finds a JSON object in it, renames its keys, coerces   *)
(* its values and validates them, and the backend normalises the answer.    *)
(* A value is abstracted to what these conversions tell apart.              *)
(***************************************************************************)
EXTENDS FiniteSets

CONSTANT Null

\* "padded": with blanks around it; "commas": a numeral with thousands separators;
\* "words": a string that is no numeral; "over": a number above 1; "nan": no number,
\* which as an amount is left out: JSON has no way to carry it to the backend.
TextValues == {"absent", "null", "text", "padded", "blank", "number", "list"}
AmountValues == {"absent", "null", "number", "commas", "words", "blank", "list"}
ConfidenceValues == {"absent", "null", "number", "over", "words", "nan"}

\* The keys the backend expects, or those of the training set.
ApiKeys == {"bankName", "amount", "transactionId", "timestamp", "currency", "confidence"}
TrainingKeys == {"bank", "amount", "txn_id", "date", "currency", "confidence"}

\* How the object stands in the text; in "prose" there is none, and of "two" no
\* candidate parses.
Forms == {"object", "fenced", "embedded", "listed", "two", "prose", "empty"}
Text == [form: Forms, keys: {"api", "training"}, bank: TextValues, amount: AmountValues,
         id: TextValues, time: TextValues, currency: TextValues, confidence: ConfidenceValues]

\* extract_json_object: the text, its fences, its outermost braces.
HasObject(text) == text.form \in {"object", "fenced", "embedded", "listed"}

\* TRAINING_KEY_MAP.
ForgetsTransactionId(key) ==                                     \* mutant
    CASE key = "bank" -> "bankName" [] key = "date" -> "timestamp" [] OTHER -> key
ApiKey(key) ==
    CASE key = "bank" -> "bankName" [] key = "date" -> "timestamp"
      [] key = "txn_id" -> "transactionId" [] OTHER -> key

\* The model's object, by its own keys.
Raw(text) ==
    IF text.keys = "api"
      THEN [bankName |-> text.bank, amount |-> text.amount, transactionId |-> text.id,
            timestamp |-> text.time, currency |-> text.currency, confidence |-> text.confidence]
      ELSE [bank |-> text.bank, amount |-> text.amount, txn_id |-> text.id, date |-> text.time,
            currency |-> text.currency, confidence |-> text.confidence]

\* map_raw_to_response: keys renamed, the amount of a string.
Mapped(raw) ==
    [key \in ApiKeys |->
        LET from == {k \in DOMAIN raw : ApiKey(k) = key} IN
        IF from = {} THEN "absent"
        ELSE LET value == raw[CHOOSE k \in from : TRUE] IN
             IF key # "amount" THEN value
             ELSE CASE value = "commas" -> "number" [] value = "words" -> "null" [] OTHER -> value]

\* ExtractResponse: an error for a text that is none, or an amount that is none.
Validates(response) ==
    /\ \A key \in {"bankName", "transactionId", "timestamp", "currency"} : response[key] \notin {"number", "list"}
    /\ response.amount \notin {"blank", "list"}
Clamped(value) ==
    CASE value = "over" -> "one" [] value = "number" -> "number" [] OTHER -> "zero"
Response(text) ==
    LET response == Mapped(Raw(text)) IN [response EXCEPT !.confidence = Clamped(@)]

\* parse_model_output returns a response, or raises.
Parses(text) == HasObject(text) /\ Validates(Mapped(Raw(text)))

\* normalizeResponse: trimmed strings, finite numbers, or null.
NonEmptyString(value) == IF value \in {"text", "padded"} THEN "text" ELSE Null
ParseAmount(value) == IF value = "number" THEN "number" ELSE Null
NormalizeResponse(response) ==
    [bankName |-> NonEmptyString(response.bankName), amount |-> ParseAmount(response.amount),
     transactionId |-> NonEmptyString(response.transactionId),
     timestamp |-> NonEmptyString(response.timestamp), currency |-> NonEmptyString(response.currency),
     confidence |-> response.confidence]
Parsed == [bankName: {"text", Null}, amount: {"number", Null}, transactionId: {"text", Null},
           timestamp: {"text", Null}, currency: {"text", Null}, confidence: {"number", "one", "zero"}]

-----------------------------------------------------------------------------
(* What the prompt asks of the model and the backend of its answer, without *)
(* the conversions in between.                                              *)

\* An answer that validates. The currency counts, though nothing stores it: a number
\* in its place loses the whole answer.
Legible(text) ==
    /\ text.form \notin {"two", "prose", "empty"}
    /\ {text.bank, text.id, text.time, text.currency} \subseteq {"absent", "null", "text", "padded", "blank"}
    /\ text.amount \in {"absent", "null", "number", "commas", "words"}
Wanted(text) ==
    [bankName |-> IF text.bank \in {"text", "padded"} THEN "text" ELSE Null,
     amount |-> IF text.amount \in {"number", "commas"} THEN "number" ELSE Null,
     transactionId |-> IF text.id \in {"text", "padded"} THEN "text" ELSE Null,
     timestamp |-> IF text.time \in {"text", "padded"} THEN "text" ELSE Null,
     currency |-> IF text.currency \in {"text", "padded"} THEN "text" ELSE Null,
     confidence |-> CASE text.confidence = "number" -> "number" [] text.confidence = "over" -> "one"
                      [] OTHER -> "zero"]
=============================================================================
