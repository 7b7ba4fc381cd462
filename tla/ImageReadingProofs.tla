------------------------- MODULE ImageReadingProofs -------------------------
(***************************************************************************)
(* Proofs about ImageReading and ReadingFormat, for any number of photos   *)
(* and slots, any text of the model and any bounds of a download.  A       *)
(* reading is faithful because no two slots ever hold the same photo and a *)
(* job of RunPod is the job of the one slot that holds its photo.          *)
(***************************************************************************)
EXTENDS ImageReading, TLAPS

\* Each photo is read by one slot.
OneEach ==
    /\ \A s \in Slots : slots[s].pc = "idle" <=> slots[s].photo = None
    /\ \A s, t \in Slots : slots[s].photo = slots[t].photo /\ slots[s].photo # None => s = t

Downloading == {"locate", "connect", "receive", "pause"}

\* What a slot has gone on with came with a status of success.
OwnBody ==
    \A s \in Slots :
        /\ slots[s].stored \/ slots[s].pc \in {"upload", "extract", "await"} => slots[s].status = "success"
        /\ slots[s].pc \in Downloading => ~slots[s].stored
        /\ slots[s].pc = "pause" => slots[s].tries < DownloadAttempts

\* A job at RunPod is of a photo whose slot has asked for it; it completes only when the
\* slot did send the photo, with a text that parses, and fails on a legible one only with
\* a trouble.
Asked(p) == \E s \in Slots : slots[s].photo = p /\ slots[s].pc \in {"await", "done"}
Jobs ==
    /\ \A p \in Photos :
        /\ remote[p] # "unused" => Asked(p)
        /\ remote[p] = "completed" => Parses(says[p]) /\ IsImage(p)
        /\ remote[p] = "failed" /\ Legible(says[p]) =>
             \A s \in Slots : slots[s].photo = p => slots[s].trouble
    /\ gpu.at = "idle" <=> gpu.photo = None
    /\ gpu.photo # None => remote[gpu.photo] # "unused"
    /\ gpu.at = "generate" => IsImage(gpu.photo)

Answers ==
    \A s \in Slots :
        /\ slots[s].parsed # None =>
             /\ slots[s].pc = "done" /\ slots[s].body = slots[s].photo
             /\ slots[s].parsed = Wanted(says[slots[s].photo])
        /\ slots[s].pc = "done" /\ Legible(says[slots[s].photo]) /\ ~slots[s].trouble =>
             slots[s].parsed # None

Disk ==
    /\ gpu.at # "generate" => files.there \subseteq files.refused \cup files.nameless
    /\ gpu.at = "generate" => files.there \subseteq files.refused \cup files.nameless \cup {gpu.photo}

Inv == TypeOK /\ OneEach /\ OwnBody /\ Jobs /\ Answers /\ Disk

-----------------------------------------------------------------------------
(* The conversions: whatever keys the model used, the backend reads what the *)
(* model said, and an answer that says enough is not turned down.            *)

LEMMA MappedIs ==
    ASSUME NEW text \in Text
    PROVE  Mapped(Raw(text)) =
             [bankName |-> text.bank,
              amount |-> CASE text.amount = "commas" -> "number" [] text.amount = "words" -> "null"
                           [] OTHER -> text.amount,
              transactionId |-> text.id, timestamp |-> text.time, currency |-> text.currency,
              confidence |-> text.confidence]
<1> DEFINE raw == Raw(text)
           From(key) == {k \in DOMAIN raw : ApiKey(k) = key}
           Said(value) == CASE value = "commas" -> "number" [] value = "words" -> "null" [] OTHER -> value
<1>1. CASE text.keys = "api"
  <2>1. raw = [bankName |-> text.bank, amount |-> text.amount, transactionId |-> text.id,
               timestamp |-> text.time, currency |-> text.currency, confidence |-> text.confidence]
    BY <1>1 DEF Raw
  <2> HIDE DEF raw
  <2>2. /\ From("bankName") = {"bankName"} /\ From("amount") = {"amount"}
        /\ From("transactionId") = {"transactionId"} /\ From("timestamp") = {"timestamp"}
        /\ From("confidence") = {"confidence"} /\ From("currency") = {"currency"}
    BY <2>1 DEF ApiKey
  <2>3. \A key \in ApiKeys : From(key) = {key}  BY <2>2 DEF ApiKeys
  <2>4. \A key \in ApiKeys : From(key) # {} /\ (CHOOSE k \in From(key) : TRUE) = key  BY <2>3
  <2>5. ASSUME NEW key \in ApiKeys
        PROVE  Mapped(raw)[key] = IF key # "amount" THEN raw[key] ELSE Said(raw[key])
    <3>1. From(key) # {} /\ raw[CHOOSE k \in From(key) : TRUE] = raw[key]  BY <2>4
    <3>2. Mapped(raw)[key] = IF From(key) = {} THEN "absent"
                             ELSE IF key # "amount" THEN raw[CHOOSE k \in From(key) : TRUE]
                             ELSE Said(raw[CHOOSE k \in From(key) : TRUE])
      BY DEF Mapped
    <3>3. QED  BY <3>1, <3>2
  <2>6. Mapped(raw) = [key \in ApiKeys |-> Mapped(raw)[key]]  BY DEF Mapped
  <2>7. QED  BY <2>1, <2>5, <2>6 DEF ApiKeys, raw
<1>2. CASE text.keys = "training"
  <2>1. raw = [bank |-> text.bank, amount |-> text.amount, txn_id |-> text.id, date |-> text.time,
               currency |-> text.currency, confidence |-> text.confidence]
    BY <1>2 DEF Raw
  <2> HIDE DEF raw
  <2>2. /\ From("bankName") = {"bank"} /\ From("amount") = {"amount"} /\ From("transactionId") = {"txn_id"}
        /\ From("timestamp") = {"date"} /\ From("confidence") = {"confidence"}
        /\ From("currency") = {"currency"}
    BY <2>1 DEF ApiKey
  <2> DEFINE Own(key) == CASE key = "bankName" -> "bank" [] key = "transactionId" -> "txn_id"
                           [] key = "timestamp" -> "date" [] OTHER -> key
  <2>3. \A key \in ApiKeys : From(key) = {Own(key)}  BY <2>2 DEF ApiKeys
  <2>4. \A key \in ApiKeys : From(key) # {} /\ (CHOOSE k \in From(key) : TRUE) = Own(key)  BY <2>3
  <2>5. ASSUME NEW key \in ApiKeys
        PROVE  Mapped(raw)[key] = IF key # "amount" THEN raw[Own(key)] ELSE Said(raw[Own(key)])
    <3>1. From(key) # {} /\ raw[CHOOSE k \in From(key) : TRUE] = raw[Own(key)]  BY <2>4
    <3>2. Mapped(raw)[key] = IF From(key) = {} THEN "absent"
                             ELSE IF key # "amount" THEN raw[CHOOSE k \in From(key) : TRUE]
                             ELSE Said(raw[CHOOSE k \in From(key) : TRUE])
      BY DEF Mapped
    <3>3. QED  BY <3>1, <3>2
  <2>6. Mapped(raw) = [key \in ApiKeys |-> Mapped(raw)[key]]  BY DEF Mapped
  <2>7. QED  BY <2>1, <2>5, <2>6 DEF ApiKeys, raw
<1>3. QED  BY <1>1, <1>2 DEF Text

\* map_raw_to_response and normalizeResponse together give what the model meant.
LEMMA MeaningKept == \A text \in Text : NormalizeResponse(Response(text)) = Wanted(text)
<1> SUFFICES ASSUME NEW text \in Text PROVE NormalizeResponse(Response(text)) = Wanted(text)
  OBVIOUS
<1> DEFINE amount == CASE text.amount = "commas" -> "number" [] text.amount = "words" -> "null"
                       [] OTHER -> text.amount
<1>1. Response(text) = [bankName |-> text.bank, amount |-> amount, transactionId |-> text.id,
                        timestamp |-> text.time, currency |-> text.currency,
                        confidence |-> Clamped(text.confidence)]
  BY MappedIs DEF Response
<1>2. ParseAmount(amount) = IF text.amount \in {"number", "commas"} THEN "number" ELSE None
  BY DEF ParseAmount
<1> HIDE DEF amount
<1>3. QED  BY <1>1, <1>2 DEF NormalizeResponse, NonEmptyString, Clamped, Wanted

LEMMA LegibleParses == \A text \in Text : Legible(text) => Parses(text)
<1> SUFFICES ASSUME NEW text \in Text, Legible(text) PROVE Parses(text)
  OBVIOUS
<1>1. HasObject(text)  BY DEF Legible, HasObject, Text, Forms
<1>2. /\ text.bank \notin {"number", "list"} /\ text.id \notin {"number", "list"}
      /\ text.time \notin {"number", "list"} /\ text.currency \notin {"number", "list"}
      /\ text.amount \notin {"blank", "list"}
  BY DEF Legible
<1>3. Validates(Mapped(Raw(text)))  BY <1>2, MappedIs DEF Validates
<1>4. QED  BY <1>1, <1>3 DEF Parses

LEMMA WantedParsed == \A text : Wanted(text) \in Parsed /\ Wanted(text) # None
<1>1. \A text : Wanted(text) \in Parsed  BY DEF Wanted, Parsed
<1>2. QED  BY <1>1, NoneAssumption

-----------------------------------------------------------------------------
(* A slot goes on with the photo it has. *)

LEMMA Each == ASSUME Inv, NEW s \in Slots
              PROVE  /\ slots[s] \in Slot /\ slots[s].photo \in Photos \cup {None}
                     /\ slots[s].pc # "idle" => slots[s].photo \in Photos
BY DEF Inv, TypeOK, Slot, OneEach

LEMMA GoesOn ==
    ASSUME Inv, NEW s \in Slots, slots[s].pc # "idle", NEW slot \in Slot, Continue(s, slot),
           slot.photo = slots[s].photo, slot.pc # "idle",
           slot.stored \/ slot.pc \in {"upload", "extract", "await"} => slot.status = "success",
           slot.pc \in Downloading => ~slot.stored,
           slot.pc = "pause" => slot.tries < DownloadAttempts,
           slots[s].pc \in {"await", "done"} => slot.pc \in {"await", "done"} /\ slot.body = slots[s].body,
           slots[s].trouble => slot.trouble,
           slot.parsed # None => slot.pc = "done" /\ slot.body = slot.photo /\ slot.parsed = Wanted(says[slot.photo]),
           slot.pc = "done" /\ Legible(says[slot.photo]) /\ ~slot.trouble => slot.parsed # None,
           \/ UNCHANGED remote
           \/ slot.pc = "await" /\ remote' = [remote EXCEPT ![slot.photo] = "queued"],
           UNCHANGED <<says, gpu, files>>
    PROVE  Inv'
<1>1. /\ slots' = [slots EXCEPT ![s] = slot] /\ slots \in [Slots -> Slot] /\ remote \in [Photos -> RemoteStates]
      /\ slot.photo \in Photos
  BY Each DEF Continue, Inv, TypeOK
<1>2. slots'[s] = slot /\ \A t \in Slots \ {s} : slots'[t] = slots[t]  BY <1>1
<1>3. \A t \in Slots : slots'[t].photo = slots[t].photo /\ (slots'[t].pc = "idle" <=> slots[t].pc = "idle")
  BY <1>2
<1>4. \A p \in Photos : remote'[p] = remote[p] \/ (slot.pc = "await" /\ p = slot.photo /\ remote'[p] = "queued")
  BY <1>1
<1>5. TypeOK'
  <2>1. slots' \in [Slots -> Slot]  BY <1>1
  <2>2. remote' \in [Photos -> RemoteStates]  BY <1>1 DEF RemoteStates
  <2>3. QED  BY <2>1, <2>2 DEF Inv, TypeOK
<1>6. OneEach'  BY <1>3 DEF Inv, OneEach
<1>7. OwnBody'  BY <1>2 DEF Inv, OwnBody
<1>8. Jobs'
  <2>1. ASSUME NEW p \in Photos, Asked(p) PROVE Asked(p)'
    <3>1. PICK t \in Slots : slots[t].photo = p /\ slots[t].pc \in {"await", "done"}  BY <2>1 DEF Asked
    <3>2. slots'[t].photo = p /\ slots'[t].pc \in {"await", "done"}  BY <1>2, <1>3, <3>1
    <3>3. QED  BY <3>2 DEF Asked
  <2>6. ASSUME NEW p \in Photos, Asked(p), IsImage(p) PROVE IsImage(p)'
    <3>1. PICK t \in Slots : slots[t].photo = p /\ slots[t].pc \in {"await", "done"}  BY <2>6 DEF Asked
    <3>2. PICK u \in Slots : slots[u].photo = p /\ slots[u].body = p  BY <2>6 DEF IsImage
    <3>3. u = t
      <4>1. p # None  BY NoneAssumption
      <4>2. QED  BY <3>1, <3>2, <4>1 DEF Inv, OneEach
    <3>4. slots'[t].photo = p /\ slots'[t].body = p  BY <1>2, <1>3, <3>1, <3>2, <3>3
    <3>5. QED  BY <3>4 DEF IsImage
  <2>2. ASSUME NEW p \in Photos, remote'[p] # "unused" PROVE Asked(p)'
    <3>1. CASE remote'[p] = remote[p]  BY <2>1, <2>2, <3>1 DEF Inv, Jobs
    <3>2. CASE slot.pc = "await" /\ p = slot.photo  BY <1>2, <3>2 DEF Asked
    <3>3. QED  BY <1>4, <3>1, <3>2
  <2>3. ASSUME NEW p \in Photos
        PROVE  /\ remote'[p] = "completed" => Parses(says[p]) /\ IsImage(p)'
               /\ remote'[p] = "failed" /\ Legible(says[p]) =>
                    \A t \in Slots : slots'[t].photo = p => slots'[t].trouble
    <3>1. \A t \in Slots : slots[t].trouble => slots'[t].trouble  BY <1>2
    <3>2. remote'[p] \in {"completed", "failed"} => remote'[p] = remote[p]  BY <1>4
    <3>3. remote[p] = "completed" => IsImage(p)'
      <4>1. remote[p] = "completed" => Asked(p) /\ IsImage(p)  BY DEF Inv, Jobs
      <4>2. QED  BY <2>6, <4>1
    <3>4. QED  BY <1>3, <3>1, <3>2, <3>3 DEF Inv, Jobs
  <2>4. gpu.photo # None => remote'[gpu.photo] # "unused"
    <3>1. gpu.photo \in Photos \cup {None} /\ (gpu.photo # None => remote[gpu.photo] # "unused")
      BY DEF Inv, TypeOK, Jobs
    <3>2. QED  BY <1>4, <3>1
  <2>7. gpu.at = "generate" => IsImage(gpu.photo)'
    <3>1. gpu.at = "generate" => /\ gpu.photo # None /\ gpu.photo \in Photos /\ Asked(gpu.photo)
                                 /\ IsImage(gpu.photo)
      BY DEF Inv, TypeOK, Jobs
    <3>2. PICK p : p = gpu.photo  OBVIOUS
    <3>3. gpu.at = "generate" => IsImage(p)'  BY <2>6, <3>1, <3>2
    <3>4. gpu' = gpu  OBVIOUS
    <3>5. QED  BY <3>2, <3>3, <3>4 DEF IsImage
  <2>5. QED  BY <2>2, <2>3, <2>4, <2>7 DEF Inv, Jobs
<1>9. Answers'  BY <1>2 DEF Inv, Answers
<1>10. Disk'  BY DEF Inv, Disk
<1>11. QED  BY <1>5, <1>6, <1>7, <1>8, <1>9, <1>10 DEF Inv

LEMMA TakeInv == ASSUME Inv, NEW s \in Slots, NEW p \in Photos, Take(s, p) PROVE Inv'
<1> DEFINE slot == [Idle EXCEPT !.pc = "locate", !.photo = p]
<1>1. /\ slots' = [slots EXCEPT ![s] = slot] /\ slots[s].pc = "idle" /\ \A t \in Slots : slots[t].photo # p
      /\ UNCHANGED <<says, remote, gpu, files>>
  BY DEF Take, Continue, OnlySlots
<1>2. /\ slot \in Slot /\ slot.pc = "locate" /\ slot.photo = p /\ slot.stored = FALSE /\ slot.parsed = None
      /\ slot.trouble = FALSE
  <2>1. Idle \in Slot  BY AttemptsAssumption DEF Idle, Slot, Stages
  <2>2. Idle.stored = FALSE /\ Idle.parsed = None /\ Idle.trouble = FALSE  BY DEF Idle
  <2>3. QED  BY <2>1, <2>2 DEF Slot, Stages
<1> HIDE DEF slot
<1>3. slots \in [Slots -> Slot] /\ p # None /\ slots[s].photo = None
  BY <1>1, NoneAssumption DEF Inv, TypeOK, OneEach
<1>4. slots'[s] = slot /\ \A t \in Slots \ {s} : slots'[t] = slots[t]  BY <1>1, <1>3
<1>5. TypeOK'  BY <1>1, <1>2, <1>3 DEF Inv, TypeOK
<1>6. OneEach'  BY <1>1, <1>2, <1>3, <1>4 DEF Inv, OneEach
<1>7. OwnBody'  BY <1>2, <1>4 DEF Inv, OwnBody
<1>8. Jobs'
  <2>1. remote[p] = "unused"
    <3>1. ~Asked(p)  BY <1>1 DEF Asked
    <3>2. QED  BY <3>1 DEF Inv, Jobs
  <2>2. ASSUME NEW q \in Photos, Asked(q) PROVE Asked(q)'
    <3>1. PICK t \in Slots : slots[t].photo = q /\ slots[t].pc \in {"await", "done"}  BY <2>2 DEF Asked
    <3>2. t # s  BY <1>1, <3>1
    <3>3. QED  BY <1>4, <3>1, <3>2 DEF Asked
  <2>3. ASSUME NEW q \in Photos, remote[q] = "failed", Legible(says[q]), NEW t \in Slots, slots'[t].photo = q
        PROVE  slots'[t].trouble
    <3>1. t # s  BY <1>2, <1>4, <2>1, <2>3
    <3>2. QED  BY <1>4, <2>3, <3>1 DEF Inv, Jobs
  <2>5. ASSUME NEW q, IsImage(q), q # None PROVE IsImage(q)'
    <3>1. PICK t \in Slots : slots[t].photo = q /\ slots[t].body = q  BY <2>5 DEF IsImage
    <3>2. t # s  BY <1>3, <2>5, <3>1
    <3>3. QED  BY <1>4, <3>1, <3>2 DEF IsImage
  <2>6. ASSUME NEW q \in Photos, remote[q] = "completed" PROVE Parses(says[q]) /\ IsImage(q)'
    <3>1. q # None  BY NoneAssumption
    <3>2. QED  BY <2>5, <2>6, <3>1 DEF Inv, Jobs
  <2>7. gpu.at = "generate" => IsImage(gpu.photo)'
    <3>1. PICK q : q = gpu.photo  OBVIOUS
    <3>2. gpu.at = "generate" => q # None /\ IsImage(q)  BY <3>1 DEF Inv, Jobs
    <3>3. gpu' = gpu  BY <1>1
    <3>4. gpu.at = "generate" => IsImage(q)'  BY <2>5, <3>2
    <3>5. QED  BY <3>1, <3>3, <3>4 DEF IsImage
  <2>4. QED  BY <1>1, <2>2, <2>3, <2>6, <2>7 DEF Inv, Jobs
<1>9. Answers'  BY <1>1, <1>2, <1>4 DEF Inv, Answers
<1>10. Disk'  BY <1>1 DEF Inv, Disk
<1>11. QED  BY <1>5, <1>6, <1>7, <1>8, <1>9, <1>10 DEF Inv


LEMMA Ranges ==
    /\ 0 \in 0..DownloadAttempts /\ 1 \in 0..DownloadAttempts /\ 0 \in 0..MaxRedirects
    /\ \A n \in 0..DownloadAttempts : n < DownloadAttempts => n + 1 \in 0..DownloadAttempts
BY AttemptsAssumption

\* The steps of a download and of the call, each within its slot.
LEMMA UnreadIs ==
    ASSUME Inv, NEW s \in Slots, slots[s].pc \notin {"idle", "done"}
    PROVE  LET slot == Unread(slots[s]) IN
           /\ slot \in Slot /\ slot.photo = slots[s].photo /\ slot.pc = "done" /\ slot.trouble
           /\ slot.stored = slots[s].stored /\ slot.status = slots[s].status /\ slot.body = slots[s].body
           /\ slot.parsed = None
<1>1. slots[s] \in Slot /\ slots[s].parsed = None  BY Each DEF Inv, Answers
<1>2. QED  BY <1>1, Ranges DEF Unread, Slot, Stages

LEMMA UnreadInv ==
    ASSUME Inv, NEW s \in Slots, slots[s].pc \notin {"idle", "done"}, Continue(s, Unread(slots[s])),
           UNCHANGED <<says, remote, gpu, files>>
    PROVE  Inv'
<1> DEFINE slot == Unread(slots[s])
<1>1. /\ slot \in Slot /\ slot.photo = slots[s].photo /\ slot.pc = "done" /\ slot.trouble
      /\ slot.stored = slots[s].stored /\ slot.status = slots[s].status /\ slot.body = slots[s].body
      /\ slot.parsed = None
  BY UnreadIs
<1>2. slots[s].stored => slots[s].status = "success"  BY DEF Inv, OwnBody
<1> HIDE DEF slot
<1>3. Continue(s, slot)  BY DEF slot
<1>4. QED  BY <1>1, <1>2, <1>3, GoesOn DEF Downloading

\* Of the steps that end nothing: what they may do to a slot.
LEMMA StepInv ==
    ASSUME Inv, NEW s \in Slots, slots[s].pc \notin {"idle", "await", "done"}, NEW slot \in Slot, Continue(s, slot),
           slot.photo = slots[s].photo, slot.pc \notin {"idle", "done"},
           slot.stored \/ slot.pc \in {"upload", "extract", "await"} => slot.status = "success",
           slot.pc \in Downloading => ~slot.stored,
           slot.pc = "pause" => slot.tries < DownloadAttempts,
           slot.trouble = slots[s].trouble, slot.parsed = slots[s].parsed,
           \/ UNCHANGED remote
           \/ slot.pc = "await" /\ remote' = [remote EXCEPT ![slot.photo] = "queued"],
           UNCHANGED <<says, gpu, files>>
    PROVE  Inv'
<1>1. slots[s].parsed = None  BY DEF Inv, Answers
<1>2. QED  BY <1>1, GoesOn

LEMMA NotStored ==
    ASSUME Inv, NEW s \in Slots, slots[s].pc \in Downloading
    PROVE  ~slots[s].stored
BY DEF Inv, OwnBody

LEMMA LocateInv == ASSUME Inv, NEW s \in Slots, Locate(s) PROVE Inv'
<1>1. slots[s] \in Slot /\ slots[s].pc = "locate" /\ UNCHANGED <<says, remote, gpu, files>>
      /\ (slots[s].stored => slots[s].status = "success")
  BY Each DEF Locate, OnlySlots, Inv, OwnBody
<1>2. CASE Continue(s, Unread(slots[s]))  BY <1>1, <1>2, UnreadInv
<1>3. CASE Continue(s, [slots[s] EXCEPT !.pc = "connect", !.tries = 1])
  <2> DEFINE slot == [slots[s] EXCEPT !.pc = "connect", !.tries = 1]
  <2>1. /\ slot \in Slot /\ slot.pc = "connect" /\ slot.photo = slots[s].photo /\ slot.status = slots[s].status
        /\ slot.stored = slots[s].stored /\ slot.trouble = slots[s].trouble /\ slot.parsed = slots[s].parsed
    BY <1>1, Ranges DEF Slot, Stages
  <2>2. Continue(s, slot)  BY <1>3
  <2> HIDE DEF slot
  <2>3. QED  BY <1>1, <2>1, <2>2, NotStored, StepInv DEF Downloading
<1>4. QED  BY <1>2, <1>3 DEF Locate

LEMMA AfterErrorInv ==
    ASSUME Inv, NEW s \in Slots, slots[s].pc \in {"connect", "receive"}, NEW retriable,
           Continue(s, AfterError(slots[s], retriable)), UNCHANGED <<says, remote, gpu, files>>
    PROVE  Inv'
<1> DEFINE failed == [slots[s] EXCEPT !.status = "none"]
<1>1. slots[s] \in Slot /\ ~slots[s].stored /\ slots[s].parsed = None
  BY Each, NotStored DEF Inv, Answers, Downloading
<1>4. /\ failed \in Slot /\ failed.photo = slots[s].photo /\ failed.tries = slots[s].tries
      /\ ~failed.stored /\ failed.trouble = slots[s].trouble /\ failed.parsed = None
  BY <1>1 DEF Slot
<1>5. Continue(s, IF retriable /\ failed.tries < DownloadAttempts THEN [failed EXCEPT !.pc = "pause"]
                  ELSE Unread(failed))
  BY <1>4 DEF AfterError
<1> HIDE DEF failed
<1>2. CASE retriable /\ failed.tries < DownloadAttempts
  <2> DEFINE slot == [failed EXCEPT !.pc = "pause"]
  <2>1. /\ slot \in Slot /\ slot.pc = "pause" /\ slot.photo = slots[s].photo
        /\ ~slot.stored /\ slot.trouble = slots[s].trouble /\ slot.parsed = slots[s].parsed
        /\ slot.tries < DownloadAttempts
    BY <1>1, <1>2, <1>4 DEF Slot, Stages
  <2>2. Continue(s, slot)  BY <1>2, <1>5
  <2> HIDE DEF slot
  <2>3. QED  BY <2>1, <2>2, StepInv
<1>3. CASE ~(retriable /\ failed.tries < DownloadAttempts)
  <2> DEFINE slot == Unread(failed)
  <2>1. /\ slot \in Slot /\ slot.pc = "done" /\ slot.photo = slots[s].photo
        /\ ~slot.stored /\ slot.trouble /\ slot.parsed = None
    BY <1>4, Ranges DEF Unread, Slot, Stages
  <2>2. Continue(s, slot)  BY <1>3, <1>5
  <2> HIDE DEF slot
  <2>3. QED  BY <2>1, <2>2, GoesOn
<1>6. QED  BY <1>2, <1>3

LEMMA RedirectInv == ASSUME Inv, NEW s \in Slots, Redirect(s) PROVE Inv'
<1>1. slots[s] \in Slot /\ slots[s].pc = "connect" /\ UNCHANGED <<says, remote, gpu, files>>
      /\ (slots[s].stored => slots[s].status = "success")
  BY Each DEF Redirect, OnlySlots, Inv, OwnBody
<1>2. CASE Continue(s, AfterError(slots[s], FALSE))  BY <1>1, <1>2, AfterErrorInv
<1>3. CASE slots[s].hops < MaxRedirects /\ Continue(s, [slots[s] EXCEPT !.hops = slots[s].hops + 1])
  <2> DEFINE slot == [slots[s] EXCEPT !.hops = slots[s].hops + 1]
  <2>1. /\ slot \in Slot /\ slot.pc = "connect" /\ slot.photo = slots[s].photo /\ slot.status = slots[s].status
        /\ slot.stored = slots[s].stored /\ slot.trouble = slots[s].trouble /\ slot.parsed = slots[s].parsed
    BY <1>1, <1>3, AttemptsAssumption DEF Slot
  <2>2. Continue(s, slot)  BY <1>3
  <2> HIDE DEF slot
  <2>3. QED  BY <1>1, <2>1, <2>2, NotStored, StepInv DEF Downloading
<1>4. QED  BY <1>2, <1>3 DEF Redirect

LEMMA RespondInv == ASSUME Inv, NEW s \in Slots, Respond(s) PROVE Inv'
<1>1. /\ slots[s] \in Slot /\ slots[s].pc = "connect" /\ UNCHANGED <<says, remote, gpu, files>>
      /\ ~slots[s].stored
  BY Each, NotStored DEF Respond, OnlySlots, Downloading
<1>2. PICK status \in {"success", "failure"} :
        Continue(s, [slots[s] EXCEPT !.pc = "receive", !.status = status])
  BY DEF Respond
<1> DEFINE slot == [slots[s] EXCEPT !.pc = "receive", !.status = status]
<1>3. /\ slot \in Slot /\ slot.pc = "receive" /\ slot.photo = slots[s].photo /\ ~slot.stored
      /\ slot.trouble = slots[s].trouble /\ slot.parsed = slots[s].parsed
  BY <1>1 DEF Slot, Stages
<1>4. Continue(s, slot)  BY <1>2
<1> HIDE DEF slot
<1>5. QED  BY <1>1, <1>3, <1>4, StepInv

\* The body taken came with a status of success.
LEMMA BodyInv == ASSUME Inv, NEW s \in Slots, Body(s) PROVE Inv'
<1>1. slots[s] \in Slot /\ slots[s].pc = "receive" /\ UNCHANGED <<says, remote, gpu, files>>
      /\ slots[s].photo \in Photos
  BY Each DEF Body, OnlySlots
<1>2. PICK body \in {slots[s].photo, "errorPage"}, mentionsTimeout \in BOOLEAN :
        Continue(s, IF Accepts(slots[s].status) THEN Downloaded(slots[s], body)
                    ELSE AfterError(slots[s], mentionsTimeout))
  BY DEF Body
<1>3. CASE Accepts(slots[s].status)
  <2> DEFINE slot == Downloaded(slots[s], body)
  <2>1. slots[s].status = "success"  BY <1>3 DEF Accepts
  <2>2. /\ slot \in Slot /\ slot.pc = "upload" /\ slot.photo = slots[s].photo /\ slot.status = "success"
        /\ slot.trouble = slots[s].trouble /\ slot.parsed = slots[s].parsed
    BY <1>1, <2>1, Ranges DEF Downloaded, Slot, Stages
  <2>3. Continue(s, slot)  BY <1>2, <1>3
  <2> HIDE DEF slot
  <2>4. QED  BY <1>1, <2>2, <2>3, StepInv DEF Downloading
<1>4. CASE ~Accepts(slots[s].status)  BY <1>1, <1>2, <1>4, AfterErrorInv
<1>5. QED  BY <1>3, <1>4

LEMMA TryAgainInv == ASSUME Inv, NEW s \in Slots, TryAgain(s) PROVE Inv'
<1> DEFINE slot == NextAttempt(slots[s])
<1>1. slots[s] \in Slot /\ slots[s].pc = "pause" /\ UNCHANGED <<says, remote, gpu, files>>
      /\ (slots[s].stored => slots[s].status = "success") /\ slots[s].tries < DownloadAttempts
  BY Each DEF TryAgain, OnlySlots, Inv, OwnBody
<1>2. /\ slot \in Slot /\ slot.pc = "connect" /\ slot.photo = slots[s].photo /\ slot.status = slots[s].status
      /\ slot.stored = slots[s].stored /\ slot.trouble = slots[s].trouble /\ slot.parsed = slots[s].parsed
  BY <1>1, Ranges DEF NextAttempt, Slot, Stages
<1>3. Continue(s, slot)  BY DEF TryAgain
<1> HIDE DEF slot
<1>4. QED  BY <1>1, <1>2, <1>3, NotStored, StepInv DEF Downloading

LEMMA UploadInv == ASSUME Inv, NEW s \in Slots, Upload(s) PROVE Inv'
<1>1. slots[s] \in Slot /\ slots[s].pc = "upload" /\ UNCHANGED <<says, remote, gpu, files>>
      /\ slots[s].status = "success"
  BY Each DEF Upload, OnlySlots, Inv, OwnBody
<1>2. CASE Continue(s, Unread(slots[s]))  BY <1>1, <1>2, UnreadInv
<1>3. CASE Continue(s, [slots[s] EXCEPT !.pc = "extract", !.stored = TRUE])
  <2> DEFINE slot == [slots[s] EXCEPT !.pc = "extract", !.stored = TRUE]
  <2>1. /\ slot \in Slot /\ slot.pc = "extract" /\ slot.photo = slots[s].photo /\ slot.status = slots[s].status
        /\ slot.trouble = slots[s].trouble /\ slot.parsed = slots[s].parsed
    BY <1>1 DEF Slot, Stages
  <2>2. Continue(s, slot)  BY <1>3
  <2> HIDE DEF slot
  <2>3. QED  BY <1>1, <2>1, <2>2, StepInv DEF Downloading
<1>4. QED  BY <1>2, <1>3 DEF Upload

LEMMA ExtractInv == ASSUME Inv, NEW s \in Slots, Extract(s) PROVE Inv'
<1>1. slots[s] \in Slot /\ slots[s].pc = "extract" /\ UNCHANGED <<says, gpu, files>>
      /\ slots[s].status = "success"
  BY Each DEF Extract, Inv, OwnBody
<1>2. CASE Continue(s, Unread(slots[s])) /\ UNCHANGED remote  BY <1>1, <1>2, UnreadInv
<1>3. CASE /\ remote' = [remote EXCEPT ![slots[s].photo] = "queued"]
           /\ Continue(s, [slots[s] EXCEPT !.pc = "await"])
  <2> DEFINE slot == [slots[s] EXCEPT !.pc = "await"]
  <2>1. /\ slot \in Slot /\ slot.pc = "await" /\ slot.photo = slots[s].photo /\ slot.status = slots[s].status
        /\ slot.trouble = slots[s].trouble /\ slot.parsed = slots[s].parsed
    BY <1>1 DEF Slot, Stages
  <2>2. Continue(s, slot)  BY <1>3
  <2> HIDE DEF slot
  <2>3. remote' = [remote EXCEPT ![slot.photo] = "queued"]  BY <1>3, <2>1
  <2>4. QED  BY <1>1, <2>1, <2>2, <2>3, StepInv DEF Downloading
<1>4. QED  BY <1>2, <1>3 DEF Extract

\* The answer the slot gets is the one to its own photo.
LEMMA ReceiveInv == ASSUME Inv, NEW s \in Slots, Receive(s) PROVE Inv'
<1> DEFINE p == slots[s].photo
<1>1. slots[s] \in Slot /\ slots[s].pc = "await" /\ UNCHANGED <<says, remote, gpu, files>>
      /\ slots[s].status = "success" /\ p \in Photos /\ slots[s].parsed = None
  BY Each DEF Receive, OnlySlots, Inv, OwnBody, Answers
<1>2. says[p] \in Text  BY <1>1 DEF Inv, TypeOK
<1>3. CASE remote[p] = "completed"
           /\ Continue(s, [slots[s] EXCEPT !.pc = "done", !.parsed = NormalizeResponse(Response(says[p]))])
  <2> DEFINE slot == [slots[s] EXCEPT !.pc = "done", !.parsed = Wanted(says[p])]
  <2>1. Wanted(says[p]) \in Parsed /\ Wanted(says[p]) # None  BY WantedParsed
  <2>5. slots[s].body = p
    <3>1. PICK t \in Slots : slots[t].photo = p /\ slots[t].body = p  BY <1>1, <1>3 DEF Inv, Jobs, IsImage
    <3>2. p # None  BY <1>1, NoneAssumption
    <3>3. s = t  BY <3>1, <3>2 DEF Inv, OneEach
    <3>4. QED  BY <3>1, <3>3
  <2>2. /\ slot \in Slot /\ slot.pc = "done" /\ slot.photo = p /\ slot.body = slots[s].body
        /\ slot.status = "success"
        /\ slot.trouble = slots[s].trouble /\ slot.parsed = Wanted(says[p])
    BY <1>1, <2>1 DEF Slot, Stages
  <2>3. Continue(s, slot)  BY <1>2, <1>3, MeaningKept
  <2> HIDE DEF slot
  <2>4. QED  BY <1>1, <2>1, <2>2, <2>3, <2>5, GoesOn DEF Downloading
<1>4. CASE remote[p] = "failed" /\ Continue(s, [slots[s] EXCEPT !.pc = "done"])
  <2> DEFINE slot == [slots[s] EXCEPT !.pc = "done"]
  <2>1. /\ slot \in Slot /\ slot.pc = "done" /\ slot.photo = p /\ slot.body = slots[s].body
        /\ slot.status = "success" /\ slot.trouble = slots[s].trouble /\ slot.parsed = None
    BY <1>1 DEF Slot, Stages
  <2>2. Continue(s, slot)  BY <1>4
  <2>3. Legible(says[p]) => slots[s].trouble  BY <1>1, <1>4 DEF Inv, Jobs
  <2> HIDE DEF slot
  <2>4. QED  BY <1>1, <2>1, <2>2, <2>3, GoesOn DEF Downloading
<1>5. QED  BY <1>3, <1>4 DEF Receive

LEMMA GiveUpInv == ASSUME Inv, NEW s \in Slots, GiveUp(s) PROVE Inv'
<1>1. slots[s].pc = "await" /\ Continue(s, Unread(slots[s])) /\ UNCHANGED <<says, remote, gpu, files>>
  BY DEF GiveUp, OnlySlots
<1>2. QED  BY <1>1, UnreadInv

LEMMA SlotInv == ASSUME Inv, NEW s \in Slots, SlotStep(s) PROVE Inv'
<1>1. CASE ConnectionFails(s)  BY <1>1, AfterErrorInv DEF ConnectionFails, OnlySlots
<1>2. CASE BodyFails(s)  BY <1>2, AfterErrorInv DEF BodyFails, OnlySlots
<1>3. QED
  BY <1>1, <1>2, LocateInv, RedirectInv, RespondInv, BodyInv, TryAgainInv, UploadInv, ExtractInv,
     ReceiveInv, GiveUpInv
     DEF SlotStep, BoundedStep, UnboundedStep

-----------------------------------------------------------------------------
(* The inference worker turns the job of photo p, and the slot that waits for *)
(* it learns only whether there was trouble.                                  *)

JobsAreAsked ==
    \A p \in Photos :
        /\ remote[p] # "unused" => Asked(p)
        /\ remote[p] = "completed" => Parses(says[p]) /\ IsImage(p)
        /\ remote[p] = "failed" /\ Legible(says[p]) =>
             \A s \in Slots : slots[s].photo = p => slots[s].trouble

LEMMA TroubleOnly ==
    ASSUME Inv, NEW p \in Photos, UNCHANGED slots \/ Troubled(p)
    PROVE  /\ slots' \in [Slots -> Slot]
           /\ \A s \in Slots :
                /\ slots'[s].pc = slots[s].pc /\ slots'[s].photo = slots[s].photo
                /\ slots'[s].tries = slots[s].tries /\ slots'[s].status = slots[s].status /\ slots'[s].body = slots[s].body
                /\ slots'[s].stored = slots[s].stored /\ slots'[s].parsed = slots[s].parsed
                /\ slots[s].trouble => slots'[s].trouble
                /\ Troubled(p) /\ slots[s].photo = p => slots'[s].trouble
<1>1. slots \in [Slots -> Slot]  BY DEF Inv, TypeOK
<1>2. CASE Troubled(p)
  <2>1. slots' = [s \in Slots |-> IF slots[s].photo = p THEN [slots[s] EXCEPT !.trouble = TRUE] ELSE slots[s]]
    BY <1>2 DEF Troubled
  <2>2. ASSUME NEW slot \in Slot
        PROVE  LET new == [slot EXCEPT !.trouble = TRUE] IN
               /\ new \in Slot /\ new.pc = slot.pc /\ new.photo = slot.photo /\ new.tries = slot.tries
               /\ new.status = slot.status
               /\ new.body = slot.body /\ new.stored = slot.stored /\ new.parsed = slot.parsed /\ new.trouble
    BY DEF Slot
  <2>3. QED  BY <1>1, <2>1, <2>2
<1>3. CASE UNCHANGED slots /\ ~Troubled(p)  BY <1>1, <1>3
<1>4. QED  BY <1>2, <1>3

LEMMA WorkerRest ==
    ASSUME Inv, NEW p \in Photos, remote[p] # "unused", UNCHANGED slots \/ Troubled(p), UNCHANGED says,
           NEW job \in {"running", "completed", "failed"},
           remote' = [remote EXCEPT ![p] = job],
           job = "completed" => Parses(says[p]) /\ IsImage(p), job = "failed" /\ Legible(says[p]) => Troubled(p)
    PROVE  /\ says' \in [Photos -> Text] /\ slots' \in [Slots -> Slot] /\ remote' \in [Photos -> RemoteStates]
           /\ OneEach' /\ OwnBody' /\ Answers' /\ JobsAreAsked'
           /\ \A q \in Photos : remote[q] # "unused" => remote'[q] # "unused"
<1>1. /\ slots' \in [Slots -> Slot]
      /\ \A s \in Slots :
           /\ slots'[s].pc = slots[s].pc /\ slots'[s].photo = slots[s].photo
           /\ slots'[s].tries = slots[s].tries /\ slots'[s].status = slots[s].status /\ slots'[s].body = slots[s].body
           /\ slots'[s].stored = slots[s].stored /\ slots'[s].parsed = slots[s].parsed
           /\ slots[s].trouble => slots'[s].trouble
           /\ Troubled(p) /\ slots[s].photo = p => slots'[s].trouble
  BY TroubleOnly
<1>2. says' = says /\ says \in [Photos -> Text] /\ remote \in [Photos -> RemoteStates]  BY DEF Inv, TypeOK
<1>3. remote' \in [Photos -> RemoteStates] /\ \A q \in Photos : remote'[q] = IF q = p THEN job ELSE remote[q]
  BY <1>2 DEF RemoteStates
<1>4. OneEach'  BY <1>1 DEF Inv, OneEach
<1>5. OwnBody'  BY <1>1 DEF Inv, OwnBody
<1>6. Answers'  BY <1>1, <1>2 DEF Inv, Answers
<1>7. ASSUME NEW q \in Photos
      PROVE  /\ remote'[q] # "unused" => Asked(q)'
             /\ remote'[q] = "completed" => Parses(says'[q]) /\ IsImage(q)'
             /\ remote'[q] = "failed" /\ Legible(says'[q]) =>
                  \A s \in Slots : slots'[s].photo = q => slots'[s].trouble
  <2>1. (Asked(q) => Asked(q)') /\ (IsImage(q) => IsImage(q)')  BY <1>1 DEF Asked, IsImage
  <2>2. /\ remote[q] # "unused" => Asked(q)
        /\ remote[q] = "completed" => Parses(says[q]) /\ IsImage(q)
        /\ remote[q] = "failed" /\ Legible(says[q]) =>
             \A s \in Slots : slots[s].photo = q => slots[s].trouble
    BY DEF Inv, Jobs
  <2>3. QED  BY <1>1, <1>2, <1>3, <2>1, <2>2
<1>8. QED  BY <1>1, <1>2, <1>3, <1>4, <1>5, <1>6, <1>7 DEF JobsAreAsked

FileSets == [there: SUBSET Photos, refused: SUBSET Photos, nameless: SUBSET Photos]

LEMMA WorkerInv ==
    ASSUME Inv, NEW p \in Photos, remote[p] # "unused", UNCHANGED slots \/ Troubled(p), UNCHANGED says,
           NEW job \in {"running", "completed", "failed"},
           remote' = [remote EXCEPT ![p] = job],
           job = "completed" => Parses(says[p]) /\ IsImage(p), job = "failed" /\ Legible(says[p]) => Troubled(p),
           \/ gpu' = [photo |-> p, at |-> "save"]
           \/ gpu' = [photo |-> None, at |-> "idle"],
           files' \in FileSets, files'.there \subseteq files'.refused \cup files'.nameless
    PROVE  Inv'
<1>1. /\ says' \in [Photos -> Text] /\ slots' \in [Slots -> Slot] /\ remote' \in [Photos -> RemoteStates]
      /\ OneEach' /\ OwnBody' /\ Answers' /\ JobsAreAsked' /\ remote'[p] # "unused"
  BY WorkerRest
<1>2. p # None  BY NoneAssumption
<1>3. TypeOK'  BY <1>1 DEF TypeOK, FileSets
<1>4. Jobs'  BY <1>1, <1>2 DEF JobsAreAsked, Jobs
<1>5. Disk'  BY DEF Disk
<1>6. QED  BY <1>1, <1>3, <1>4, <1>5 DEF Inv

LEMMA PickUpInv == ASSUME Inv, NEW p \in Photos, PickUp(p) PROVE Inv'
<1>1. /\ remote[p] = "queued" /\ remote' = [remote EXCEPT ![p] = "running"]
      /\ gpu' = [photo |-> p, at |-> "save"] /\ gpu.photo = None /\ UNCHANGED <<says, slots, files>>
  BY DEF PickUp, NobodyIsAsked
<1>2. gpu.at = "idle" /\ files \in FileSets
  BY <1>1 DEF Inv, Jobs, TypeOK, FileSets
<1>3. files'.there \subseteq files'.refused \cup files'.nameless  BY <1>1, <1>2 DEF Inv, Disk
<1>4. QED  BY <1>1, <1>2, <1>3, WorkerInv

LEMMA SaveImageInv == ASSUME Inv, SaveImage PROVE Inv'
<1> DEFINE p == gpu.photo
<1>1. gpu \in [photo: Photos \cup {None}, at: {"idle", "save", "generate"}] /\ gpu.at = "save"
      /\ files \in FileSets /\ files.there \subseteq files.refused \cup files.nameless
      /\ says' = says
  BY DEF SaveImage, Inv, TypeOK, Disk, FileSets
<1>2. p \in Photos /\ p # None /\ remote[p] # "unused"  BY <1>1 DEF Inv, Jobs
<1>3. CASE /\ IsImage(p)
           /\ files' = [files EXCEPT !.there = files.there \cup {p}]
           /\ gpu' = [gpu EXCEPT !.at = "generate"]
           /\ UNCHANGED <<remote, slots>>
  <2>1. gpu' \in [photo: Photos \cup {None}, at: {"idle", "save", "generate"}]
        /\ gpu'.photo = p /\ gpu'.at = "generate"
    BY <1>1, <1>3
  <2>2. files' \in FileSets
        /\ files'.there = files.there \cup {p} /\ files'.refused = files.refused
        /\ files'.nameless = files.nameless
    BY <1>1, <1>2, <1>3 DEF FileSets
  <2>3. TypeOK'  BY <1>1, <1>3, <2>1, <2>2 DEF Inv, TypeOK, FileSets
  <2>4. OneEach' /\ OwnBody' /\ Answers'  BY <1>1, <1>3 DEF Inv, OneEach, OwnBody, Answers
  <2>5. Jobs'  BY <1>1, <1>2, <1>3, <2>1 DEF Inv, Jobs, Asked, IsImage
  <2>6. Disk'  BY <1>1, <2>1, <2>2 DEF Disk
  <2>7. QED  BY <2>3, <2>4, <2>5, <2>6 DEF Inv
<1>4. CASE /\ \/ UNCHANGED files
              \/ /\ IsImage(p)
                 /\ files' = [files EXCEPT !.there = files.there \cup {p}, !.nameless = files.nameless \cup {p}]
           /\ gpu' = [photo |-> None, at |-> "idle"]
           /\ remote' = [remote EXCEPT ![p] = "failed"]
           /\ Troubled(p)
  <2>1. files' \in FileSets /\ files'.there \subseteq files'.refused \cup files'.nameless
    <3>1. CASE UNCHANGED files  BY <1>1, <3>1
    <3>2. CASE files' = [files EXCEPT !.there = files.there \cup {p}, !.nameless = files.nameless \cup {p}]
      BY <1>1, <1>2, <3>2 DEF FileSets
    <3>3. QED  BY <1>4, <3>1, <3>2
  <2>2. QED  BY <1>1, <1>2, <1>4, <2>1, WorkerInv
<1>5. QED  BY <1>3, <1>4 DEF SaveImage

LEMMA UnlinkClears ==
    ASSUME files \in FileSets, NEW p \in Photos,
           files.there \subseteq files.refused \cup files.nameless \cup {p}, NEW good, Unlink(p, good)
    PROVE  files' \in FileSets /\ files'.there \subseteq files'.refused \cup files'.nameless
<1>1. CASE files' = [files EXCEPT !.there = files.there \ {p}]  BY <1>1 DEF FileSets
<1>2. CASE files' = [files EXCEPT !.refused = files.refused \cup {p}]  BY <1>2 DEF FileSets
<1>3. QED  BY <1>1, <1>2 DEF Unlink

LEMMA GenerateInv == ASSUME Inv, Generate PROVE Inv'
<1> DEFINE p == gpu.photo
<1>1. /\ gpu \in [photo: Photos \cup {None}, at: {"idle", "save", "generate"}] /\ gpu.at = "generate"
      /\ files \in FileSets
      /\ files.there \subseteq files.refused \cup files.nameless \cup {p} /\ says' = says /\ says \in [Photos -> Text]
      /\ gpu' = [photo |-> None, at |-> "idle"]
  BY DEF Generate, Inv, TypeOK, Disk, FileSets
<1>2. p \in Photos /\ remote[p] # "unused" /\ IsImage(p)  BY <1>1 DEF Inv, Jobs
<1>3. files' \in FileSets /\ files'.there \subseteq files'.refused \cup files'.nameless
  BY <1>1, <1>2, UnlinkClears DEF Generate
<1>4. CASE /\ remote' = [remote EXCEPT ![p] = IF Parses(says[p]) THEN "completed" ELSE "failed"]
           /\ UNCHANGED slots
  <2>1. Legible(says[p]) => Parses(says[p])  BY <1>1, <1>2, LegibleParses
  <2>2. CASE Parses(says[p])  BY <1>1, <1>2, <1>3, <1>4, <2>2, WorkerInv
  <2>3. CASE ~Parses(says[p])  BY <1>1, <1>2, <1>3, <1>4, <2>1, <2>3, WorkerInv
  <2>4. QED  BY <2>2, <2>3
<1>5. CASE remote' = [remote EXCEPT ![p] = "failed"] /\ Troubled(p)
  BY <1>1, <1>2, <1>3, <1>5, WorkerInv
<1>6. QED  BY <1>4, <1>5 DEF Generate

-----------------------------------------------------------------------------
(* The invariant, and what follows from it. *)

LEMMA InitInv == Init => Inv
<1> SUFFICES ASSUME Init PROVE Inv
  OBVIOUS
<1>1. Idle \in Slot /\ Idle.pc = "idle" /\ Idle.photo = None /\ Idle.stored = FALSE /\ Idle.parsed = None
  BY AttemptsAssumption DEF Idle, Slot, Stages
<1>2. slots = [s \in Slots |-> Idle] /\ remote = [p \in Photos |-> "unused"]
      /\ gpu = [photo |-> None, at |-> "idle"] /\ files = [there |-> {}, refused |-> {}, nameless |-> {}]
      /\ says \in [Photos -> Text]
  BY TextsAssumption DEF Init
<1>3. TypeOK  BY <1>1, <1>2 DEF TypeOK, RemoteStates
<1>4. OneEach /\ OwnBody /\ Answers  BY <1>1, <1>2 DEF OneEach, OwnBody, Answers
<1>5. Jobs /\ Disk  BY <1>2 DEF Jobs, Disk
<1>6. QED  BY <1>3, <1>4, <1>5 DEF Inv

\* The invariant the theorems below rest on: one slot for each photo, one job for
\* each slot, and what either has is of that photo.
THEOREM Inductive == Spec => []Inv
<1>1. Inv /\ [Next]_vars => Inv'
  <2> SUFFICES ASSUME Inv, [Next]_vars PROVE Inv'
    OBVIOUS
  <2>1. CASE UNCHANGED vars
    BY <2>1 DEF vars, Inv, TypeOK, OneEach, OwnBody, Jobs, Asked, IsImage, Answers, Disk
  <2>2. CASE Next
    BY <2>2, TakeInv, SlotInv, PickUpInv, SaveImageInv, GenerateInv DEF Next
  <2>3. QED  BY <2>1, <2>2
<1>2. QED  BY <1>1, InitInv, PTL DEF Spec

\* Every slot, job and file keeps to its form, and no download goes past its attempts or
\* redirects.
THEOREM TypeCorrect == Spec => []TypeOK
<1>1. Inv => TypeOK  BY DEF Inv
<1>2. QED  BY <1>1, Inductive, PTL

\* What a slot ends with is what the model said of that slot's photo, or nothing, though a
\* page may have been stored for it; and nothing of a legible answer about a photo that
\* did arrive only when the network, a store or the worker failed.
THEOREM Faithful == Spec => []FaithfulReading
<1>1. Inv => FaithfulReading  BY DEF Inv, OwnBody, Answers, FaithfulReading
<1>2. QED  BY <1>1, Inductive, PTL

\* The inference worker leaves no temporary image but those it could not write and those
\* the disk would not remove.
THEOREM DiskStaysClear == Spec => []NoFilesLeft
<1>1. Inv => NoFilesLeft  BY DEF Inv, Disk, NoFilesLeft
<1>2. QED  BY <1>1, Inductive, PTL

=============================================================================
