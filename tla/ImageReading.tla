---------------------------- MODULE ImageReading ----------------------------
(***************************************************************************)
(* The reading stages of processImageJob: the backend resolves and          *)
(* downloads a photo from Telegram, stores it, and asks the inference       *)
(* service on RunPod, which works on one image at a time.  It details       *)
(* ReadImage and ReadFails of ReceiptPipeline.                              *)
(***************************************************************************)
EXTENDS Naturals, FiniteSets

CONSTANTS
    Photos,             \* photos to be read; each is read once here
    Slots,              \* slots of the BullMQ worker
    Texts,              \* what the model may write
    DownloadAttempts,   \* TELEGRAM_FILE_DOWNLOAD_ATTEMPTS
    MaxRedirects,       \* TELEGRAM_FILE_DOWNLOAD_MAX_REDIRECTS
    None

INSTANCE ReadingFormat WITH Null <- None

VARIABLES
    says,       \* says[p]: what the model writes about photo p
    slots,      \* the local variables of each slot
    remote,     \* the job of each photo at RunPod
    gpu,        \* the photo the inference worker is at, and how far it is
    files       \* temporary images on its disk: those there, those whose removal the disk has
                \* refused, and those whose names were lost

vars == <<says, slots, remote, gpu, files>>

Stages == {"idle", "locate", "connect", "receive", "pause", "upload", "extract", "await", "done"}
Slot == [pc: Stages, photo: Photos \cup {None}, tries: 0..DownloadAttempts, hops: 0..MaxRedirects,
         status: {"none", "success", "failure"}, body: Photos \cup {"errorPage", None}, stored: BOOLEAN, parsed: Parsed \cup {None},
         trouble: BOOLEAN]
RemoteStates == {"unused", "queued", "running", "completed", "failed"}

ASSUME AttemptsAssumption == DownloadAttempts \in Nat \ {0} /\ MaxRedirects \in Nat
ASSUME TextsAssumption == Texts \subseteq [Photos -> Text]
ASSUME NoneAssumption == None \notin Photos \cup Parsed
ASSUME PhotosAssumption == "errorPage" \notin Photos      \* an error page is nobody's photo

Idle == [pc |-> "idle", photo |-> None, tries |-> 0, hops |-> 0, status |-> "none", body |-> None, stored |-> FALSE,
         parsed |-> None, trouble |-> FALSE]

Init ==
    /\ says \in Texts
    /\ slots = [s \in Slots |-> Idle]
    /\ remote = [p \in Photos |-> "unused"]
    /\ gpu = [photo |-> None, at |-> "idle"]
    /\ files = [there |-> {}, refused |-> {}, nameless |-> {}]

Continue(s, slot) == slots' = [slots EXCEPT ![s] = slot]
OnlySlots == UNCHANGED <<says, remote, gpu, files>>

\* The locals of a download end with it.
Downloaded(slot, body) == [slot EXCEPT !.pc = "upload", !.body = body, !.tries = 0, !.hops = 0]

\* The stage throws: processImageJob goes on with what it has.
Unread(slot) == [slot EXCEPT !.pc = "done", !.trouble = TRUE, !.tries = 0, !.hops = 0]

-----------------------------------------------------------------------------
(* The download *)

Take(s, p) ==
    /\ slots[s].pc = "idle"
    /\ \A t \in Slots : slots[t].photo # p
    /\ Continue(s, [Idle EXCEPT !.pc = "locate", !.photo = p])
    /\ OnlySlots

\* resolveTelegramFileDownloadUrl: getFile gives a path or fails.
Locate(s) ==
    /\ slots[s].pc = "locate"
    /\ \/ Continue(s, [slots[s] EXCEPT !.pc = "connect", !.tries = 1])
       \/ Continue(s, Unread(slots[s]))
    /\ OnlySlots

\* downloadTelegramFileFromUrl: a transient error is tried again after a pause.
AfterError(slot, retriable) ==
    LET failed == [slot EXCEPT !.status = "none"] IN
    IF retriable /\ slot.tries < DownloadAttempts THEN [failed EXCEPT !.pc = "pause"] ELSE Unread(failed)

\* The response has a redirect, with a location or without...
Redirect(s) ==
    /\ slots[s].pc = "connect"
    /\ \/ slots[s].hops < MaxRedirects /\ Continue(s, [slots[s] EXCEPT !.hops = @ + 1])
       \/ Continue(s, AfterError(slots[s], FALSE))
    /\ OnlySlots

\* ...or another status, with a body to come...
Respond(s) ==
    /\ slots[s].pc = "connect"
    /\ \E status \in {"success", "failure"} :
         Continue(s, [slots[s] EXCEPT !.pc = "receive", !.status = status])
    /\ OnlySlots

\* ...or the connection fails: stalled until the timeout, reset, or for a reason that is
\* not retried.
ConnectionFails(s) ==
    /\ slots[s].pc = "connect"
    /\ \E retriable \in BOOLEAN : Continue(s, AfterError(slots[s], retriable))
    /\ OnlySlots

\* The body is at its end, and is taken by its status alone, be it the image or a page.
AnyStatus(status) == TRUE                                            \* mutant
Accepts(status) == status = "success"

Body(s) ==
    /\ slots[s].pc = "receive"
    /\ \E body \in {slots[s].photo, "errorPage"}, mentionsTimeout \in BOOLEAN :
         Continue(s, IF Accepts(slots[s].status) THEN Downloaded(slots[s], body)
                     ELSE AfterError(slots[s], mentionsTimeout))
    /\ OnlySlots

\* The body is aborted, or stalls until the timeout.
BodyFails(s) ==
    /\ slots[s].pc = "receive"
    /\ \E retriable \in BOOLEAN : Continue(s, AfterError(slots[s], retriable))
    /\ OnlySlots

SameAttempt(slot) == [slot EXCEPT !.pc = "connect", !.hops = 0]       \* mutant
NextAttempt(slot) == [slot EXCEPT !.pc = "connect", !.hops = 0, !.tries = @ + 1]

TryAgain(s) ==
    /\ slots[s].pc = "pause"
    /\ Continue(s, NextAttempt(slots[s]))
    /\ OnlySlots

\* storage_upload_receipt.
Upload(s) ==
    /\ slots[s].pc = "upload"
    /\ \/ Continue(s, [slots[s] EXCEPT !.pc = "extract", !.stored = TRUE])
       \/ Continue(s, Unread(slots[s]))
    /\ OnlySlots

-----------------------------------------------------------------------------
(* VlmService.extract and RunPod *)

Extract(s) ==
    /\ slots[s].pc = "extract"
    /\ \/ /\ remote' = [remote EXCEPT ![slots[s].photo] = "queued"]
          /\ Continue(s, [slots[s] EXCEPT !.pc = "await"])
       \/ Continue(s, Unread(slots[s])) /\ UNCHANGED remote
    /\ UNCHANGED <<says, gpu, files>>

\* The answer of runsync: only a completed job has an output that counts.
Receive(s) ==
    LET p == slots[s].photo IN
    /\ slots[s].pc = "await"
    /\ \/ /\ remote[p] = "completed"
          /\ Continue(s, [slots[s] EXCEPT !.pc = "done", !.parsed = NormalizeResponse(Response(says[p]))])
       \/ remote[p] = "failed" /\ Continue(s, [slots[s] EXCEPT !.pc = "done"])
    /\ OnlySlots

\* The request times out, or runsync returns while the job is still queued or
\* running; the job goes on, and nobody will ask for its output.
GiveUp(s) ==
    /\ slots[s].pc = "await"
    /\ Continue(s, Unread(slots[s]))
    /\ OnlySlots

-----------------------------------------------------------------------------
(* The inference worker: handler and extract_from_image_sync *)

NobodyIsAsked == UNCHANGED <<says, slots>>
Troubled(p) == slots' = [s \in Slots |-> IF slots[s].photo = p THEN [slots[s] EXCEPT !.trouble = TRUE]
                                         ELSE slots[s]]

PickUp(p) ==
    /\ gpu.photo = None
    /\ remote[p] = "queued"
    /\ remote' = [remote EXCEPT ![p] = "running"]
    /\ gpu' = [photo |-> p, at |-> "save"]
    /\ UNCHANGED files
    /\ NobodyIsAsked

\* What the job of photo p came with is that photo.
IsImage(p) == \E s \in Slots : slots[s].photo = p /\ slots[s].body = p

\* _save_resized_jpeg: what is no image is refused before there is a file for it. An
\* image that cannot be written leaves its file behind, whose name nobody has.
SaveImage ==
    LET p == gpu.photo IN
    /\ gpu.at = "save"
    /\ \/ /\ IsImage(p)
          /\ files' = [files EXCEPT !.there = @ \cup {p}]
          /\ gpu' = [gpu EXCEPT !.at = "generate"]
          /\ UNCHANGED <<remote, slots>>
       \/ /\ \/ UNCHANGED files
             \/ /\ IsImage(p)
                /\ files' = [files EXCEPT !.there = @ \cup {p}, !.nameless = @ \cup {p}]
          /\ gpu' = [photo |-> None, at |-> "idle"]
          /\ remote' = [remote EXCEPT ![p] = "failed"]
          /\ Troubled(p)
    /\ UNCHANGED says

\* The file is removed whatever happens, unless the disk refuses.
OnSuccess(p, good) == files' = IF good THEN [files EXCEPT !.there = @ \ {p}] ELSE files   \* mutant
Unlink(p, good) ==
    \/ files' = [files EXCEPT !.there = @ \ {p}]
    \/ files' = [files EXCEPT !.refused = @ \cup {p}]

\* _generate_sync and parse_model_output; any exception becomes an error answer.
Generate ==
    LET p == gpu.photo IN
    /\ gpu.at = "generate"
    /\ \/ /\ remote' = [remote EXCEPT ![p] = IF Parses(says[p]) THEN "completed" ELSE "failed"]
          /\ Unlink(p, Parses(says[p]))
          /\ UNCHANGED slots
       \/ /\ remote' = [remote EXCEPT ![p] = "failed"]
          /\ Unlink(p, FALSE)
          /\ Troubled(p)
    /\ gpu' = [photo |-> None, at |-> "idle"]
    /\ UNCHANGED says

\* What a timeout or the callee brings to an end, and what may go on for ever: the
\* download's timeout is one of silence, the storage client has none.
BoundedStep(s) ==
    \/ Locate(s) \/ Redirect(s) \/ Respond(s) \/ ConnectionFails(s) \/ TryAgain(s)
    \/ Extract(s) \/ Receive(s) \/ GiveUp(s)
UnboundedStep(s) == Body(s) \/ BodyFails(s) \/ Upload(s)
SlotStep(s) == BoundedStep(s) \/ UnboundedStep(s)

Next ==
    \/ \E s \in Slots, p \in Photos : Take(s, p)
    \/ \E s \in Slots : SlotStep(s)
    \/ \E p \in Photos : PickUp(p)
    \/ SaveImage \/ Generate

Spec == Init /\ [][Next]_vars

\* The event loop runs every slot; GiveUp is the timeout of the request, ConnectionFails
\* that of the socket. Nothing makes a body or an upload end.
FairSpec == Spec /\ \A s \in Slots : WF_vars(BoundedStep(s))

-----------------------------------------------------------------------------
(* Properties *)

TypeOK ==
    /\ says \in [Photos -> Text]
    /\ slots \in [Slots -> Slot]
    /\ remote \in [Photos -> RemoteStates]
    /\ gpu \in [photo: Photos \cup {None}, at: {"idle", "save", "generate"}]
    /\ files \in [there: SUBSET Photos, refused: SUBSET Photos, nameless: SUBSET Photos]

\* What is stored came with a status of success - a page that did is stored as well -
\* but what is read is the photo itself, whatever was stored: the reading says of each
\* field what the model said of it for this very photo, whichever keys it used and
\* however it wrote the amount, or nothing; and a legible answer about a photo that did
\* arrive is lost only to an error of the network, a store or the worker.
FaithfulReading ==
    \A s \in Slots :
        LET slot == slots[s]
            text == says[slot.photo] IN
        /\ slot.stored => slot.status = "success"
        /\ slot.parsed # None => slot.body = slot.photo /\ slot.parsed = Wanted(text)
        /\ slot.pc = "done" /\ slot.body = slot.photo /\ Legible(text) /\ ~slot.trouble =>
             slot.parsed # None

\* A temporary image outlives its request only where the disk refused its removal, or
\* where it could not be written in full, when nobody tries to remove it: no mix of
\* answers that do not parse, pages in lieu of images, errors and timeouts leaves one.
NoFilesLeft == files.there \subseteq files.refused \cup files.nameless \cup {gpu.photo}

\* A reading ends unless one body or upload holds it for ever, also against servers
\* that redirect without end, stall or never answer.
ReadingEnds ==
    \A s \in Slots :
        []<>(slots[s].pc \notin {"receive", "upload"}) => (slots[s].pc # "idle" ~> slots[s].pc = "done")
=============================================================================
