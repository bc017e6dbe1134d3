--------------------------- MODULE RecordingFiles ---------------------------
(***************************************************************************)
(* What becomes of one registered video recording (recording.service.ts):  *)
(* its files, its row, and a playback page that is watching.               *)
(*                                                                         *)
(* Four jobs overlap: the finalization ("stop"), the live and the final    *)
(* thumbnail, and the upload.  Each works on files outside the process,    *)
(* then updates the row, then tells the page; these are three steps.       *)
(* RecordingService says when a recording is finalized, this module what   *)
(* happens then.  A microphone's recording has no thumbnails and otherwise *)
(* goes the same way.                                                      *)
(***************************************************************************)

CONSTANTS
    GcsBucket,      \* RECORDINGS_GCS_BUCKET is set
    None

ASSUME GcsBucketAssumption == GcsBucket \in BOOLEAN
ASSUME NoneAssumption == None \notin {"live", "final", "local", "signed"}

VARIABLES
    job,            \* how far each job is
    registered,     \* the session is in videoSessions or cameraSessions
    files,          \* temp file, final file, object in the bucket, thumbnail
    unlinking,      \* files that go once their unlink takes effect: nobody awaits it,
                    \* and one that fails is one that never does
    row,            \* the recording's row
    page,           \* the playback page: has it asked for the session?
    answer,         \* what getSessionDetail read for it
    view,           \* the links the page shows
    \* History:
    overtaken,      \* jobs that told the page something while its answer was under way
    unwritten,      \* jobs whose row update failed
    late,           \* the live thumbnail was under way when the final one began, or later
    unsigned        \* getSignedUrl failed

vars == <<job, registered, files, unlinking, row, page, answer, view, overtaken,
          unwritten, late, unsigned>>

Job == {"stop", "live", "final", "upload"}

Phase == {"none", "working", "writing", "telling", "done"}

Links == [url : {None, "local", "signed"}, thumb : {None, "live", "final"}]

Row == [stopped : BOOLEAN,              \* stoppedAt
        content : BOOLEAN,              \* hasContent
        uploaded : BOOLEAN,             \* gcsUploadedAt
        thumb : {None, "live", "final"}]    \* thumbnailStatus

Files == [temp : BOOLEAN, final : BOOLEAN, object : BOOLEAN,
          thumb : {None, "live", "final"}]

\* The take is verified: its temp file grows and its session is registered.
Init ==
    /\ job = [j \in Job |-> "none"]
    /\ registered = TRUE
    /\ files = [temp |-> TRUE, final |-> FALSE, object |-> FALSE, thumb |-> None]
    /\ unlinking = {}
    /\ row = [stopped |-> FALSE, content |-> FALSE, uploaded |-> FALSE, thumb |-> None]
    /\ page = "closed"
    /\ answer = [url |-> None, thumb |-> None]
    /\ view = [url |-> None, thumb |-> None]
    /\ overtaken = {}
    /\ unwritten = {}
    /\ late = FALSE
    /\ unsigned = FALSE

diskVars == <<files, unlinking>>
pageVars == <<page, answer, view, overtaken, unsigned>>

Enter(j, phase) == job' = [job EXCEPT ![j] = phase]

-----------------------------------------------------------------------------
(* finalizeVideoSession, finalizeCombinedCameraSession *)

\* A closing producer, or an upgrade to a camera session, takes the session out of its
\* map; stop() leaves it there.
Finalize ==
    /\ job["stop"] = "none"
    /\ Enter("stop", "working")
    /\ registered' \in BOOLEAN
    /\ UNCHANGED <<diskVars, row, unwritten, late, pageVars>>

\* Mutant: the temp file is kept.
RemuxedKeepingTemp ==
    /\ job["stop"] = "working"
    /\ Enter("stop", "writing")
    /\ \E done \in BOOLEAN : files' = [files EXCEPT !.final = done]
    /\ UNCHANGED <<registered, unlinking, row, unwritten, late, pageVars>>

\* ffmpeg has quit and the temp file is remuxed; it is unlinked once the final file is
\* there, and stays if the remux fails.
Remuxed ==
    /\ job["stop"] = "working"
    /\ Enter("stop", "writing")
    /\ \E done \in BOOLEAN :
        /\ files' = [files EXCEPT !.final = done]
        /\ unlinking' = IF done THEN {"temp"} ELSE {}
    /\ UNCHANGED <<registered, row, unwritten, late, pageVars>>

\* stoppedAt and hasContent; an update that fails is logged and no more.
StopRecorded ==
    /\ job["stop"] = "writing"
    /\ Enter("stop", "telling")
    /\ \/ row' = [row EXCEPT !.stopped = TRUE, !.content = files.final]
          /\ UNCHANGED unwritten
       \/ row' = row /\ unwritten' = unwritten \union {"stop"}
    /\ UNCHANGED <<registered, diskVars, late, pageVars>>

\* The page takes a change of its links when it has them.
Tell(j, change) ==
    /\ view' = IF page = "open" THEN change ELSE view
    /\ overtaken' = IF page = "reading" THEN overtaken \union {j} ELSE overtaken
    /\ UNCHANGED <<page, answer>>

\* Mutant: the link is sent whether or not there is a file.
ReadyWithLink ==
    /\ job["stop"] = "telling"
    /\ Tell("stop", [view EXCEPT !.url = "local"])
    /\ job' = [job EXCEPT
            !["stop"] = "done",
            !["final"] = IF files.final THEN "working" ELSE @,
            !["upload"] = IF files.final /\ GcsBucket THEN "working" ELSE @]
    /\ late' = (job["live"] \in {"working", "writing", "telling"})
    /\ UNCHANGED <<registered, diskVars, row, unwritten, unsigned>>

\* recording-ready is emitted whether or not the row could be updated.  What there
\* is to thumbnail and to upload starts at once.
Ready ==
    /\ job["stop"] = "telling"
    /\ Tell("stop", [view EXCEPT !.url = IF files.final THEN "local" ELSE None])
    /\ job' = [job EXCEPT
            !["stop"] = "done",
            !["final"] = IF files.final THEN "working" ELSE @,
            !["upload"] = IF files.final /\ GcsBucket THEN "working" ELSE @]
    /\ late' = (job["live"] \in {"working", "writing", "telling"})
    /\ UNCHANGED <<registered, diskVars, row, unwritten, unsigned>>

-----------------------------------------------------------------------------
(* generateLiveThumbnail, generateFinalThumbnail *)

\* The timer of a started recording: the session must still be in its map, and
\* ffmpeg finds the temp file or gives up.
LiveDue ==
    /\ job["live"] = "none"
    /\ Enter("live", IF registered /\ files.temp THEN "working" ELSE "done")
    /\ late' = (late \/ (registered /\ "temp" \in unlinking /\ job["final"] # "none"))
    /\ UNCHANGED <<registered, diskVars, row, unwritten, pageVars>>

\* ffmpeg overwrites the one thumbnail file both share.
Extracted(j) ==
    /\ job[j] = "working"
    /\ Enter(j, "writing")
    /\ files' = [files EXCEPT !.thumb = j]
    /\ UNCHANGED <<registered, unlinking, row, unwritten, late, pageVars>>

\* Logged, and the thumbnail is left as it was.
NotExtracted(j) ==
    /\ job[j] = "working"
    /\ Enter(j, "done")
    /\ UNCHANGED <<registered, diskVars, row, unwritten, late, pageVars>>

\* The update rejects: logged by the caller, and nobody is told.
ThumbnailRecorded(j) ==
    /\ job[j] = "writing"
    /\ \/ row' = [row EXCEPT !.thumb = j] /\ Enter(j, "telling")
       \/ row' = row /\ Enter(j, "done")
    /\ UNCHANGED <<registered, diskVars, unwritten, late, pageVars>>

ThumbnailUpdated(j) ==
    /\ job[j] = "telling"
    /\ Enter(j, "done")
    /\ Tell(j, [view EXCEPT !.thumb = j])
    /\ UNCHANGED <<registered, diskVars, row, unwritten, late, unsigned>>

-----------------------------------------------------------------------------
(* uploadAndNotify *)

\* Mutant: the local file goes even if the upload failed.
SentUnlinking ==
    /\ job["upload"] = "working"
    /\ Enter("upload", "writing")
    /\ \E done \in BOOLEAN : files' = [files EXCEPT !.object = done]
    /\ unlinking' = unlinking \union {"final"}
    /\ UNCHANGED <<registered, row, unwritten, late, pageVars>>

\* The local file is unlinked once the object is in the bucket.
Sent ==
    /\ job["upload"] = "working"
    /\ Enter("upload", "writing")
    /\ \E done \in BOOLEAN :
        /\ files' = [files EXCEPT !.object = done]
        /\ unlinking' = IF done THEN unlinking \union {"final"} ELSE unlinking
    /\ UNCHANGED <<registered, row, unwritten, late, pageVars>>

\* Mutant: gcsUploadedAt is set with gcsPath, whatever became of the upload.
RecordedAsUploaded ==
    /\ job["upload"] = "writing"
    /\ Enter("upload", IF files.object THEN "telling" ELSE "done")
    /\ row' = [row EXCEPT !.uploaded = TRUE]
    /\ UNCHANGED <<registered, diskVars, unwritten, late, pageVars>>

\* gcsUploadedAt, if it worked; an update that fails is logged and no more.
UploadRecorded ==
    /\ job["upload"] = "writing"
    /\ Enter("upload", IF files.object THEN "telling" ELSE "done")
    /\ \/ row' = [row EXCEPT !.uploaded = files.object] /\ UNCHANGED unwritten
       \/ row' = row /\ unwritten' = unwritten \union {"upload"}
    /\ UNCHANGED <<registered, diskVars, late, pageVars>>

\* recording-uploaded carries no link if getSignedUrl fails.
UploadTold ==
    /\ job["upload"] = "telling"
    /\ Enter("upload", "done")
    /\ \E signs \in BOOLEAN :
        /\ Tell("upload", [view EXCEPT !.url = IF signs THEN "signed" ELSE None])
        /\ unsigned' = (unsigned \/ ~signs)
    /\ UNCHANGED <<registered, diskVars, row, unwritten, late>>

\* An unlink takes effect.
Unlinked(f) ==
    /\ f \in unlinking
    /\ files' = [files EXCEPT ![f] = FALSE]
    /\ unlinking' = unlinking \ {f}
    /\ UNCHANGED <<job, registered, row, unwritten, late, pageVars>>

-----------------------------------------------------------------------------
(* getSessionDetail *)

\* buildPlaybackUrls.
Shown(r) ==
    [url |-> IF ~r.stopped \/ ~r.content THEN None
             ELSE IF r.uploaded /\ GcsBucket THEN "signed" ELSE "local",
     thumb |-> r.thumb]

\* The page has subscribed before it asks; the row is read here.
Opened ==
    /\ page = "closed"
    /\ page' = "reading"
    /\ answer' = Shown(row)
    /\ UNCHANGED <<job, registered, diskVars, row, view, overtaken, unwritten, late, unsigned>>

\* The links are signed and the timeline is read before the answer goes out.
Answered ==
    /\ page = "reading"
    /\ page' = "open"
    /\ \/ view' = answer /\ UNCHANGED unsigned
       \/ /\ answer.url = "signed"
          /\ view' = [answer EXCEPT !.url = None]
          /\ unsigned' = TRUE
    /\ UNCHANGED <<job, registered, diskVars, row, answer, overtaken, unwritten, late>>

-----------------------------------------------------------------------------

Thumbnail(j) == Extracted(j) \/ NotExtracted(j) \/ ThumbnailRecorded(j) \/ ThumbnailUpdated(j)

Next ==
    \/ Finalize \/ Remuxed \/ StopRecorded \/ Ready
    \/ LiveDue
    \/ \E j \in {"live", "final"} : Thumbnail(j)
    \/ Sent \/ UploadRecorded \/ UploadTold
    \/ \E f \in {"temp", "final"} : Unlinked(f)
    \/ Opened \/ Answered

Spec == Init /\ [][Next]_vars

-----------------------------------------------------------------------------
(* Properties *)

TypeOK ==
    /\ job \in [Job -> Phase]
    /\ registered \in BOOLEAN
    /\ files \in Files /\ unlinking \subseteq {"temp", "final"}
    /\ row \in Row
    /\ page \in {"closed", "reading", "open"}
    /\ answer \in Links /\ view \in Links
    /\ overtaken \subseteq Job /\ unwritten \subseteq Job
    /\ late \in BOOLEAN /\ unsigned \in BOOLEAN

\* "Never lose a recording over a best-effort step": whatever fails, the capture is
\* in the temp file, in the final file or in the bucket.
CaptureSurvives == files.temp \/ files.final \/ files.object

Serves(url) ==
    CASE url = "local" -> files.final
      [] url = "signed" -> files.object
      [] OTHER -> TRUE

\* The link a page gets on loading plays ("serves the local VM file until
\* gcsUploadedAt confirms the upload actually landed").  The upload deletes the local
\* file before the row says so, and the row stays that way if its update fails: those
\* are the only times it does not.
LinkPlaysUnlessUnrecorded ==
    Serves(Shown(row).url) \/ job["upload"] = "writing" \/ "upload" \in unwritten

\* A final thumbnail is not replaced by the live one, in the row or on disk, unless
\* the live one was still being made when the recording was ready, or its timer fires
\* so late that only an unlink still under way lets it read: once the temp file is
\* gone it finds nothing.
FinalThumbnailStays ==
    [][/\ row.thumb = "final" /\ files.thumb = "final" /\ ~late
       => row'.thumb = "final" /\ files'.thumb = "final"]_vars

Quiet == page = "open" /\ \A j \in Job : job[j] \in {"none", "done"}

\* When all is done the page shows what a reload would: the events and
\* getSessionDetail compute the same links.  What was told while the answer was
\* under way is lost, and so are links that could not be stored or signed.
PageIsCurrent ==
    Quiet =>
        /\ \/ view.url = Shown(row).url
           \/ {"stop", "upload"} \intersect (overtaken \union unwritten) # {}
           \/ unsigned
        /\ \/ view.thumb = Shown(row).thumb
           \/ {"live", "final"} \intersect overtaken # {}
           \/ late

=============================================================================
