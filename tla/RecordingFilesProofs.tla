------------------------ MODULE RecordingFilesProofs ------------------------
(* The safety properties of RecordingFiles, with and without a bucket. *)
EXTENDS RecordingFiles, TLAPS

-----------------------------------------------------------------------------
(* The invariant *)

\* The capture beyond the temp file.
Content == files.final \/ files.object

\* The capture moves from the temp file to the final file to the bucket: where it came
\* from is only there still while it is to be unlinked.
Place ==
    /\ files.temp \/ Content
    /\ files.temp /\ Content => "temp" \in unlinking
    /\ "temp" \in unlinking => Content
    /\ "final" \in unlinking => files.object
    /\ job["stop"] \in {"none", "working"} => files.temp /\ ~Content

\* What a job does not begin before, and what it leaves in the row.
Order ==
    /\ job["stop"] # "done" => job["final"] = "none" /\ job["upload"] = "none" /\ ~late
    /\ job["final"] # "none" => Content
    /\ job["upload"] \in {"none", "working"} => ~files.object
    /\ job["upload"] # "none" => GcsBucket /\ Content
    /\ job["upload"] = "telling" => files.object

Recorded ==
    /\ job["stop"] \in {"none", "working", "writing"} => ~row.stopped /\ ~row.content
    /\ job["stop"] \in {"telling", "done"} =>
        \/ row.stopped /\ (row.content <=> Content)
        \/ "stop" \in unwritten /\ ~row.stopped
    /\ row.uploaded => files.object
    /\ files.object =>
        row.uploaded \/ job["upload"] = "writing" \/ "upload" \in unwritten

\* The live thumbnail is out of the way when the final one begins, or is late.
Thumbnails ==
    /\ job["final"] # "none" => late \/ job["live"] \in {"none", "done"}
    /\ row.thumb = "final" => job["final"] # "none"
    /\ job["live"] = "telling" => late \/ row.thumb = "live"
    /\ job["final"] = "telling" => late \/ row.thumb = "final"

UrlLost ==
    \/ "stop" \in overtaken \/ "upload" \in overtaken
    \/ "stop" \in unwritten \/ "upload" \in unwritten
    \/ unsigned

ThumbLost == "live" \in overtaken \/ "final" \in overtaken \/ late

\* Links that say what the row says, but for what is about to be told or was lost.
UrlCurrent(links) ==
    UrlLost \/ job["stop"] = "telling" \/ job["upload"] = "telling"
            \/ links.url = Shown(row).url

ThumbCurrent(links) ==
    ThumbLost \/ job["live"] = "telling" \/ job["final"] = "telling"
              \/ links.thumb = row.thumb

Current ==
    /\ page = "open" => UrlCurrent(view) /\ ThumbCurrent(view)
    /\ page = "reading" => UrlCurrent(answer) /\ ThumbCurrent(answer)

IInv == TypeOK /\ Place /\ Order /\ Recorded /\ Thumbnails /\ Current

USE DEF diskVars, Content

-----------------------------------------------------------------------------
(* It is inductive *)

\* What getSessionDetail answers is typed, and its thumbnail is the row's.
LEMMA ShownType ==
  ASSUME NEW r \in Row
  PROVE  Shown(r) \in Links /\ Shown(r).thumb = r.thumb
BY DEF Shown, Row, Links

\* A recording that has just been verified.
LEMMA InitialState == Init => IInv
<1> SUFFICES ASSUME Init PROVE IInv
  OBVIOUS
<1>1. TypeOK
  BY DEF Init, TypeOK, Job, Phase, Files, Row, Links
<1>2. Place /\ Order /\ Recorded /\ Current
  BY DEF Init, Place, Order, Recorded, Current, Job
<1>3. Thumbnails
  BY NoneAssumption DEF Init, Thumbnails, Job
<1> QED
  BY <1>1, <1>2, <1>3 DEF IInv

\* A session that begins to be finalized changes nothing on disk yet.
LEMMA FinalizeStep == IInv /\ Finalize => IInv'
<1> SUFFICES ASSUME IInv, Finalize PROVE IInv'
  OBVIOUS
<1>1. TypeOK'
  BY DEF IInv, TypeOK, Finalize, Enter, pageVars, Job, Phase
<1>2. (Place /\ Order /\ Recorded /\ Thumbnails)'
  BY DEF IInv, TypeOK, Place, Order, Recorded, Thumbnails, Finalize, Enter, pageVars, Job
<1>3. Current'
  BY DEF IInv, TypeOK, Current, UrlCurrent, ThumbCurrent, UrlLost, ThumbLost, Shown,
         Finalize, Enter, pageVars, Job
<1> QED
  BY <1>1, <1>2, <1>3 DEF IInv

\* The remux leaves the final file beside the temp file, or the temp file alone.
LEMMA RemuxedStep == IInv /\ Remuxed => IInv'
<1> SUFFICES ASSUME IInv, Remuxed PROVE IInv'
  OBVIOUS
<1>1. PICK done \in BOOLEAN : /\ files' = [files EXCEPT !.final = done]
                              /\ unlinking' = IF done THEN {"temp"} ELSE {}
  BY DEF Remuxed
<1>2. TypeOK'
  BY <1>1 DEF IInv, TypeOK, Remuxed, Enter, pageVars, Job, Phase, Files
<1>3. (Place /\ Order /\ Recorded /\ Thumbnails)'
  BY <1>1 DEF IInv, TypeOK, Place, Order, Recorded, Thumbnails, Remuxed, Enter, pageVars,
              Job, Files
<1>4. Current'
  BY DEF IInv, TypeOK, Current, UrlCurrent, ThumbCurrent, UrlLost, ThumbLost, Shown,
         Remuxed, Enter, pageVars, Job
<1> QED
  BY <1>2, <1>3, <1>4 DEF IInv

\* The row learns that the recording has stopped, or is never told.
LEMMA StopRecordedStep == IInv /\ StopRecorded => IInv'
<1> SUFFICES ASSUME IInv, StopRecorded PROVE IInv'
  OBVIOUS
<1>1. TypeOK'
  BY DEF IInv, TypeOK, StopRecorded, Enter, pageVars, Job, Phase, Row, Files
<1>2. (Place /\ Order /\ Thumbnails)'
  BY DEF IInv, TypeOK, Place, Order, Thumbnails, StopRecorded, Enter, pageVars, Job, Row
<1>3. Recorded'
  BY DEF IInv, TypeOK, Place, Order, Recorded, StopRecorded, Enter, pageVars, Job, Row, Files
<1>4. Current'
  BY DEF IInv, TypeOK, Current, UrlCurrent, ThumbCurrent, UrlLost, ThumbLost,
         StopRecorded, Enter, pageVars, Job, Row
<1> QED
  BY <1>1, <1>2, <1>3, <1>4 DEF IInv

\* The page is told of the file, and the jobs that need one begin.
LEMMA ReadyStep == IInv /\ Ready => IInv'
<1> SUFFICES ASSUME IInv, Ready PROVE IInv'
  OBVIOUS
<1>1. TypeOK'
  BY NoneAssumption DEF IInv, TypeOK, Ready, Tell, Job, Phase, Links
<1>2. (Place /\ Order /\ Recorded /\ Thumbnails)'
  <2>1. files.final <=> Content
    BY DEF IInv, Order, Ready
  <2>2. late' <=> job["live"] \in {"working", "writing", "telling"}
    BY DEF Ready
  <2>3. Place' /\ Recorded'
    BY <2>1 DEF IInv, TypeOK, Place, Order, Recorded, Ready, Tell, Job
  <2>4. Order'
    BY <2>1 DEF IInv, TypeOK, Order, Ready, Tell, Job
  <2>5. Thumbnails'
    BY <2>2 DEF IInv, TypeOK, Order, Thumbnails, Ready, Tell, Job, Phase
  <2> QED
    BY <2>3, <2>4, <2>5
<1>3. page = "open" => UrlCurrent(view)'
  BY DEF IInv, TypeOK, Place, Order, Recorded, UrlCurrent, UrlLost, Shown, Ready, Tell,
         Job, Files, Row, Links
<1>4. page = "open" => ThumbCurrent(view)'
  BY DEF IInv, TypeOK, Order, Current, ThumbCurrent, ThumbLost, Ready, Tell, Job, Row, Links
<1>5. page = "reading" => UrlCurrent(answer)'
  BY DEF IInv, TypeOK, UrlCurrent, UrlLost, Ready, Tell
<1>6. page = "reading" => ThumbCurrent(answer)'
  BY DEF IInv, TypeOK, Order, Current, ThumbCurrent, ThumbLost, Ready, Tell, Job, Row, Links
<1> QED
  BY <1>1, <1>2, <1>3, <1>4, <1>5, <1>6 DEF IInv, Current, Ready, Tell

\* Without a temp file the timer does nothing.
LEMMA LiveDueStep == IInv /\ LiveDue => IInv'
<1> SUFFICES ASSUME IInv, LiveDue PROVE IInv'
  OBVIOUS
<1>1. TypeOK'
  BY DEF IInv, TypeOK, LiveDue, Enter, pageVars, Job, Phase
<1>2. (Place /\ Order /\ Recorded /\ Thumbnails)'
  BY DEF IInv, TypeOK, Place, Order, Recorded, Thumbnails, LiveDue, Enter, pageVars, Job
<1>3. Current'
  BY DEF IInv, TypeOK, Current, UrlCurrent, ThumbCurrent, UrlLost, ThumbLost,
         LiveDue, Enter, pageVars, Job
<1> QED
  BY <1>1, <1>2, <1>3 DEF IInv

\* A thumbnail is written, recorded, told, or given up.
LEMMA ThumbnailStep ==
  ASSUME NEW j \in {"live", "final"}
  PROVE  IInv /\ Thumbnail(j) => IInv'
<1> SUFFICES ASSUME IInv, Thumbnail(j) PROVE IInv'
  OBVIOUS
<1>1. TypeOK'
  BY DEF IInv, TypeOK, Thumbnail, Extracted, NotExtracted, ThumbnailRecorded,
         ThumbnailUpdated, Tell, Enter, pageVars, Job, Phase, Files, Row, Links
<1>2. (Place /\ Order /\ Recorded)'
  BY DEF IInv, TypeOK, Place, Order, Recorded, Thumbnail, Extracted, NotExtracted,
         ThumbnailRecorded, ThumbnailUpdated, Tell, Enter, pageVars, Job, Files, Row
<1>3. Thumbnails'
  BY DEF IInv, TypeOK, Order, Thumbnails, Thumbnail, Extracted, NotExtracted,
         ThumbnailRecorded, ThumbnailUpdated, Tell, Enter, pageVars, Job, Row
<1>4. CASE Extracted(j) \/ NotExtracted(j)
  <2> Current'
    BY <1>4 DEF IInv, TypeOK, Current, UrlCurrent, ThumbCurrent, UrlLost, ThumbLost,
                Extracted, NotExtracted, Enter, pageVars, Job
  <2> QED
    BY <1>1, <1>2, <1>3 DEF IInv
<1>5. CASE ThumbnailRecorded(j)
  <2>1. Shown(row').url = Shown(row).url
    BY <1>5 DEF IInv, TypeOK, ThumbnailRecorded, Shown, Row
  <2>2. Current'
    BY <1>5, <2>1 DEF IInv, TypeOK, Current, UrlCurrent, ThumbCurrent, UrlLost, ThumbLost,
                ThumbnailRecorded, Enter, pageVars, Job, Row
  <2> QED
    BY <1>1, <1>2, <1>3, <2>2 DEF IInv
<1>6. CASE ThumbnailUpdated(j)
  <2>1. page = "open" => UrlCurrent(view)' /\ ThumbCurrent(view)'
    BY <1>6 DEF IInv, TypeOK, Current, Thumbnails, UrlCurrent, ThumbCurrent, UrlLost,
                ThumbLost, ThumbnailUpdated, Tell, Enter, Job, Links
  <2>2. page = "reading" => UrlCurrent(answer)' /\ ThumbCurrent(answer)'
    BY <1>6 DEF IInv, TypeOK, Current, UrlCurrent, ThumbCurrent, UrlLost, ThumbLost,
                ThumbnailUpdated, Tell, Enter, Job
  <2> QED
    BY <1>1, <1>2, <1>3, <1>6, <2>1, <2>2 DEF IInv, Current, ThumbnailUpdated, Tell
<1> QED
  BY <1>4, <1>5, <1>6 DEF Thumbnail

\* The upload leaves the object beside the file, or the file alone.
LEMMA SentStep == IInv /\ Sent => IInv'
<1> SUFFICES ASSUME IInv, Sent PROVE IInv'
  OBVIOUS
<1>1. PICK done \in BOOLEAN :
        /\ files' = [files EXCEPT !.object = done]
        /\ unlinking' = IF done THEN unlinking \union {"final"} ELSE unlinking
  BY DEF Sent
<1>2. TypeOK'
  BY <1>1 DEF IInv, TypeOK, Sent, Enter, pageVars, Job, Phase, Files
<1>3. (Place /\ Order /\ Recorded /\ Thumbnails)'
  BY <1>1 DEF IInv, TypeOK, Place, Order, Recorded, Thumbnails, Sent, Enter, pageVars,
              Job, Files
<1>4. Current'
  BY DEF IInv, TypeOK, Current, UrlCurrent, ThumbCurrent, UrlLost, ThumbLost, Shown,
         Sent, Enter, pageVars, Job
<1> QED
  BY <1>2, <1>3, <1>4 DEF IInv

\* The row learns of the object, or is never told.
LEMMA UploadRecordedStep == IInv /\ UploadRecorded => IInv'
<1> SUFFICES ASSUME IInv, UploadRecorded PROVE IInv'
  OBVIOUS
<1>1. TypeOK'
  BY DEF IInv, TypeOK, UploadRecorded, Enter, pageVars, Job, Phase, Row, Files
<1>2. (Place /\ Order /\ Recorded /\ Thumbnails)'
  BY DEF IInv, TypeOK, Place, Order, Recorded, Thumbnails, UploadRecorded, Enter, pageVars,
         Job, Row, Files
<1>3. ~files.object => row.uploaded' = row.uploaded \/ "upload" \in unwritten'
  BY DEF IInv, TypeOK, Recorded, UploadRecorded, Row, Files
<1>4. Current'
  BY <1>3 DEF IInv, TypeOK, Recorded, Current, UrlCurrent, ThumbCurrent, UrlLost, ThumbLost,
         Shown, UploadRecorded, Enter, pageVars, Job, Row, Files
<1> QED
  BY <1>1, <1>2, <1>4 DEF IInv

\* The capture is elsewhere when a file goes.
LEMMA UnlinkedStep ==
  ASSUME NEW f \in {"temp", "final"}
  PROVE  IInv /\ Unlinked(f) => IInv'
<1> SUFFICES ASSUME IInv, Unlinked(f) PROVE IInv'
  OBVIOUS
<1>1. /\ files' = [files EXCEPT ![f] = FALSE]
      /\ unlinking' = unlinking \ {f} /\ f \in unlinking
  BY DEF Unlinked
<1>2. files'.thumb = files.thumb /\ files' \in Files
  BY <1>1 DEF IInv, TypeOK, Files
<1>3. TypeOK'
  BY <1>1, <1>2 DEF IInv, TypeOK, Unlinked, pageVars
<1>4. (Content <=> Content') /\ files'.object = files.object
  BY <1>1 DEF IInv, TypeOK, Place, Files
<1>5. Place'
  BY <1>1, <1>4 DEF IInv, TypeOK, Place, Unlinked, Files
<1>6. (Order /\ Recorded /\ Thumbnails /\ Current)'
  BY <1>1, <1>4 DEF IInv, TypeOK, Order, Recorded, Thumbnails, Current, UrlCurrent,
                    ThumbCurrent, UrlLost, ThumbLost, Shown, Unlinked, pageVars, Files
<1> QED
  BY <1>3, <1>5, <1>6 DEF IInv

\* The page changes over to the signed link, if there is one.
LEMMA UploadToldStep == IInv /\ UploadTold => IInv'
<1> SUFFICES ASSUME IInv, UploadTold PROVE IInv'
  OBVIOUS
<1>1. PICK signs \in BOOLEAN :
        /\ Tell("upload", [view EXCEPT !.url = IF signs THEN "signed" ELSE None])
        /\ unsigned' = (unsigned \/ ~signs)
  BY DEF UploadTold
<1>2. TypeOK'
  BY <1>1 DEF IInv, TypeOK, UploadTold, Tell, Enter, Job, Phase, Links
<1>3. (Place /\ Order /\ Recorded /\ Thumbnails)'
  BY DEF IInv, TypeOK, Place, Order, Recorded, Thumbnails, UploadTold, Enter, Job
<1>4. page = "open" => UrlCurrent(view)'
  BY <1>1 DEF IInv, TypeOK, Place, Order, Recorded, UrlCurrent, UrlLost, Shown, UploadTold,
              Tell, Enter, Job, Row, Files, Links
<1>5. page = "open" => ThumbCurrent(view)'
  BY <1>1 DEF IInv, TypeOK, Current, ThumbCurrent, ThumbLost, UploadTold, Tell, Enter, Job,
              Links
<1>6. page = "reading" => UrlCurrent(answer)' /\ ThumbCurrent(answer)'
  BY <1>1 DEF IInv, TypeOK, Current, UrlCurrent, ThumbCurrent, UrlLost, ThumbLost,
              UploadTold, Tell, Enter, Job
<1> QED
  BY <1>1, <1>2, <1>3, <1>4, <1>5, <1>6 DEF IInv, Current, Tell

\* The row is read.
LEMMA OpenedStep == IInv /\ Opened => IInv'
<1> SUFFICES ASSUME IInv, Opened PROVE IInv'
  OBVIOUS
<1>1. answer' \in Links /\ answer'.thumb = row.thumb
  BY ShownType DEF IInv, TypeOK, Opened
<1>2. TypeOK'
  BY <1>1 DEF IInv, TypeOK, Opened
<1>3. (Place /\ Order /\ Recorded /\ Thumbnails)'
  BY DEF IInv, Place, Order, Recorded, Thumbnails, Opened
<1>4. Current'
  BY <1>1 DEF Current, UrlCurrent, ThumbCurrent, Opened
<1> QED
  BY <1>2, <1>3, <1>4 DEF IInv

\* The answer arrives.
LEMMA AnsweredStep == IInv /\ Answered => IInv'
<1> SUFFICES ASSUME IInv, Answered PROVE IInv'
  OBVIOUS
<1>1. TypeOK'
  BY DEF IInv, TypeOK, Answered, Links
<1>2. (Place /\ Order /\ Recorded /\ Thumbnails)'
  BY DEF IInv, Place, Order, Recorded, Thumbnails, Answered
<1>3. Current'
  BY DEF IInv, TypeOK, Current, UrlCurrent, ThumbCurrent, UrlLost, ThumbLost, Answered, Links
<1> QED
  BY <1>1, <1>2, <1>3 DEF IInv

\* Every step of the four jobs and of the page keeps the invariant.
LEMMA StepKeepsInvariant == IInv /\ [Next]_vars => IInv'
<1> SUFFICES ASSUME IInv, [Next]_vars PROVE IInv'
  OBVIOUS
<1>1. CASE UNCHANGED vars
  BY <1>1 DEF IInv, TypeOK, Place, Order, Recorded, Thumbnails, Current, UrlCurrent,
              ThumbCurrent, UrlLost, ThumbLost, vars
<1>2. CASE Next
  BY <1>2, FinalizeStep, RemuxedStep, StopRecordedStep, ReadyStep, LiveDueStep,
     ThumbnailStep, SentStep, UploadRecordedStep, UploadToldStep, UnlinkedStep, OpenedStep,
     AnsweredStep
     DEF Next
<1> QED
  BY <1>1, <1>2

-----------------------------------------------------------------------------
(* Theorems *)

\* The invariant holds throughout.
THEOREM Invariant == Spec => []IInv
BY InitialState, StepKeepsInvariant, PTL DEF Spec

\* Type correctness of the files, the row and the page.
THEOREM TypeCorrect == Spec => []TypeOK
<1>1. IInv => TypeOK
  BY DEF IInv
<1> QED
  BY <1>1, Invariant, PTL

\* remuxToFinalFile and uploadToGcsIfConfigured never leave a recording without its
\* capture, whichever of them fails.
THEOREM NothingIsLost == Spec => []CaptureSurvives
<1>1. IInv => CaptureSurvives
  BY DEF IInv, Place, CaptureSurvives
<1> QED
  BY <1>1, Invariant, PTL

\* The link of buildPlaybackUrls plays, but for an upload the row does not know of.
THEOREM LinksPlay == Spec => []LinkPlaysUnlessUnrecorded
<1>1. IInv => LinkPlaysUnlessUnrecorded
  <2> SUFFICES ASSUME IInv, job["upload"] # "writing", "upload" \notin unwritten
               PROVE  Serves(Shown(row).url)
    BY DEF LinkPlaysUnlessUnrecorded
  <2>1. CASE Shown(row).url = "local"
    <3>1. row.stopped /\ row.content /\ ~(row.uploaded /\ GcsBucket)
      BY <2>1, NoneAssumption DEF Shown
    <3>2. Content /\ ~files.object
      BY <3>1 DEF IInv, TypeOK, Order, Recorded, Job, Phase, Files, Row
    <3> QED
      BY <2>1, <3>2 DEF IInv, Place, Serves
  <2>2. CASE Shown(row).url = "signed"
    <3>1. row.uploaded
      BY <2>2, NoneAssumption DEF Shown
    <3> QED
      BY <2>2, <3>1 DEF IInv, Recorded, Serves
  <2>3. CASE Shown(row).url \notin {"local", "signed"}
    BY <2>3 DEF Serves
  <2> QED
    BY <2>1, <2>2, <2>3
<1> QED
  BY <1>1, Invariant, PTL

\* The events and getSessionDetail agree on what a page shows when all is done.
THEOREM PagesCatchUp == Spec => []PageIsCurrent
<1>1. IInv => PageIsCurrent
  <2> SUFFICES ASSUME IInv, Quiet PROVE PageIsCurrent
    BY DEF PageIsCurrent
  <2>1. UrlCurrent(view) /\ ThumbCurrent(view) /\ \A j \in Job : job[j] # "telling"
    BY DEF IInv, Current, Quiet
  <2>2. UrlLost \/ view.url = Shown(row).url
    BY <2>1 DEF UrlCurrent, Job
  <2>3. ThumbLost \/ view.thumb = Shown(row).thumb
    BY <2>1, ShownType DEF ThumbCurrent, Job, IInv, TypeOK
  <2> QED
    BY <2>2, <2>3 DEF PageIsCurrent, UrlLost, ThumbLost
<1> QED
  BY <1>1, Invariant, PTL

\* generateLiveThumbnail does not undo generateFinalThumbnail, unless it was under
\* way when that one began.
THEOREM FinalThumbnailKept == Spec => FinalThumbnailStays
<1> DEFINE Stays ==
        row.thumb = "final" /\ files.thumb = "final" /\ ~late
            => row'.thumb = "final" /\ files'.thumb = "final"
<1>1. IInv /\ [Next]_vars => [Stays]_vars
  <2> SUFFICES ASSUME IInv, Next, row.thumb = "final", files.thumb = "final", ~late
               PROVE  row'.thumb = "final" /\ files'.thumb = "final"
    OBVIOUS
  <2>1. job["live"] \in {"none", "done"}
    BY DEF IInv, Thumbnails
  <2>2. CASE \E j \in {"live", "final"} : Thumbnail(j)
    BY <2>1, <2>2 DEF IInv, TypeOK, Thumbnail, Extracted, NotExtracted, ThumbnailRecorded,
                      ThumbnailUpdated, pageVars, Files, Row
  <2>3. CASE Finalize \/ LiveDue \/ Ready \/ UploadTold \/ Opened \/ Answered
    BY <2>3 DEF Finalize, LiveDue, Ready, UploadTold, Opened, Answered
  <2>4. CASE Remuxed \/ Sent \/ \E f \in {"temp", "final"} : Unlinked(f)
    BY <2>4 DEF IInv, TypeOK, Remuxed, Sent, Unlinked, Files
  <2>5. CASE StopRecorded \/ UploadRecorded
    BY <2>5 DEF IInv, TypeOK, StopRecorded, UploadRecorded, Row
  <2> QED
    BY <2>2, <2>3, <2>4, <2>5 DEF Next
<1> QED
  BY <1>1, Invariant, PTL DEF Spec, FinalThumbnailStays

=============================================================================
