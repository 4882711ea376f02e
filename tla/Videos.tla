------------------------------- MODULE Videos -------------------------------
(***************************************************************************)
(* A YouTube video attached to a module: a row, a work directory, and two  *)
(* chained jobs that share them.                                           *)
(*   routes/modules/videos.js, routes/racks/videos.js   attach, delete     *)
(*   jobs/handlers/videos.js, services/videos.js        download_video     *)
(*   services/videoAnalyzer.js                          analyze_video      *)
(*   jobs/worker.js resetJobTarget                      a dead job's row   *)
(*                                                                         *)
(* What is on disk is "none", "partial" (the directory exists, the frames  *)
(* are not all out of the video yet) or "frames"; a summary is known by    *)
(* which of these its prompt was made from.                                *)
(***************************************************************************)
EXTENDS JobRuns

VARIABLES video,     \* module_videos.status
          files,     \* the video's work directory
          summary,   \* what module_videos.summary was written from, {} if none
          attaching  \* a POST that has written the row and not yet queued its job

vVars == <<video, files, summary, attaching>>
videoVars == <<queueVars, vVars>>

VideoTypes == {"download_video", "analyze_video"}
Attached == video \notin {"none", "deleted"}

\* The video's one target number in the jobs table.
Video == 1

NoVideo == video = "none" /\ files = "none" /\ summary = {} /\ attaching = FALSE

VideoInit == QueueInit /\ NoVideo

\* Rows left for the job being queued, its chained analysis, and those that
\* unfinished downloads still have to chain (the bound MaxJobs).
VideoRoom ==
  LET owed == {j \in Ids : /\ jobs[j].type = "download_video"
                           /\ jobs[j].status # "complete"}
  IN  NextId + 1 + Cardinality(owed) \in Ids

-----------------------------------------------------------------------------
(* The requests. *)

\* POST /:id/videos and the imports, which do the same for each selection: a
\* link is taken when it is new or has failed, and its row is made pending ...
AttachRow ==
  /\ ~attaching /\ video \in {"none", "failed"} /\ VideoRoom
  /\ IF \/ \E type \in VideoTypes : Live(type, Video)
        \/ \E r \in runs : r.at \notin Ended
     THEN Disturb({"again"})
     ELSE UNCHANGED disturbances
  /\ video' = "pending"
  /\ attaching' = TRUE
  /\ UNCHANGED <<jobs, runs, resets, files, summary>>

\* ... then enqueueVideoJob, unless a download of it is live.
AttachQueue ==
  /\ attaching
  /\ attaching' = FALSE
  /\ jobs' = IF Live("download_video", Video) THEN jobs
             ELSE Queue(jobs, NextId, "download_video", Video)
  /\ UNCHANGED <<runs, resets, disturbances, video, files, summary>>

\* DELETE: the row, and whatever is in the work directory.  Jobs are left.
DeleteVideo ==
  /\ Attached
  /\ Disturb({})
  /\ video' = "deleted" /\ files' = "none" /\ summary' = {}
  /\ UNCHANGED <<jobs, runs, resets, attaching>>

-----------------------------------------------------------------------------
(* The handlers. *)

\* An update names the row's id; one that is gone takes none.
WriteVideo(to) == video' = IF Attached THEN to ELSE video

\* handleDownloadVideo: find the row, mark it, read the video's metadata.
BeginDownload(r) ==
  /\ At(r, "download_video", "start")
  /\ WriteVideo("downloading")
  /\ Advance(r, IF Attached THEN "metadata" ELSE "error", {})
  /\ UNCHANGED <<jobs, resets, disturbances, files, summary, attaching>>

\* "A retry starts clean": the directory is emptied and the fetch begins.
FetchVideo(r) ==
  /\ At(r, "download_video", "metadata")
  /\ files' = "partial"
  /\ Advance(r, "fetch", {})
  /\ UNCHANGED <<jobs, resets, disturbances, video, summary, attaching>>

\* yt-dlp and ffmpeg finish in the directory they were started in.
FramesOut(r) ==
  /\ At(r, "download_video", "fetch") /\ files # "none"
  /\ files' = "frames"
  /\ Advance(r, "mark", {})
  /\ UNCHANGED <<jobs, resets, disturbances, video, summary, attaching>>

MarkDownloaded(r) ==
  /\ At(r, "download_video", "mark")
  /\ WriteVideo("downloaded")
  /\ Advance(r, "chain", {})
  /\ UNCHANGED <<jobs, resets, disturbances, files, summary, attaching>>

\* enqueueVideoJob of the analysis, unless one is live.
ChainAnalysis(r) ==
  /\ At(r, "download_video", "chain")
  /\ \/ Live("analyze_video", Video) /\ UNCHANGED jobs
     \/ /\ ~Live("analyze_video", Video) /\ Room
        /\ jobs' = Queue(jobs, NextId, "analyze_video", Video)
  /\ Advance(r, "ok", {})
  /\ UNCHANGED <<resets, disturbances, vVars>>

BeginAnalysis(r) ==
  /\ At(r, "analyze_video", "start")
  /\ WriteVideo("analyzing")
  /\ Advance(r, IF Attached THEN "read" ELSE "error", {})
  /\ UNCHANGED <<jobs, resets, disturbances, files, summary, attaching>>

\* The stills and the transcript that are there are listed and submitted.
ReadFrames(r) ==
  /\ At(r, "analyze_video", "read") /\ files # "none"
  /\ Advance(r, "model", {files})
  /\ UNCHANGED <<jobs, resets, disturbances, vVars>>

SummarySaved(r) ==
  /\ At(r, "analyze_video", "model")
  /\ WriteVideo("complete")
  /\ summary' = IF Attached THEN r.saw ELSE summary
  /\ Advance(r, "tidy", {})
  /\ UNCHANGED <<jobs, resets, disturbances, files, attaching>>

\* removeVideoFiles, once the summary is down.
TidyFiles(r) ==
  /\ At(r, "analyze_video", "tidy")
  /\ files' = "none"
  /\ Advance(r, "ok", {})
  /\ UNCHANGED <<jobs, resets, disturbances, video, summary, attaching>>

\* (mutant of VideoThrows: the frames are tidied away on failure too)
ThrowsAndTidies(r, how) ==
  /\ r \in runs /\ r.at \in {"metadata", "fetch", "read", "model"}
  /\ how = "fatal" => At(r, "download_video", "metadata")
  /\ how = "quota" => r.at = "model" /\ Disturb({})
  /\ how # "quota" => UNCHANGED disturbances
  /\ WriteVideo("failed")
  /\ files' = "none"
  /\ Advance(r, how, {})
  /\ UNCHANGED <<jobs, resets, summary, attaching>>

\* Either handler's catch: the row is failed and the error goes on.  Both can
\* throw at every await between their first write and their last; only a
\* download finds its video too long for good, only an analysis asks a model.
VideoThrows(r, how) ==
  /\ r \in runs /\ r.at \in {"metadata", "fetch", "read", "model"}
  /\ how = "fatal" => At(r, "download_video", "metadata")
  /\ how = "quota" => r.at = "model" /\ Disturb({})
  /\ how # "quota" => UNCHANGED disturbances
  /\ WriteVideo("failed")
  /\ Advance(r, how, {})
  /\ UNCHANGED <<jobs, resets, files, summary, attaching>>

\* resetJobTarget: back to where the job found it, or failed with the job.
ResetVideo(x) ==
  /\ ResetDone(x)
  /\ WriteVideo(IF x.to # "pending" THEN "failed"
                ELSE IF jobs[x.job].type = "download_video" THEN "pending" ELSE "downloaded")
  /\ UNCHANGED <<files, summary, attaching>>

-----------------------------------------------------------------------------
VideoRequests == AttachRow \/ AttachQueue \/ DeleteVideo

VideoHandlers ==
  \E r \in runs : \/ BeginDownload(r) \/ FetchVideo(r) \/ FramesOut(r)
                  \/ MarkDownloaded(r) \/ ChainAnalysis(r)
                  \/ BeginAnalysis(r) \/ ReadFrames(r) \/ SummarySaved(r) \/ TidyFiles(r)
                  \/ \E how \in {"error", "fatal", "quota"} : VideoThrows(r, how)

\* The process dies, and with it an attach that has not reached its queue.
VideoCrash == /\ Crash(attaching)
              /\ attaching' = FALSE
              /\ UNCHANGED <<video, files, summary>>

VideoNext == \/ VideoRequests
             \/ VideoHandlers
             \/ \E x \in resets : ResetVideo(x)
             \/ QueueSteps /\ UNCHANGED vVars
             \/ VideoCrash

VideoSpec == VideoInit /\ [][VideoNext]_videoVars

VideoProgress == \/ AttachQueue
                 \/ VideoHandlers
                 \/ \E x \in resets : ResetVideo(x)
                 \/ QueueProgress /\ UNCHANGED vVars

-----------------------------------------------------------------------------
(* Properties. *)

VideoBusy == video \in {"pending", "downloading", "downloaded", "analyzing"}

VideoTypeOK ==
  /\ QueueTypeOK
  /\ video \in {"none", "pending", "downloading", "downloaded", "analyzing",
                "complete", "failed", "deleted"}
  /\ files \in {"none", "partial", "frames"}
  /\ summary \subseteq {"partial", "frames"}
  /\ attaching \in BOOLEAN

\* "or a video sits on 'downloading'/'analyzing' with nothing working on it"
\* (resetJobTarget): a video that says it is being worked on has a job that
\* will say otherwise, whatever fails, is stopped, is retried or crashes.
VideoAttended ==
  Spared({"timeout", "account", "cut", "redo", "late", "again", "retry"}) /\ VideoBusy =>
    attaching \/ AttendedBy(Video, VideoTypes)

\* The analysis is "chained rather than run alongside" the download
\* (handleDownloadVideo): no summary is written from a half-filled directory.
SummaryOfWhole ==
  Spared({"timeout", "redo", "again", "retry"}) => "partial" \notin summary

\* "kept until now so a failed attempt could retry without re-downloading"
\* (handleAnalyzeVideo): an analysis that is queued finds its frames.
FramesKept ==
  Spared({"timeout", "redo", "again", "retry"}) /\ Attached
    /\ (\E j \in Ids : jobs[j].type = "analyze_video" /\ jobs[j].status = "pending")
    => files = "frames"

\* The two chained jobs hand the directory over whole: no summary comes from
\* part of a video, and none that is to be tried again has lost its frames
\* (handleDownloadVideo, handleAnalyzeVideo).
FramesHandedOver == SummaryOfWhole /\ FramesKept

\* Under the worker's fairness a video is summarised, failed or removed, but for
\* the windows VideoAttended names.
VideoSettles ==
  []<>(Spared({"timeout", "account", "cut", "redo", "late", "again", "retry"}) => ~VideoBusy)
==============================================================================
