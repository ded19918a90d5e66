--------------------------- MODULE CaptureLaunch ---------------------------
(***************************************************************************)
(* A capture session as a whole (src/src/sfm_capture/launch/               *)
(* capture.launch.py): the recorder with its threads (CaptureRecorder),    *)
(* the camera driver of a USB source, the bag recorder, and the launch     *)
(* process that starts them, handles the end of each and shuts the rest    *)
(* down.  Processes end in any order and by themselves, and their ends are *)
(* handled in any order; the user may press Ctrl-C; the launch process may *)
(* be killed, or fail to write what a handler writes.  On a shutdown it    *)
(* sends SIGINT, then SIGTERM and SIGKILL.                                 *)
(***************************************************************************)
EXTENDS CaptureRecorder

VARIABLES
  source,    \* "usb", "topic" or "simulation"
  camera,    \* the driver; "none" unless the source is USB
  bag,       \* the bag recorder; "off" without record_bag
  bagWhole,  \* its metadata lists files that exist, with messages
  report,    \* status in bag_report.json
  ending,    \* stopping or context.is_shutdown, and what brought it about
  launch,    \* the launch process
  uncovered  \* history: a frame was selected after the bag recorder had failed

launchVars == <<source, camera, bag, bagWhole, report, ending, launch>>
sessionVars == <<vars, launchVars, uncovered>>
-----------------------------------------------------------------------------
LaunchInit ==
  /\ Init
  /\ source \in {"usb", "topic", "simulation"}
  /\ camera = IF source = "usb" THEN "running" ELSE "none"
  /\ bag \in {"off", "running"} /\ bagWhole = FALSE
  /\ report = "none" /\ ending = "no" /\ launch = "up"
  /\ uncovered = FALSE

\* A step of the recorder; SIGINT, SIGTERM and SIGKILL may reach it at any time.
\* Only the launch process marks a failure.
RecorderStep ==
  /\ Next /\ UNCHANGED <<failureFile, launchVars>>
  /\ uncovered' = (uncovered \/ (bag = "failed" /\ selected' # selected))

CameraEnds ==
  /\ camera = "running" /\ camera' = "ended"
  /\ UNCHANGED <<vars, source, bag, bagWhole, report, ending, launch, uncovered>>

\* The exit code and what is left on disk need not agree.
BagEnds ==
  /\ bag = "running" /\ bag' \in {"ok", "failed"} /\ bagWhole' \in BOOLEAN
  /\ UNCHANGED <<vars, source, camera, report, ending, launch, uncovered>>

Unmarked == UNCHANGED vars

\* Mutant: the failure is noted, but no Shutdown event emitted.
StopEmitsNothing(expected) ==
  \/ ending # "no" /\ UNCHANGED ending /\ Unmarked
  \/ ending = "no" /\ expected /\ ending' = "recorder" /\ Unmarked
  \/ ending = "no" /\ ~expected /\ UNCHANGED ending /\ CaptureFails

\* Mutant: an end that follows a shutdown counts as a failure too.
StopNotesEveryEnd(expected) ==
  \/ expected /\ ending' = "recorder" /\ Unmarked
  \/ ~expected /\ ending' = (IF ending = "no" THEN "failure" ELSE ending)
     /\ CaptureFails

\* The end of exited(): only the first end that is handled counts, and none
\* after a shutdown for another reason.  The handler may fail with its write,
\* which shuts the launch down too.
Stop(expected) ==
  \/ ending # "no" /\ UNCHANGED ending /\ Unmarked
  \/ /\ ending = "no" /\ expected
     /\ ending' = "recorder" /\ Unmarked
  \/ /\ ending = "no" /\ ~expected
     /\ \/ ending' = "failure" /\ CaptureFails
        \/ ending' = "exception" /\ Unmarked

Unhandled == launch = "up" /\ ending = "no"

RecorderExited ==
  /\ Unhandled /\ recorder = "exited" /\ Stop(exit = "ok")
  /\ UNCHANGED <<source, camera, bag, bagWhole, report, launch, uncovered>>

CameraExited ==
  /\ Unhandled /\ camera = "ended" /\ Stop(FALSE)
  /\ UNCHANGED <<source, camera, bag, bagWhole, report, launch, uncovered>>

\* Mutant: nothing is reported once the capture is stopping.
BagExitedStopsFirst ==
  /\ launch = "up" /\ bag \in {"ok", "failed"} /\ report = "none"
  /\ report' = IF ending # "no" THEN "unwritten"
               ELSE IF bag = "ok" /\ bagWhole THEN "finalized" ELSE "failed"
  /\ Stop(FALSE)
  /\ UNCHANGED <<source, camera, bag, bagWhole, launch, uncovered>>

\* The bag is inspected and reported on even while the capture is stopping.
BagExited ==
  /\ launch = "up" /\ bag \in {"ok", "failed"} /\ report = "none"
  /\ \/ /\ report' = IF bag = "ok" /\ bagWhole THEN "finalized" ELSE "failed"
        /\ Stop(FALSE)
     \/ /\ report' = "raised"
        /\ ending' = IF ending = "no" THEN "exception" ELSE ending
        /\ Unmarked
  /\ UNCHANGED <<source, camera, bag, bagWhole, launch, uncovered>>

\* Ctrl-C reaches the launch process before any end it has handled.
UserStops == /\ Unhandled /\ ending' = "user"
             /\ UNCHANGED <<vars, source, camera, bag, bagWhole, report, launch,
                            uncovered>>

LaunchDies == /\ launch = "up" /\ launch' = "dead"
              /\ UNCHANGED <<vars, source, camera, bag, bagWhole, report, ending,
                             uncovered>>

Handler == RecorderExited \/ CameraExited \/ BagExited

LaunchNext == \/ RecorderStep \/ CameraEnds \/ BagEnds \/ Handler
              \/ UserStops \/ LaunchDies

\* While it lives, the launch process handles what has ended, and once it is
\* shutting down it gets every process to end, at last by SIGKILL.  Left alone,
\* a recorder need not end.
ShuttingDown == launch = "up" /\ ending # "no"
LaunchFairness ==
  /\ WF_sessionVars(Handler)
  /\ WF_sessionVars(ShuttingDown /\ Kill /\ UNCHANGED <<launchVars, uncovered>>)
  /\ WF_sessionVars(ShuttingDown /\ (CameraEnds \/ BagEnds))
LaunchSpec == LaunchInit /\ [][LaunchNext]_sessionVars /\ LaunchFairness
-----------------------------------------------------------------------------
\* check_dataset.check with its part on the bag, which it inspects again.
CaptureAccepted ==
  /\ Accepted
  /\ bag = "off" \/ (report # "failed" /\ bagWhole)

AllEnded == recorder = "exited" /\ camera # "running" /\ bag # "running"
Settled == AllEnded /\ ShuttingDown /\ (bag = "off" \/ report # "none")

\* "interrupted shutdowns where bag_report.json may not be written": unless the
\* launch process itself failed, a session that passes the check selected no
\* image after the bag recorder had failed, whichever end was handled first.
BagCoversImages ==
  Settled /\ CaptureAccepted /\ report # "raised" => ~uncovered

\* A capture in which nothing failed passes the check: the recorder ends with 0,
\* at its own time or on Ctrl-C, and the bag is whole.
CleanRunAccepted ==
  /\ Settled /\ exit = "ok" /\ ending \in {"recorder", "user"}
  /\ bag = "off" \/ (bag = "ok" /\ bagWhole)
  => CaptureAccepted

\* One process that ends brings the whole capture to its end, as long as the
\* launch process lives.
OneEnded == recorder = "exited" \/ camera = "ended" \/ bag \in {"ok", "failed"}
CaptureEnds == OneEnded ~> AllEnded \/ launch = "dead"
=============================================================================
