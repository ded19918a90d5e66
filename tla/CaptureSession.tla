--------------------------- MODULE CaptureSession ---------------------------
(***************************************************************************)
(* What the recorder of a capture promises to the rest of the session: it  *)
(* records, drains its queue, completes the session and ends; it looks     *)
(* once, when the queue is drained, whether another process has failed;    *)
(* what it leaves passes the part of the dataset check on the images from  *)
(* the moment the session is complete, and it ends with 0 only after that. *)
(* A signal that comes later may still end it with an error.               *)
(* CaptureRecorder, on its own and inside CaptureLaunch, is shown to       *)
(* implement this specification.                                           *)
(***************************************************************************)
VARIABLES
  stage,       \* of the recorder
  exit,        \* how its process ended
  passes,      \* its manifest and images pass the check
  failureFile  \* capture_failure.json

recorderVars == <<stage, exit, passes>>

Init == /\ stage = "recording" /\ exit = "no" /\ passes = FALSE
        /\ failureFile = FALSE

\* The recorder is done, has met an error, or was sent a signal.
Close == /\ stage = "recording" /\ stage' = "closing"
         /\ UNCHANGED <<exit, passes, failureFile>>

\* The queue is drained; an error, or no image at all, fails the session.
Drain == /\ stage = "closing"
         /\ stage' \in (IF failureFile THEN {"failed"} ELSE {"drained", "failed"})
         /\ UNCHANGED <<exit, passes, failureFile>>

Complete == /\ stage = "drained" /\ stage' = "complete" /\ passes' = TRUE
            /\ UNCHANGED <<exit, failureFile>>

EndWell == /\ stage = "complete" /\ stage' = "ended" /\ exit' = "ok"
           /\ UNCHANGED <<passes, failureFile>>

\* A failed session, a signal on the way out, or a kill at any moment.
EndBadly == /\ stage # "ended" /\ stage' = "ended"
            /\ exit' \in {"error", "killed"} /\ UNCHANGED <<passes, failureFile>>

NoteFailure == ~failureFile /\ failureFile' = TRUE /\ UNCHANGED recorderVars

Record == Close \/ Drain \/ Complete \/ EndWell \/ EndBadly
Spec == Init /\ [][Record \/ NoteFailure]_<<recorderVars, failureFile>>
=============================================================================
