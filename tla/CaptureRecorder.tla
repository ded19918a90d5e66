-------------------------- MODULE CaptureRecorder --------------------------
(***************************************************************************)
(* The recorder of a capture session (src/src/sfm_capture/sfm_capture/     *)
(* recorder.py, image_writer.py, dataset.py, camera_contract.py) and the   *)
(* check of what it left on disk (check_dataset.py).  The main thread runs *)
(* one callback at a time and then closes the session; the writer thread   *)
(* empties a bounded queue onto the disk.  Any write may fail, SIGINT may  *)
(* arrive at any moment, and the process may be killed.                    *)
(*                                                                         *)
(* A frame is its source time and its signature (size, encoding, frame);   *)
(* an image file and a manifest row are the frame they hold.  write_json   *)
(* replaces a file in one step.  The source clock is reduced to the part   *)
(* of the session it stands in and to whether it has gone back.            *)
(***************************************************************************)
EXTENDS Integers, Sequences

CONSTANTS
  Stamp,        \* source times of frames, in nanoseconds
  Signature,    \* signatures of frames and of calibrations
  Interval,     \* least distance of two saved frames
  QueueSize,    \* writer_queue_size
  FrameTimeout, \* whether no_frame_timeout_sec is positive
  None          \* no value, and the end mark of the queue

ASSUME RecorderAssumption ==
  /\ Stamp \subseteq Int
  /\ Interval \in Nat \ {0} /\ QueueSize \in Nat \ {0}
  /\ FrameTimeout \in BOOLEAN
  /\ None \notin Signature

Frame == [stamp : Stamp, signature : Signature]

ASSUME NoneAssumption == None \notin Frame

VARIABLES
  recorder,     \* what the main thread is doing
  done, error,
  hand,         \* the frame between its selection and submit()
  image_signature, info,     \* CameraContract
  last_seen, last_selected,  \* Dataset; 0 for None
  queue, writer, item,       \* ImageWriter and what its thread is doing
  writer_error,
  temporary, images, rows,   \* on disk: *.png.tmp, images/, timestamps.csv
  saved,        \* stats['saved']
  session,      \* session.json
  failureFile,  \* capture_failure.json
  exit,         \* how the process ended
  phase, clockBack,  \* the source clock
  use_sim_time, \* a parameter of the session
  \* history variables
  selected,     \* the frames selected so far
  interrupted   \* SIGINT came between a selection and its submit()

mainVars == <<recorder, done, error, exit>>
contractVars == <<image_signature, info>>
selectVars == <<hand, last_seen, last_selected, selected, interrupted>>
writerVars == <<writer, item, writer_error, temporary, images, rows, saved>>
clockVars == <<phase, clockBack, use_sim_time>>
vars == <<mainVars, contractVars, selectVars, queue, writerVars, session,
          failureFile, clockVars>>

Init ==
  /\ recorder = "spin" /\ done = FALSE /\ error = FALSE /\ exit = "no"
  /\ hand = None /\ image_signature = None /\ info = None
  /\ last_seen = 0 /\ last_selected = 0
  /\ queue = <<>> /\ writer = "get" /\ item = None /\ writer_error = FALSE
  /\ temporary = FALSE /\ images = <<>> /\ rows = <<>> /\ saved = 0
  /\ session = [status |-> "recording", saved |-> 0]
  /\ failureFile = FALSE
  /\ phase = "warmup" /\ clockBack = FALSE /\ use_sim_time \in BOOLEAN
  /\ selected = <<>> /\ interrupted = FALSE
-----------------------------------------------------------------------------
\* The callbacks of the main thread; the loop of main() ends once done is set.
Spinning == recorder = "spin" /\ ~done

Fail == /\ error' = TRUE /\ done' = TRUE /\ recorder' = "spin"
        /\ UNCHANGED exit

\* dataset.update
Update == session' = [session EXCEPT !.saved = saved]

Disagree(s, t) == s # None /\ t # None /\ s # t

\* on_image up to dataset.eligible; before the warmup is over it does nothing.
SelectImage(f) ==
  /\ Spinning /\ ~clockBack /\ phase # "warmup"
  /\ ~Disagree(f.signature, image_signature) /\ ~Disagree(f.signature, info)
  /\ f.stamp > 0 /\ f.stamp > last_seen
  /\ image_signature' = f.signature /\ last_seen' = f.stamp
  /\ IF last_selected # 0 /\ f.stamp - last_selected < Interval
     THEN UNCHANGED <<mainVars, hand, last_selected, selected>>
     ELSE /\ last_selected' = f.stamp
          /\ selected' = Append(selected, f) /\ hand' = f
          /\ recorder' = "submit" /\ UNCHANGED <<done, error, exit>>
  /\ UNCHANGED <<info, interrupted, queue, writerVars, session, failureFile,
                 clockVars>>

\* A frame from before the start of the simulation is only looked at.
IgnoreImage(f) ==
  /\ Spinning /\ ~clockBack /\ phase # "warmup" /\ use_sim_time /\ f.stamp = 0
  /\ ~Disagree(f.signature, image_signature) /\ ~Disagree(f.signature, info)
  /\ image_signature' = f.signature
  /\ UNCHANGED <<mainVars, info, selectVars, queue, writerVars, session,
                 failureFile, clockVars>>

\* The clock or the stamp went back, or the stream is mixed.
RejectImage(f) ==
  /\ Spinning
  /\ \/ clockBack
     \/ /\ phase # "warmup"
        /\ \/ Disagree(f.signature, image_signature)
           \/ Disagree(f.signature, info)
           \/ f.stamp <= 0 /\ ~(use_sim_time /\ f.stamp = 0)
           \/ f.stamp < last_seen /\ ~(use_sim_time /\ f.stamp = 0)
  /\ Fail
  /\ UNCHANGED <<contractVars, selectVars, queue, writerVars, session,
                 failureFile, clockVars>>

\* Mutant: a frame that does not fit is dropped without a word.
SubmitDropsSilently ==
  /\ recorder = "submit" /\ hand' = None
  /\ queue' = IF writer_error \/ Len(queue) >= QueueSize
              THEN queue ELSE Append(queue, hand)
  /\ recorder' = "spin" /\ UNCHANGED <<done, error, exit>>
  /\ UNCHANGED <<contractVars, last_seen, last_selected, selected, interrupted,
                 writerVars, session, failureFile, clockVars>>

\* The rest of on_image: submit(), and dataset.update for the first frame.
Submit ==
  /\ recorder = "submit" /\ hand' = None
  /\ IF writer_error \/ Len(queue) >= QueueSize
     THEN Fail /\ UNCHANGED <<queue, session>>
     ELSE /\ queue' = Append(queue, hand)
          /\ \/ /\ recorder' = "spin" /\ UNCHANGED <<done, error, exit>>
                /\ IF Len(selected) = 1 THEN Update ELSE UNCHANGED session
             \/ Len(selected) = 1 /\ Fail /\ UNCHANGED session
  /\ UNCHANGED <<contractVars, last_seen, last_selected, selected, interrupted,
                 writerVars, failureFile, clockVars>>

\* on_info; the first calibration is written down.
OnInfo(s) ==
  /\ Spinning
  /\ IF Disagree(s, info) \/ Disagree(s, image_signature)
     THEN Fail /\ UNCHANGED <<info, session>>
     ELSE /\ info' = s
          /\ \/ /\ UNCHANGED mainVars
                /\ IF info = None THEN Update ELSE UNCHANGED session
             \/ info = None /\ Fail /\ UNCHANGED session
  /\ UNCHANGED <<image_signature, selectVars, queue, writerVars, failureFile,
                 clockVars>>

\* on_timer; a failing update ends the loop of main().
OnTimer ==
  /\ Spinning
  /\ \/ clockBack /\ Fail /\ UNCHANGED session
     \/ /\ ~clockBack
        /\ \E late \in {FALSE, FrameTimeout} :
             /\ error' = (writer_error \/ late)
             /\ done' = (error' \/ phase = "over")
        /\ Update /\ UNCHANGED <<recorder, exit>>
     \/ /\ ~clockBack /\ error' = TRUE /\ recorder' = "close"
        /\ UNCHANGED <<done, exit, session>>
  /\ UNCHANGED <<contractVars, selectVars, queue, writerVars, failureFile,
                 clockVars>>

StopSpinning ==
  /\ recorder = "spin" /\ done /\ recorder' = "close"
  /\ UNCHANGED <<done, error, exit, contractVars, selectVars, queue, writerVars,
                 session, failureFile, clockVars>>

\* SIGINT raises KeyboardInterrupt wherever the main thread is.
InterruptLoop ==
  /\ recorder \in {"spin", "submit"} /\ recorder' = "close"
  /\ interrupted' = (hand # None) /\ hand' = None
  /\ UNCHANGED <<done, error, exit, contractVars, last_seen, last_selected,
                 selected, queue, writerVars, session, failureFile, clockVars>>

-----------------------------------------------------------------------------
\* finish(): the writer is closed, which waits for room in the queue and for
\* the thread, then the session.
Step(from, to) == recorder = from /\ recorder' = to

CloseWriter ==
  /\ Step("close", "join") /\ Len(queue) < QueueSize
  /\ queue' = Append(queue, None)
  /\ UNCHANGED <<done, error, exit, contractVars, selectVars, writerVars,
                 session, failureFile, clockVars>>

\* Mutant: the writer is not waited for.
JoinNobody ==
  /\ Step("join", "status")
  /\ error' = (error \/ writer_error \/ failureFile \/ saved = 0)
  /\ UNCHANGED <<done, exit, contractVars, selectVars, queue, writerVars,
                 session, failureFile, clockVars>>

JoinWriter ==
  /\ Step("join", "status") /\ writer = "ended"
  /\ error' = (error \/ writer_error \/ failureFile \/ saved = 0)
  /\ UNCHANGED <<done, exit, contractVars, selectVars, queue, writerVars,
                 session, failureFile, clockVars>>

End(how) == /\ recorder' = "exited" /\ exit' = how
            /\ UNCHANGED <<done, error, contractVars, selectVars, queue,
                           writerVars, failureFile, clockVars>>

\* dataset.close, whose last step puts session.json in its place.
CloseSession ==
  /\ Step("status", "leave")
  /\ session' = [status |-> IF error THEN "failed" ELSE "complete",
                 saved |-> saved]
  /\ UNCHANGED <<done, error, exit, contractVars, selectVars, queue,
                 writerVars, failureFile, clockVars>>

\* The rest of main(): the node is destroyed, rclpy is shut down and the
\* interpreter exits.
Leave == /\ recorder = "leave"
         /\ End(IF error THEN "error" ELSE "ok") /\ UNCHANGED session

CloseSessionFails == recorder = "status" /\ End("error") /\ UNCHANGED session

\* A second SIGINT leaves finish(), or main(), where it is.
InterruptFinish == /\ recorder \in {"close", "join", "status", "leave"}
                   /\ End("error") /\ UNCHANGED session

Kill == recorder # "exited" /\ End("killed") /\ UNCHANGED session
-----------------------------------------------------------------------------
\* The writer thread, a daemon of the process.
Writing(pc) == recorder # "exited" /\ writer = pc

restVars == <<mainVars, contractVars, selectVars, session, failureFile, clockVars>>

\* After an error the queue is emptied for nothing.
Get ==
  /\ Writing("get") /\ queue # <<>>
  /\ queue' = Tail(queue)
  /\ item' = IF writer_error THEN None ELSE Head(queue)
  /\ writer' = CASE Head(queue) = None -> "ended"
                 [] writer_error -> "get"
                 [] OTHER -> "save"
  /\ UNCHANGED <<writer_error, temporary, images, rows, saved, restVars>>

\* dataset.save: a temporary file, its final name, the manifest row, the count.
WriteTemporary ==
  /\ Writing("save") /\ writer' = "replace" /\ temporary' = TRUE
  /\ UNCHANGED <<item, writer_error, images, rows, saved, queue, restVars>>

Replace ==
  /\ Writing("replace") /\ writer' = "row" /\ temporary' = FALSE
  /\ images' = Append(SubSeq(images, 1, saved), item)
  /\ UNCHANGED <<item, writer_error, rows, saved, queue, restVars>>

\* Mutant: the count is taken before the row is known to be on disk.
CountAnyway ==
  /\ Writing("row") /\ writer' = "get" /\ item' = None /\ saved' = saved + 1
  /\ UNCHANGED <<writer_error, temporary, images, rows, queue, restVars>>

WriteRow ==
  /\ Writing("row") /\ writer' = "count" /\ rows' = Append(rows, item)
  /\ UNCHANGED <<item, writer_error, temporary, images, saved, queue, restVars>>

Count ==
  /\ Writing("count") /\ writer' = "get" /\ saved' = saved + 1 /\ item' = None
  /\ UNCHANGED <<writer_error, temporary, images, rows, queue, restVars>>

\* Mutant: the thread ends at its first error.
SaveFailsForGood ==
  /\ writer \in {"save", "replace", "row"} /\ Writing(writer)
  /\ writer_error' = TRUE /\ writer' = "ended" /\ item' = None
  /\ UNCHANGED <<temporary, rows, images, saved, queue, restVars>>

\* Converting, encoding or any of the writes fails, half done or not at all.
SaveFails ==
  /\ writer \in {"save", "replace", "row"} /\ Writing(writer)
  /\ writer_error' = TRUE /\ writer' = "get" /\ item' = None
  /\ temporary' \in IF writer = "save" THEN BOOLEAN ELSE {temporary}
  /\ rows' \in IF writer = "row" THEN {rows, Append(rows, item)} ELSE {rows}
  /\ UNCHANGED <<images, saved, queue, restVars>>
-----------------------------------------------------------------------------
\* The source clock: warmup, capture, past the duration.
ClockAdvances ==
  /\ phase # "over"
  /\ phase' = IF phase = "warmup" THEN "capture" ELSE "over"
  /\ UNCHANGED <<mainVars, contractVars, selectVars, queue, writerVars, session,
                 failureFile, clockBack, use_sim_time>>

\* The simulation is reset, or catches up with the time last read.
ClockResets ==
  /\ use_sim_time /\ clockBack' = ~clockBack
  /\ UNCHANGED <<mainVars, contractVars, selectVars, queue, writerVars, session,
                 failureFile, phase, use_sim_time>>

\* The supervisor saw another process of the capture end.
CaptureFails ==
  /\ ~failureFile /\ failureFile' = TRUE
  /\ UNCHANGED <<mainVars, contractVars, selectVars, queue, writerVars, session,
                 clockVars>>

Callback == \/ \E f \in Frame : SelectImage(f) \/ IgnoreImage(f)
                                 \/ RejectImage(f)
            \/ Submit \/ OnTimer \/ \E s \in Signature : OnInfo(s)
Finish == StopSpinning \/ CloseWriter \/ JoinWriter \/ CloseSession \/ Leave
Writer == Get \/ WriteTemporary \/ Replace \/ WriteRow \/ Count \/ SaveFails
Environment == \/ InterruptLoop \/ InterruptFinish \/ Kill \/ CloseSessionFails
               \/ ClockAdvances \/ ClockResets \/ CaptureFails

Next == Callback \/ Finish \/ Writer \/ Environment

Spec == Init /\ [][Next]_vars

\* Both threads run on; the timer is a ROS timer of 0.2 s, and no callback
\* before it blocks.
FairSpec == /\ Spec /\ WF_vars(Finish) /\ WF_vars(Writer)
            /\ WF_vars(Submit) /\ SF_vars(OnTimer)
-----------------------------------------------------------------------------
TypeOK ==
  /\ recorder \in {"spin", "submit", "close", "join", "status", "leave", "exited"}
  /\ done \in BOOLEAN /\ error \in BOOLEAN
  /\ exit \in {"no", "ok", "error", "killed"}
  /\ hand \in Frame \cup {None} /\ (recorder = "submit" => hand # None)
  /\ image_signature \in Signature \cup {None} /\ info \in Signature \cup {None}
  /\ last_seen \in Nat /\ last_selected \in Nat
  /\ queue \in Seq(Frame \cup {None}) /\ Len(queue) <= QueueSize
  /\ writer \in {"get", "save", "replace", "row", "count", "ended"}
  /\ item \in Frame \cup {None}
  /\ writer_error \in BOOLEAN /\ temporary \in BOOLEAN
  /\ images \in Seq(Frame) /\ rows \in Seq(Frame) /\ saved \in Nat
  /\ session \in [status : {"recording", "complete", "failed"}, saved : Nat]
  /\ failureFile \in BOOLEAN
  /\ phase \in {"warmup", "capture", "over"} /\ clockBack \in BOOLEAN
  /\ use_sim_time \in BOOLEAN
  /\ selected \in Seq(Frame) /\ interrupted \in BOOLEAN

\* check_dataset.check, the part that concerns the images.
Passes ==
  /\ session.status = "complete"
  /\ rows # <<>> /\ images = rows /\ ~temporary
  /\ session.saved = Len(rows)
  /\ \A i \in 1..Len(rows) :
       /\ \A j \in 1..(i - 1) : rows[j].stamp < rows[i].stamp
       /\ ~Disagree(rows[i].signature, rows[1].signature)
       /\ ~Disagree(rows[i].signature, info)
Accepted == ~failureFile /\ Passes

\* "Write errors and an overflow of the queue are detected": a session that
\* passes the check holds every frame that was selected, in order, save one
\* that SIGINT caught between its selection and the queue.
AcceptedIsWhole ==
  Accepted => \/ rows = selected
              \/ interrupted /\ rows = SubSeq(selected, 1, Len(selected) - 1)

\* Whatever fails and whenever the process is killed, the manifest lists the
\* first frames that were selected, each with its image in place, and at most
\* one image file is beyond the count.
DiskIsPrefix ==
  /\ saved <= Len(rows) /\ Len(rows) <= Len(images) /\ Len(images) <= saved + 1
  /\ Len(images) <= Len(selected)
  /\ images = SubSeq(selected, 1, Len(images))
  /\ rows = SubSeq(images, 1, Len(rows))

\* The promise of CaptureSession: whatever fails or is interrupted, and whenever
\* the process is killed, what is on disk passes the check from the moment the
\* session is closed as complete and not before, which it never is if another
\* process had failed before the queue was drained; and only then may the
\* recorder end with 0.
Stage == CASE recorder \in {"spin", "submit"} -> "recording"
           [] recorder \in {"close", "join"} -> "closing"
           [] recorder \in {"status", "leave"} /\ error -> "failed"
           [] recorder = "status" /\ ~error -> "drained"
           [] recorder = "leave" /\ ~error -> "complete"
           [] recorder = "exited" -> "ended"
Session == INSTANCE CaptureSession WITH stage <- Stage, passes <- Passes
SessionKept == Session!Spec

\* The recorder always gets to its end: finish() waits for the writer, who may
\* have met an error with the queue full.
FinishEnds == recorder = "close" ~> recorder = "exited"
=============================================================================
