------------------------ MODULE CaptureLaunch_proofs ------------------------
(***************************************************************************)
(* First the recorder (CaptureRecorder) on its own, for any stamps,        *)
(* signatures, queue size and interval: the manifest and the images are    *)
(* the first frames that were selected, a session that passes the check is *)
(* whole, and the recorder keeps the promise of CaptureSession.  Then the  *)
(* capture session as a whole (CaptureLaunch): what was proved of the      *)
(* recorder holds of it there, and what a session that passes the dataset  *)
(* check is worth, whatever the order in which its processes end and their *)
(* ends are handled, and wherever the launch process dies.                 *)
(***************************************************************************)
EXTENDS CaptureLaunch, SequenceTheorems, TLAPS

Busy == {"save", "replace", "row", "count"}
Closed == recorder \in {"join", "status", "leave"}

\* An error ends the callbacks; a frame is in the hand only on its way to the
\* queue, and the writer has one while it saves; the session is marked by its
\* end alone.
MainInv ==
  /\ recorder = "spin" /\ error => done
  /\ recorder = "submit" => ~done /\ ~error /\ hand # None
  /\ recorder # "exited" => exit = "no" /\ (hand # None => recorder = "submit")
  /\ recorder \notin {"leave", "exited"} => session.status = "recording"
  /\ recorder = "leave" => session.status = IF error THEN "failed" ELSE "complete"
  /\ recorder \in {"spin", "submit"} => ~interrupted
  /\ writer \in Busy => item # None
  /\ exit = "ok" => session.status = "complete"

\* The frames selected go up in time and have the signature of the camera.
SelectedInv ==
  /\ \A i \in 1..Len(selected) :
       /\ selected[i].stamp <= last_seen
       /\ selected[i].signature = image_signature
       /\ \A j \in 1..(i - 1) : selected[j].stamp < selected[i].stamp
  /\ image_signature # None /\ info # None => image_signature = info

\* What is on disk, by how far the writer has come with a frame; after an error
\* it has written its last.
DiskInv ==
  /\ saved <= Len(rows) /\ Len(rows) <= Len(images) /\ Len(images) <= saved + 1
  /\ Len(images) <= Len(selected)
  /\ \A i \in 1..Len(images) : images[i] = selected[i]
  /\ \A i \in 1..Len(rows) : rows[i] = selected[i]
  /\ writer_error => writer \in {"get", "ended"}
  /\ ~writer_error =>
       /\ Len(images) = IF writer \in {"row", "count"} THEN saved + 1 ELSE saved
       /\ Len(rows) = IF writer = "count" THEN saved + 1 ELSE saved
       /\ temporary => writer = "replace"

\* While nothing has failed on disk, the frame of the writer and those of the
\* queue continue the frames saved, and at most one more was selected: it is in
\* the hand, was caught there by SIGINT, or did not fit and failed the session.
\* The end mark is last in the queue.
Reached == saved + (IF writer \in Busy THEN 1 ELSE 0)
Queued == IF Closed /\ writer # "ended" THEN Len(queue) - 1 ELSE Len(queue)
FlowInv ==
  recorder # "exited" /\ ~writer_error =>
    /\ writer \in Busy => item = selected[saved + 1]
    /\ writer = "ended" => Closed /\ queue = <<>>
    /\ Closed /\ writer # "ended" => Len(queue) > 0 /\ queue[Len(queue)] = None
    /\ \A i \in 1..Queued : /\ queue[i] # None
                            /\ queue[i] = selected[Reached + i]
    /\ Len(selected) \in {Reached + Queued, Reached + Queued + 1}
    /\ Len(selected) = Reached + Queued + 1 => hand # None \/ interrupted \/ error
    /\ hand # None => /\ Len(selected) = Reached + Queued + 1
                      /\ hand = selected[Len(selected)]

\* A session closed without an error was drained first, and stays as it is.
EndInv ==
  /\ recorder = "status" /\ ~error => writer = "ended" /\ ~writer_error /\ saved > 0
  /\ session.status = "complete" =>
       /\ recorder \in {"leave", "exited"} /\ saved > 0 /\ session.saved = saved
       /\ recorder = "leave" => writer = "ended"
       /\ Len(rows) = saved /\ Len(images) = saved /\ ~temporary
       /\ \/ Len(selected) = saved
          \/ interrupted /\ Len(selected) = saved + 1

RecorderInv == /\ TypeOK /\ MainInv /\ SelectedInv /\ DiskInv /\ FlowInv
               /\ EndInv

-----------------------------------------------------------------------------
TypeFlags ==
  /\ recorder \in {"spin", "submit", "close", "join", "status", "leave", "exited"}
  /\ done \in BOOLEAN /\ error \in BOOLEAN
  /\ exit \in {"no", "ok", "error", "killed"}
  /\ writer \in {"get", "save", "replace", "row", "count", "ended"}
  /\ writer_error \in BOOLEAN /\ temporary \in BOOLEAN
  /\ failureFile \in BOOLEAN
  /\ phase \in {"warmup", "capture", "over"} /\ clockBack \in BOOLEAN
  /\ use_sim_time \in BOOLEAN /\ interrupted \in BOOLEAN

TypeFrames ==
  /\ hand \in Frame \cup {None} /\ (recorder = "submit" => hand # None)
  /\ image_signature \in Signature \cup {None} /\ info \in Signature \cup {None}
  /\ last_seen \in Nat /\ last_selected \in Nat
  /\ selected \in Seq(Frame)

TypeDisk ==
  /\ queue \in Seq(Frame \cup {None}) /\ Len(queue) <= QueueSize
  /\ item \in Frame \cup {None}
  /\ images \in Seq(Frame) /\ rows \in Seq(Frame) /\ saved \in Nat
  /\ session \in [status : {"recording", "complete", "failed"}, saved : Nat]

LEMMA TypeParts == TypeOK <=> TypeFlags /\ TypeFrames /\ TypeDisk
  BY DEF TypeOK, TypeFlags, TypeFrames, TypeDisk

LEMMA FramesAreNotNone == \A f \in Frame : f # None
  BY NoneAssumption

LEMMA InitType == Init => TypeOK
<1> SUFFICES ASSUME Init PROVE TypeOK
  OBVIOUS
<1>1. TypeFlags
  BY DEF Init, TypeFlags
<1>2. TypeFrames
  BY DEF Init, TypeFrames
<1>3. TypeDisk
  BY RecorderAssumption DEF Init, TypeDisk
<1> QED
  BY <1>1, <1>2, <1>3, TypeParts

USE DEF mainVars, contractVars, selectVars, writerVars, clockVars, restVars

LEMMA FlagsStep == ASSUME TypeFlags, Next PROVE TypeFlags'
<1> USE DEF Spinning, Fail, Step, End, Writing
<1>1. CASE Callback
  <2>1. UNCHANGED <<exit, writer, writer_error, temporary>>
    BY <1>1 DEF Callback, SelectImage, IgnoreImage, RejectImage, Submit, OnTimer, OnInfo
  <2>2. UNCHANGED <<failureFile, phase, clockBack, use_sim_time, interrupted>>
    BY <1>1 DEF Callback, SelectImage, IgnoreImage, RejectImage, Submit, OnTimer, OnInfo
  <2>3. recorder' \in {recorder, "spin", "submit", "close"}
    BY <1>1 DEF Callback, SelectImage, IgnoreImage, RejectImage, Submit, OnTimer, OnInfo
  <2>4. done' \in BOOLEAN /\ error' \in BOOLEAN
    <3>1. CASE OnTimer
      <4>1. \/ done' = done \/ done' = TRUE
            \/ done' = (error' \/ phase = "over")
        BY <3>1 DEF OnTimer
      <4>2. \/ error' = TRUE
            \/ \E late \in {FALSE, FrameTimeout} : error' = (writer_error \/ late)
        BY <3>1 DEF OnTimer
      <4>3. done \in BOOLEAN /\ writer_error \in BOOLEAN /\ FrameTimeout \in BOOLEAN
        BY RecorderAssumption DEF TypeFlags
      <4>4. error' \in BOOLEAN
        BY <4>2, <4>3
      <4> QED
        BY <4>1, <4>3, <4>4
    <3>2. CASE ~OnTimer
      <4>1. /\ done' = done \/ done' = TRUE
            /\ error' = error \/ error' = TRUE
        BY <1>1, <3>2 DEF Callback, SelectImage, IgnoreImage, RejectImage, Submit, OnInfo
      <4> QED
        BY <4>1 DEF TypeFlags
    <3> QED
      BY <3>1, <3>2
  <2> QED
    BY <2>1, <2>2, <2>3, <2>4 DEF TypeFlags
<1>2. CASE Finish
  <2>1. UNCHANGED <<done, writer, writer_error, temporary>>
    BY <1>2 DEF Finish, StopSpinning, CloseWriter, JoinWriter, CloseSession, Leave
  <2>2. UNCHANGED <<failureFile, phase, clockBack, use_sim_time, interrupted>>
    BY <1>2 DEF Finish, StopSpinning, CloseWriter, JoinWriter, CloseSession, Leave
  <2>3. /\ recorder' \in {"close", "join", "status", "leave", "exited"}
        /\ exit' \in {exit, "ok", "error"}
    BY <1>2 DEF Finish, StopSpinning, CloseWriter, JoinWriter, CloseSession, Leave
  <2>4. error' = error \/ error' = (error \/ writer_error \/ failureFile \/ saved = 0)
    BY <1>2 DEF Finish, StopSpinning, CloseWriter, JoinWriter, CloseSession, Leave
  <2>5. error' \in BOOLEAN
    BY <2>4 DEF TypeFlags
  <2> QED
    BY <2>1, <2>2, <2>3, <2>5 DEF TypeFlags
<1>3. CASE Writer
  <2>1. UNCHANGED <<recorder, done, error, exit>>
    BY <1>3 DEF Writer, Get, WriteTemporary, Replace, WriteRow, Count, SaveFails
  <2>2. UNCHANGED <<failureFile, phase, clockBack, use_sim_time, interrupted>>
    BY <1>3 DEF Writer, Get, WriteTemporary, Replace, WriteRow, Count, SaveFails
  <2>3. /\ writer' \in {"get", "save", "replace", "row", "count", "ended"}
    BY <1>3 DEF Writer, Get, WriteTemporary, Replace, WriteRow, Count, SaveFails
  <2>4. /\ writer_error' = writer_error \/ writer_error' = TRUE
        /\ temporary' = temporary \/ temporary' \in BOOLEAN
    BY <1>3 DEF Writer, Get, WriteTemporary, Replace, WriteRow, Count, SaveFails
  <2>5. writer_error' \in BOOLEAN /\ temporary' \in BOOLEAN
    BY <2>4 DEF TypeFlags
  <2> QED
    BY <2>1, <2>2, <2>3, <2>5 DEF TypeFlags
<1>4. CASE Environment
  <2>1. UNCHANGED <<done, error, writer, writer_error, temporary, use_sim_time>>
    BY <1>4 DEF Environment, InterruptLoop, InterruptFinish, Kill, CloseSessionFails,
                ClockAdvances, ClockResets, CaptureFails
  <2>2. /\ recorder' \in {recorder, "close", "exited"}
        /\ exit' \in {exit, "error", "killed"}
    BY <1>4 DEF Environment, InterruptLoop, InterruptFinish, Kill, CloseSessionFails,
                ClockAdvances, ClockResets, CaptureFails
  <2>3. phase' \in {phase, "capture", "over"}
    BY <1>4 DEF Environment, InterruptLoop, InterruptFinish, Kill, CloseSessionFails,
                ClockAdvances, ClockResets, CaptureFails
  <2>4. clockBack' = clockBack \/ clockBack' = ~clockBack
    BY <1>4 DEF Environment, InterruptLoop, InterruptFinish, Kill, CloseSessionFails,
                ClockAdvances, ClockResets, CaptureFails
  <2>5. /\ interrupted' = interrupted \/ interrupted' = (hand # None)
        /\ failureFile' = failureFile \/ failureFile' = TRUE
    BY <1>4 DEF Environment, InterruptLoop, InterruptFinish, Kill, CloseSessionFails,
                ClockAdvances, ClockResets, CaptureFails
  <2>6. clockBack' \in BOOLEAN /\ interrupted' \in BOOLEAN /\ failureFile' \in BOOLEAN
    BY <2>4, <2>5 DEF TypeFlags
  <2> QED
    BY <2>1, <2>2, <2>3, <2>6 DEF TypeFlags
<1> QED
  BY <1>1, <1>2, <1>3, <1>4 DEF Next

LEMMA FramesStep == ASSUME TypeFrames, Next PROVE TypeFrames'
<1> USE DEF TypeFrames, Spinning, Fail, Step, End, Writing
<1>1. CASE Callback
  <2>1. ASSUME NEW f \in Frame, SelectImage(f) PROVE TypeFrames'
    <3>1. f # None /\ f.stamp \in Int /\ f.signature \in Signature
      BY FramesAreNotNone, RecorderAssumption DEF Frame
    <3>2. /\ f.stamp > 0 /\ image_signature' = f.signature /\ info' = info
          /\ last_seen' = f.stamp /\ last_selected' \in {last_selected, f.stamp}
      BY <2>1 DEF SelectImage
    <3>3. \/ UNCHANGED <<recorder, hand, selected>>
          \/ hand' = f /\ selected' = Append(selected, f)
      BY <2>1 DEF SelectImage
    <3>4. last_seen' \in Nat /\ last_selected' \in Nat
      BY <3>1, <3>2
    <3>5. /\ hand' \in Frame \cup {None} /\ (recorder' = "submit" => hand' # None)
          /\ selected' \in Seq(Frame)
      BY <3>1, <3>3
    <3> QED
      BY <3>1, <3>2, <3>4, <3>5
  <2>2. ASSUME NEW f \in Frame, IgnoreImage(f) \/ RejectImage(f)
        PROVE  TypeFrames'
    BY <2>2 DEF IgnoreImage, RejectImage, Frame
  <2>3. CASE Submit \/ OnTimer
    BY <2>3 DEF Submit, OnTimer
  <2>4. ASSUME NEW s \in Signature, OnInfo(s) PROVE TypeFrames'
    BY <2>4 DEF OnInfo
  <2> QED
    BY <1>1, <2>1, <2>2, <2>3, <2>4 DEF Callback
<1>2. CASE Finish
  BY <1>2 DEF Finish, StopSpinning, CloseWriter, JoinWriter, CloseSession, Leave
<1>3. CASE Writer
  BY <1>3 DEF Writer, Get, WriteTemporary, Replace, WriteRow, Count, SaveFails
<1>4. CASE Environment
  <2>1. CASE InterruptLoop
    BY <2>1 DEF InterruptLoop
  <2>2. CASE InterruptFinish \/ Kill \/ CloseSessionFails
    BY <2>2 DEF InterruptFinish, Kill, CloseSessionFails
  <2>3. CASE ClockAdvances \/ ClockResets \/ CaptureFails
    BY <2>3 DEF ClockAdvances, ClockResets, CaptureFails
  <2> QED
    BY <1>4, <2>1, <2>2, <2>3 DEF Environment
<1> QED
  BY <1>1, <1>2, <1>3, <1>4 DEF Next

LEMMA DiskStep == ASSUME TypeOK, MainInv, DiskInv, Next PROVE TypeDisk'
<1> USE DEF TypeDisk, Spinning, Fail, Step, End, Writing
<1>1. TypeDisk /\ TypeFrames
  BY TypeParts
<1>2. CASE Callback
  <2>1. ASSUME NEW f \in Frame, SelectImage(f) \/ IgnoreImage(f) \/ RejectImage(f)
        PROVE  TypeDisk'
    BY <1>1, <2>1 DEF SelectImage, IgnoreImage, RejectImage
  <2>2. CASE Submit
    <3>1. hand \in Frame \cup {None}
      BY <1>1 DEF TypeFrames
    <3>2. \/ UNCHANGED queue
          \/ ~(Len(queue) >= QueueSize) /\ queue' = Append(queue, hand)
      BY <2>2 DEF Submit
    <3>3. queue' \in Seq(Frame \cup {None}) /\ Len(queue') <= QueueSize
      <4>1. queue \in Seq(Frame \cup {None}) /\ Len(queue) <= QueueSize
        BY <1>1
      <4> HIDE DEF TypeDisk
      <4>2. CASE UNCHANGED queue
        BY <4>1, <4>2
      <4>3. CASE ~(Len(queue) >= QueueSize) /\ queue' = Append(queue, hand)
        <5>1. Len(queue') = Len(queue) + 1 /\ queue' \in Seq(Frame \cup {None})
          BY <3>1, <4>1, <4>3
        <5>2. Len(queue) \in Nat /\ QueueSize \in Nat
          BY <4>1, RecorderAssumption
        <5> QED
          BY <4>3, <5>1, <5>2
      <4> QED
        BY <3>2, <4>2, <4>3
    <3>4. session' \in [status : {"recording", "complete", "failed"}, saved : Nat]
      BY <1>1, <2>2 DEF Submit, Update
    <3>5. UNCHANGED <<item, images, rows, saved>>
      BY <2>2 DEF Submit
    <3> QED
      BY <1>1, <3>3, <3>4, <3>5
  <2>3. CASE OnTimer
    BY <1>1, <2>3 DEF OnTimer, Update
  <2>4. ASSUME NEW s \in Signature, OnInfo(s) PROVE TypeDisk'
    BY <1>1, <2>4 DEF OnInfo, Update
  <2> QED
    BY <1>2, <2>1, <2>2, <2>3, <2>4 DEF Callback
<1>3. CASE Finish
  <2>1. CASE StopSpinning \/ JoinWriter \/ Leave
    BY <1>1, <2>1 DEF StopSpinning, JoinWriter, Leave
  <2>2. CASE CloseWriter
    BY <1>1, <2>2, RecorderAssumption DEF CloseWriter
  <2>3. CASE CloseSession
    <3>1. session' \in [status : {"recording", "complete", "failed"}, saved : Nat]
      BY <1>1, <2>3 DEF CloseSession
    <3>2. UNCHANGED <<queue, item, images, rows, saved>>
      BY <2>3 DEF CloseSession
    <3> QED
      BY <1>1, <3>1, <3>2
  <2> QED
    BY <1>3, <2>1, <2>2, <2>3 DEF Finish
<1>4. CASE Writer
  <2>1. CASE Get
    BY <1>1, <2>1, RecorderAssumption DEF Get
  <2>2. CASE WriteTemporary \/ Count
    BY <1>1, <2>2 DEF WriteTemporary, Count
  <2>3. writer \in Busy => item \in Frame
    BY <1>1 DEF MainInv
  <2>4. CASE Replace
    <3>1. /\ images' = Append(SubSeq(images, 1, saved), item)
          /\ UNCHANGED <<item, rows, saved, queue, session>> /\ item \in Frame
      BY <2>3, <2>4 DEF Replace, Busy
    <3>2. saved \in 0..Len(images)
      BY <1>1 DEF DiskInv
    <3>3. SubSeq(images, 1, saved) \in Seq(Frame)
      BY <1>1, <3>2
    <3>4. images' \in Seq(Frame)
      BY <3>1, <3>3
    <3> QED
      BY <1>1, <3>1, <3>4
  <2>5. CASE WriteRow
    BY <1>1, <2>3, <2>5 DEF WriteRow, Busy
  <2>6. CASE SaveFails
    <3>1. /\ writer \in Busy /\ rows' \in {rows, Append(rows, item)}
          /\ item' = None /\ UNCHANGED <<images, saved, queue, session>>
      BY <2>6 DEF SaveFails, Busy
    <3>2. Append(rows, item) \in Seq(Frame)
      BY <1>1, <2>3, <3>1
    <3>3. rows' \in Seq(Frame)
      BY <1>1, <3>1, <3>2
    <3> QED
      BY <1>1, <3>1, <3>3
  <2> QED
    BY <1>4, <2>1, <2>2, <2>4, <2>5, <2>6 DEF Writer
<1>5. CASE Environment
  BY <1>1, <1>5 DEF Environment, InterruptLoop, InterruptFinish, Kill,
     CloseSessionFails, ClockAdvances, ClockResets, CaptureFails
<1> QED
  BY <1>2, <1>3, <1>4, <1>5 DEF Next

-----------------------------------------------------------------------------
LEMMA MainStep == ASSUME TypeOK, MainInv, Next PROVE MainInv'
<1> USE DEF MainInv, Spinning, Fail, Step, End, Writing
<1>1. TypeFlags /\ TypeFrames /\ TypeDisk
  BY TypeParts
<1>2. CASE Callback
  <2>1. UNCHANGED <<writer, item, interrupted, exit>> /\ recorder \in {"spin", "submit"}
    BY <1>2 DEF Callback, SelectImage, IgnoreImage, RejectImage, Submit, OnTimer, OnInfo
  <2>2. session.status = "recording" /\ session'.status = session.status
    <3>1. recorder \notin {"leave", "exited"}
      BY <2>1
    <3>2. session' \in {session, [session EXCEPT !.saved = saved]}
      BY <1>2 DEF Callback, SelectImage, IgnoreImage, RejectImage, Submit, OnTimer,
                  OnInfo, Update
    <3> QED
      BY <1>1, <3>1, <3>2 DEF TypeDisk
  <2>3. ASSUME NEW f \in Frame, SelectImage(f) PROVE MainInv'
    BY <2>1, <2>2, <2>3, FramesAreNotNone DEF SelectImage
  <2>4. ASSUME NEW f \in Frame, IgnoreImage(f) PROVE MainInv'
    BY <2>1, <2>2, <2>4 DEF IgnoreImage
  <2>5. ASSUME NEW f \in Frame, RejectImage(f) PROVE MainInv'
    BY <2>1, <2>2, <2>5 DEF RejectImage
  <2>6. CASE Submit
    BY <2>1, <2>2, <2>6 DEF Submit
  <2>7. CASE OnTimer
    <3>1. \/ recorder' = "spin" /\ (error' => done')
          \/ recorder' = "close"
      BY <2>7 DEF OnTimer
    <3>2. recorder = "spin" /\ UNCHANGED <<hand, interrupted, writer, item>>
      BY <2>7 DEF OnTimer
    <3> QED
      BY <2>1, <2>2, <3>1, <3>2
  <2>8. ASSUME NEW s \in Signature, OnInfo(s) PROVE MainInv'
    BY <2>1, <2>2, <2>8 DEF OnInfo
  <2> QED
    BY <1>2, <2>3, <2>4, <2>5, <2>6, <2>7, <2>8 DEF Callback
<1>3. CASE Finish
  <2>1. CASE StopSpinning \/ CloseWriter \/ JoinWriter
    BY <2>1 DEF StopSpinning, CloseWriter, JoinWriter
  <2>2. CASE CloseSession
    BY <2>2 DEF CloseSession
  <2>3. CASE Leave
    BY <2>3 DEF Leave
  <2> QED
    BY <1>3, <2>1, <2>2, <2>3 DEF Finish
<1>4. CASE Writer
  <2>1. UNCHANGED <<recorder, done, error, hand, interrupted, exit, session>>
    BY <1>4 DEF Writer, Get, WriteTemporary, Replace, WriteRow, Count, SaveFails
  <2>2. writer' \in Busy => item' # None
    BY <1>4 DEF Writer, Get, WriteTemporary, Replace, WriteRow, Count, SaveFails, Busy
  <2> QED
    BY <2>1, <2>2
<1>5. CASE Environment
  <2>1. CASE InterruptLoop
    BY <2>1 DEF InterruptLoop
  <2>2. CASE InterruptFinish \/ Kill \/ CloseSessionFails
    BY <2>2 DEF InterruptFinish, Kill, CloseSessionFails
  <2>3. CASE ClockAdvances \/ ClockResets \/ CaptureFails
    BY <2>3 DEF ClockAdvances, ClockResets, CaptureFails
  <2> QED
    BY <1>5, <2>1, <2>2, <2>3 DEF Environment
<1> QED
  BY <1>2, <1>3, <1>4, <1>5 DEF Next

\* A frame is only selected after all others, and of the signature seen so far.
LEMMA SelectedStep == ASSUME TypeOK, SelectedInv, Next PROVE SelectedInv'
<1> USE DEF SelectedInv, Spinning, Fail, Step, End, Writing
<1>1. TypeFrames /\ None \notin Signature
  BY TypeParts, RecorderAssumption
<1>2. \A i \in 1..Len(selected) : selected[i] \in Frame
  BY <1>1 DEF TypeFrames
<1>3. ASSUME UNCHANGED <<selected, last_seen, image_signature, info>>
      PROVE  SelectedInv'
  BY <1>3
<1>4. CASE Callback
  <2>1. ASSUME NEW f \in Frame, SelectImage(f) PROVE SelectedInv'
    <3>1. f.stamp \in Int /\ f.signature \in Signature
      BY RecorderAssumption DEF Frame
    <3>2. /\ last_seen' = f.stamp /\ f.stamp > last_seen
          /\ image_signature' = f.signature /\ info' = info
          /\ image_signature # None => image_signature = f.signature
          /\ info # None => info = f.signature
      BY <2>1, <3>1, RecorderAssumption DEF SelectImage, Disagree
    <3>3. \A i \in 1..Len(selected) :
            selected[i].stamp \in Int /\ selected[i].signature # None
      BY <1>1, <1>2, RecorderAssumption DEF Frame
    <3>4. \A i \in 1..Len(selected) :
            /\ selected[i].stamp < f.stamp
            /\ selected[i].signature = f.signature
      BY <1>1, <3>1, <3>2, <3>3 DEF TypeFrames
    <3>5. CASE selected' = selected
      BY <3>1, <3>2, <3>3, <3>4, <3>5
    <3>6. CASE selected' = Append(selected, f)
      <4>1. /\ selected \in Seq(Frame) /\ Len(selected') = Len(selected) + 1
            /\ \A i \in 1..Len(selected) : selected'[i] = selected[i]
            /\ selected'[Len(selected) + 1] = f
        BY <1>1, <3>6 DEF TypeFrames
      <4>2. \A i \in 1..Len(selected') :
              i \in 1..Len(selected) \/ i = Len(selected) + 1
        BY <4>1
      <4>3. \A i \in 1..Len(selected') :
              /\ selected'[i].stamp <= last_seen'
              /\ selected'[i].signature = image_signature'
        BY <3>1, <3>2, <3>3, <3>4, <4>1, <4>2
      <4>4. \A i \in 1..Len(selected') : \A j \in 1..(i - 1) :
              selected'[j].stamp < selected'[i].stamp
        BY <3>4, <4>1, <4>2
      <4> QED
        BY <3>2, <4>3, <4>4
    <3> QED
      BY <2>1, <3>5, <3>6 DEF SelectImage
  <2>2. ASSUME NEW f \in Frame, IgnoreImage(f) PROVE SelectedInv'
    <3>1. f.signature # None
      BY <1>1 DEF Frame
    <3>2. /\ UNCHANGED <<selected, last_seen, info>>
          /\ image_signature' = f.signature
          /\ image_signature # None => image_signature = f.signature
          /\ info # None => info = f.signature
      BY <2>2, <3>1 DEF IgnoreImage, Disagree
    <3>3. \A i \in 1..Len(selected) : selected[i].signature # None
      BY <1>1, <1>2 DEF Frame
    <3>4. \A i \in 1..Len(selected) : selected[i].signature = image_signature'
      BY <3>2, <3>3
    <3> QED
      BY <3>2, <3>4
  <2>3. ASSUME NEW f \in Frame, RejectImage(f) PROVE SelectedInv'
    BY <1>3, <2>3 DEF RejectImage
  <2>4. CASE Submit \/ OnTimer
    BY <1>3, <2>4 DEF Submit, OnTimer
  <2>5. ASSUME NEW s \in Signature, OnInfo(s) PROVE SelectedInv'
    <3>1. /\ UNCHANGED <<selected, last_seen, image_signature>>
          /\ info' = info \/ (info' = s /\ ~Disagree(s, image_signature))
      BY <2>5 DEF OnInfo
    <3>2. image_signature # None /\ info' # None => image_signature = info'
      BY <1>1, <3>1 DEF Disagree
    <3> QED
      BY <3>1, <3>2
  <2> QED
    BY <1>4, <2>1, <2>2, <2>3, <2>4, <2>5 DEF Callback
<1>5. CASE Finish \/ Writer
  BY <1>3, <1>5 DEF Finish, StopSpinning, CloseWriter, JoinWriter, CloseSession, Leave,
     Writer, Get, WriteTemporary, Replace, WriteRow, Count, SaveFails
<1>6. CASE Environment
  BY <1>3, <1>6 DEF Environment, InterruptLoop, InterruptFinish, Kill,
     CloseSessionFails, ClockAdvances, ClockResets, CaptureFails
<1> QED
  BY <1>4, <1>5, <1>6 DEF Next

-----------------------------------------------------------------------------
\* The disk is the writer's; the frame it adds to it is the next one selected.
LEMMA DiskInvStep == ASSUME TypeOK, MainInv, DiskInv, FlowInv, Next PROVE DiskInv'
<1> USE DEF Spinning, Fail, Step, End, Writing
<1>1. TypeFrames /\ TypeDisk
  BY TypeParts
<1>2. /\ selected \in Seq(Frame) /\ images \in Seq(Frame) /\ rows \in Seq(Frame)
      /\ saved \in Nat
  BY <1>1 DEF TypeFrames, TypeDisk
<1>3. ASSUME UNCHANGED <<writer, item, writer_error, temporary, images, rows, saved>>,
             \/ selected' = selected
             \/ \E f \in Frame : selected' = Append(selected, f)
      PROVE  DiskInv'
  <2>1. /\ Len(selected) <= Len(selected') /\ Len(selected') \in Nat
        /\ \A i \in 1..Len(selected) : selected'[i] = selected[i]
    <3>1. CASE selected' = selected
      BY <1>2, <3>1
    <3>2. ASSUME NEW f \in Frame, selected' = Append(selected, f)
          PROVE  /\ Len(selected') = Len(selected) + 1
                 /\ \A i \in 1..Len(selected) : selected'[i] = selected[i]
      BY <1>2, <3>2
    <3>3. Len(selected) \in Nat
      BY <1>2
    <3> QED
      BY <1>3, <3>1, <3>2, <3>3
  <2>2. Len(images) \in Nat /\ Len(rows) \in Nat
    BY <1>2
  <2>3. \A i \in 1..Len(images) : i \in 1..Len(selected)
    BY <1>2 DEF DiskInv
  <2>4. \A i \in 1..Len(rows) : i \in 1..Len(selected)
    BY <1>2 DEF DiskInv
  <2>5. \A i \in 1..Len(images) : images[i] = selected'[i]
    BY <2>1, <2>3 DEF DiskInv
  <2>6. \A i \in 1..Len(rows) : rows[i] = selected'[i]
    BY <2>1, <2>4 DEF DiskInv
  <2>7. Len(images) <= Len(selected')
    <3>1. Len(images) <= Len(selected) /\ Len(selected) \in Nat
      BY <1>2 DEF DiskInv
    <3> QED
      BY <2>1, <2>2, <3>1
  <2> QED
    BY <1>3, <2>5, <2>6, <2>7 DEF DiskInv
<1>4. CASE Callback
  <2>1. UNCHANGED <<writer, item, writer_error, temporary, images, rows, saved>>
    BY <1>4 DEF Callback, SelectImage, IgnoreImage, RejectImage, Submit, OnTimer, OnInfo
  <2>2. selected' = selected \/ \E f \in Frame : selected' = Append(selected, f)
    BY <1>4 DEF Callback, SelectImage, IgnoreImage, RejectImage, Submit, OnTimer, OnInfo
  <2> QED
    BY <1>3, <2>1, <2>2
<1>5. CASE Finish
  BY <1>3, <1>5 DEF Finish, StopSpinning, CloseWriter, JoinWriter, CloseSession, Leave
<1>6. CASE Environment
  BY <1>3, <1>6 DEF Environment, InterruptLoop, InterruptFinish, Kill,
     CloseSessionFails, ClockAdvances, ClockResets, CaptureFails
<1>7. CASE Writer
  <2>1. selected' = selected /\ recorder # "exited"
    BY <1>7 DEF Writer, Get, WriteTemporary, Replace, WriteRow, Count, SaveFails
  <2>2. writer \in Busy => /\ ~writer_error /\ saved + 1 <= Len(selected)
                           /\ item = selected[saved + 1]
    <3>1. SUFFICES ASSUME writer \in Busy
                   PROVE  /\ ~writer_error /\ saved + 1 <= Len(selected)
                          /\ item = selected[saved + 1]
      OBVIOUS
    <3>2. ~writer_error /\ Len(queue) \in Nat
      BY <1>1, <3>1 DEF DiskInv, Busy, TypeDisk
    <3>3. Queued \in Nat
      BY <2>1, <3>1, <3>2 DEF FlowInv, Queued
    <3>4. Reached = saved + 1
      BY <3>1 DEF Reached
    <3> QED
      BY <1>2, <2>1, <3>1, <3>2, <3>3, <3>4 DEF FlowInv
  <2>3. CASE Get
    BY <1>2, <2>1, <2>3 DEF Get, DiskInv
  <2>4. CASE WriteTemporary
    BY <1>2, <2>1, <2>4, <2>2 DEF WriteTemporary, DiskInv, Busy
  <2>5. CASE Replace
    <3>1. /\ writer = "replace" /\ writer' = "row" /\ temporary' = FALSE
          /\ UNCHANGED <<writer_error, rows, saved>>
          /\ images' = Append(SubSeq(images, 1, saved), item)
      BY <2>5 DEF Replace
    <3>2. /\ ~writer_error /\ saved + 1 <= Len(selected) /\ item = selected[saved + 1]
          /\ Len(images) = saved /\ Len(rows) = saved
      BY <2>2, <3>1 DEF Busy, DiskInv
    <3>3. images' = Append(images, item) /\ item \in Frame
      BY <1>2, <3>1, <3>2
    <3>4. Len(images') = saved + 1 /\ images'[saved + 1] = item
          /\ \A i \in 1..saved : images'[i] = images[i]
      BY <1>2, <3>2, <3>3
    <3>5. \A i \in 1..(saved + 1) : images'[i] = selected[i]
      BY <1>2, <3>2, <3>4 DEF DiskInv
    <3> QED
      BY <1>2, <2>1, <3>1, <3>2, <3>4, <3>5 DEF DiskInv
  <2>6. CASE WriteRow
    <3>1. /\ writer = "row" /\ writer' = "count"
          /\ UNCHANGED <<writer_error, temporary, images, saved>>
          /\ rows' = Append(rows, item)
      BY <2>6 DEF WriteRow
    <3>2. /\ ~writer_error /\ saved + 1 <= Len(selected) /\ item = selected[saved + 1]
          /\ Len(images) = saved + 1 /\ Len(rows) = saved
      BY <2>2, <3>1 DEF Busy, DiskInv
    <3>3. item \in Frame
      BY <1>2, <3>2
    <3>4. Len(rows') = saved + 1 /\ rows'[saved + 1] = item
          /\ \A i \in 1..saved : rows'[i] = rows[i]
      BY <1>2, <3>1, <3>2, <3>3
    <3>5. \A i \in 1..(saved + 1) : rows'[i] = selected[i]
      BY <1>2, <3>2, <3>4 DEF DiskInv
    <3> QED
      BY <1>2, <2>1, <3>1, <3>2, <3>4, <3>5 DEF DiskInv
  <2>7. CASE Count
    BY <1>2, <2>1, <2>2, <2>7 DEF Count, DiskInv, Busy
  <2>8. CASE SaveFails
    <3>1. /\ writer \in Busy \ {"count"} /\ writer' = "get" /\ writer_error' = TRUE
          /\ UNCHANGED <<images, saved>>
          /\ rows' = rows \/ (writer = "row" /\ rows' = Append(rows, item))
      BY <2>8 DEF SaveFails, Busy
    <3>2. /\ ~writer_error /\ saved + 1 <= Len(selected) /\ item = selected[saved + 1]
          /\ Len(images) = IF writer = "row" THEN saved + 1 ELSE saved
          /\ Len(rows) = saved
      BY <2>2, <3>1 DEF Busy, DiskInv
    <3>3. item \in Frame
      BY <1>2, <3>2
    <3>4. CASE rows' = rows
      BY <1>2, <2>1, <3>1, <3>2, <3>4 DEF DiskInv
    <3>5. CASE writer = "row" /\ rows' = Append(rows, item)
      <4>1. Len(rows') = saved + 1 /\ rows'[saved + 1] = item
            /\ \A i \in 1..saved : rows'[i] = rows[i]
        BY <1>2, <3>2, <3>3, <3>5
      <4>2. \A i \in 1..(saved + 1) : rows'[i] = selected[i]
        <5>1. \A i \in 1..saved : rows[i] = selected[i]
          BY <3>2 DEF DiskInv
        <5>2. \A i \in 1..(saved + 1) : i \in 1..saved \/ i = saved + 1
          BY <1>2
        <5> QED
          BY <3>2, <4>1, <5>1, <5>2
      <4> QED
        BY <1>2, <2>1, <3>1, <3>2, <3>5, <4>1, <4>2 DEF DiskInv
    <3> QED
      BY <3>1, <3>4, <3>5
  <2> QED
    BY <1>7, <2>3, <2>4, <2>5, <2>6, <2>7, <2>8 DEF Writer
<1> QED
  BY <1>4, <1>5, <1>6, <1>7 DEF Next

-----------------------------------------------------------------------------
\* A step of the recorder that moves no frame.
LEMMA FlowFrame ==
  ASSUME FlowInv, recorder # "exited",
         UNCHANGED <<writer_error, writer, item, selected, saved, queue, hand,
                     interrupted>>,
         Closed' <=> Closed, error => error'
  PROVE  FlowInv'
  BY DEF FlowInv, Queued, Reached

LEMMA FlowEnd == ASSUME recorder' = "exited" PROVE FlowInv'
  BY DEF FlowInv

LEMMA FlowCallback ==
  ASSUME TypeOK, MainInv, FlowInv, Callback PROVE FlowInv'
<1> USE DEF Spinning, Fail
<1>1. TypeFlags /\ TypeFrames /\ TypeDisk
  BY TypeParts
<1>2. /\ selected \in Seq(Frame) /\ saved \in Nat /\ queue \in Seq(Frame \cup {None})
      /\ Len(queue) \in Nat /\ Reached \in Nat
  BY <1>1 DEF TypeFrames, TypeDisk, Reached
<1>3. UNCHANGED <<writer_error, writer, item, saved, interrupted>>
  BY DEF Callback, SelectImage, IgnoreImage, RejectImage, Submit, OnTimer, OnInfo
<1>4. ~Closed /\ ~Closed' /\ recorder # "exited"
  BY DEF Callback, SelectImage, IgnoreImage, RejectImage, Submit, OnTimer, OnInfo, Closed
<1>5. ASSUME NEW f \in Frame, SelectImage(f) PROVE FlowInv'
  <2>1. CASE recorder' # "submit"
    <3>1. UNCHANGED <<selected, queue, hand, error>>
      BY <1>5, <2>1 DEF SelectImage
    <3> QED
      BY <1>3, <1>4, <3>1, FlowFrame
  <2>2. CASE recorder' = "submit"
    <3>1. /\ selected' = Append(selected, f) /\ hand' = f /\ UNCHANGED <<queue, error>>
          /\ recorder = "spin" /\ ~done
      BY <1>5, <2>2 DEF SelectImage
    <3>2. hand = None /\ ~interrupted /\ ~error /\ f # None
      BY <3>1, FramesAreNotNone DEF MainInv
    <3>3. /\ Len(selected') = Len(selected) + 1 /\ selected'[Len(selected) + 1] = f
          /\ \A i \in 1..Len(selected) : selected'[i] = selected[i]
      BY <1>2, <3>1
    <3>4. Queued' = Queued /\ Reached' = Reached /\ Queued = Len(queue)
      BY <1>3, <1>4, <3>1 DEF Queued, Reached
    <3> SUFFICES ASSUME ~writer_error PROVE FlowInv'
      BY <1>3 DEF FlowInv
    <3>5. /\ Len(selected) = Reached + Queued
          /\ writer # "ended"
          /\ writer \in Busy => item = selected[saved + 1]
          /\ \A i \in 1..Queued : queue[i] # None /\ queue[i] = selected[Reached + i]
      BY <1>4, <3>2 DEF FlowInv
    <3>6. writer \in Busy => item' = selected'[saved + 1]
      <4>1. writer \in Busy => saved + 1 \in 1..Len(selected)
        BY <1>2, <3>4, <3>5 DEF Reached
      <4> QED
        BY <1>3, <3>3, <3>5, <4>1
    <3>7. \A i \in 1..Queued : queue[i] # None /\ queue[i] = selected'[Reached + i]
      <4>1. \A i \in 1..Queued : Reached + i \in 1..Len(selected)
        BY <1>2, <3>4, <3>5
      <4> QED
        BY <3>3, <3>5, <4>1
    <3>8. Len(selected') = Reached' + Queued' + 1 /\ hand' = selected'[Len(selected')]
      BY <1>2, <3>1, <3>3, <3>4, <3>5
    <3> QED
      BY <1>3, <1>4, <3>1, <3>2, <3>4, <3>5, <3>6, <3>7, <3>8 DEF FlowInv
  <2> QED
    BY <2>1, <2>2
<1>6. ASSUME NEW f \in Frame, IgnoreImage(f) \/ RejectImage(f) PROVE FlowInv'
  <2>1. UNCHANGED <<selected, queue, hand>> /\ (error => error')
    BY <1>6 DEF IgnoreImage, RejectImage
  <2> QED
    BY <1>3, <1>4, <2>1, FlowFrame
<1>7. CASE Submit
  <2>1. /\ recorder = "submit" /\ hand' = None /\ hand # None /\ UNCHANGED selected
        /\ ~interrupted /\ ~error
    BY <1>7 DEF Submit, MainInv
  <2>2. Reached' = Reached /\ Queued = Len(queue)
    BY <1>3, <1>4 DEF Reached, Queued
  <2> SUFFICES ASSUME ~writer_error PROVE FlowInv'
    BY <1>3 DEF FlowInv
  <2>3. /\ Len(selected) = Reached + Queued + 1 /\ hand = selected[Len(selected)]
        /\ writer # "ended"
        /\ writer \in Busy => item = selected[saved + 1]
        /\ \A i \in 1..Queued : queue[i] # None /\ queue[i] = selected[Reached + i]
    BY <1>4, <2>1 DEF FlowInv
  <2>4. CASE Len(queue) >= QueueSize
    <3>1. error' = TRUE /\ UNCHANGED queue
      BY <1>7, <2>4 DEF Submit
    <3>2. Queued' = Queued
      BY <1>4, <3>1 DEF Queued
    <3> QED
      BY <1>2, <1>3, <1>4, <2>1, <2>2, <2>3, <3>1, <3>2 DEF FlowInv
  <2>5. CASE ~(Len(queue) >= QueueSize)
    <3>1. queue' = Append(queue, hand) /\ hand \in Frame
      BY <1>1, <1>7, <2>1, <2>5 DEF Submit, TypeFrames
    <3>2. /\ Len(queue') = Len(queue) + 1 /\ queue'[Len(queue) + 1] = hand
          /\ \A i \in 1..Len(queue) : queue'[i] = queue[i]
      BY <1>2, <3>1
    <3>3. Queued' = Queued + 1
      BY <1>4, <2>2, <3>2 DEF Queued
    <3>4. \A i \in 1..Queued' : i \in 1..Queued \/ i = Queued + 1
      BY <1>2, <2>2, <3>3
    <3>5. \A i \in 1..Queued' : queue'[i] # None /\ queue'[i] = selected[Reached + i]
      BY <1>2, <2>1, <2>2, <2>3, <3>2, <3>4
    <3>6. Len(selected) = Reached' + Queued'
      BY <1>2, <2>2, <2>3, <3>3
    <3> QED
      BY <1>2, <1>3, <1>4, <2>1, <2>2, <2>3, <3>3, <3>5, <3>6 DEF FlowInv
  <2> QED
    BY <2>4, <2>5
<1>8. CASE OnTimer
  <2>1. UNCHANGED <<selected, queue, hand>> /\ recorder = "spin" /\ ~error
    BY <1>8 DEF OnTimer, MainInv
  <2> QED
    BY <1>3, <1>4, <2>1, FlowFrame
<1>9. ASSUME NEW s \in Signature, OnInfo(s) PROVE FlowInv'
  <2>1. UNCHANGED <<selected, queue, hand>> /\ (error => error')
    BY <1>9 DEF OnInfo
  <2> QED
    BY <1>3, <1>4, <2>1, FlowFrame
<1> QED
  BY <1>5, <1>6, <1>7, <1>8, <1>9 DEF Callback

LEMMA FlowFinish == ASSUME TypeOK, MainInv, FlowInv, Finish PROVE FlowInv'
<1> USE DEF Step, End
<1>1. CASE StopSpinning
  <2>1. /\ UNCHANGED <<writer_error, writer, item, selected, saved, queue, hand,
                       interrupted, error>>
        /\ recorder # "exited" /\ ~Closed /\ ~Closed'
    BY <1>1 DEF StopSpinning, Closed
  <2> QED
    BY <2>1, FlowFrame
<1>2. CASE CloseWriter
  <2>1. /\ UNCHANGED <<writer_error, writer, item, selected, saved, hand, interrupted,
                       error>>
        /\ queue' = Append(queue, None) /\ queue \in Seq(Frame \cup {None})
        /\ recorder # "exited" /\ ~Closed /\ Closed'
    BY <1>2, TypeParts DEF CloseWriter, Closed, TypeDisk
  <2>2. /\ Len(queue') = Len(queue) + 1 /\ queue'[Len(queue) + 1] = None
        /\ \A i \in 1..Len(queue) : queue'[i] = queue[i]
        /\ Len(queue) \in Nat
    BY <2>1
  <2> SUFFICES ASSUME ~writer_error PROVE FlowInv'
    BY <2>1 DEF FlowInv
  <2>3. writer # "ended"
    BY <2>1 DEF FlowInv
  <2>4. Reached' = Reached /\ Queued = Len(queue) /\ Queued' = Len(queue)
    BY <2>1, <2>2, <2>3 DEF Reached, Queued
  <2>5. \A i \in 1..Queued' :
          queue'[i] # None /\ queue'[i] = selected'[Reached' + i]
    BY <2>1, <2>2, <2>4 DEF FlowInv
  <2> QED
    BY <2>1, <2>2, <2>3, <2>4, <2>5 DEF FlowInv
<1>3. CASE JoinWriter
  <2>1. /\ UNCHANGED <<writer_error, writer, item, selected, saved, queue, hand,
                       interrupted>>
        /\ recorder # "exited" /\ Closed /\ Closed'
    BY <1>3 DEF JoinWriter, Closed
  <2>2. error => error'
    BY <1>3 DEF JoinWriter
  <2> QED
    BY <2>1, <2>2, FlowFrame
<1>4. CASE CloseSession
  <2>1. /\ UNCHANGED <<writer_error, writer, item, selected, saved, queue, hand,
                       interrupted, error>>
        /\ recorder # "exited" /\ Closed /\ Closed'
    BY <1>4 DEF CloseSession, Closed
  <2> QED
    BY <2>1, FlowFrame
<1>5. CASE Leave
  BY <1>5, FlowEnd DEF Leave
<1> QED
  BY <1>1, <1>2, <1>3, <1>4, <1>5 DEF Finish

LEMMA FlowEnvironment == ASSUME TypeOK, MainInv, FlowInv, Environment PROVE FlowInv'
<1> USE DEF Step, End
<1>1. CASE InterruptLoop
  <2>1. /\ UNCHANGED <<writer_error, writer, item, selected, saved, queue, error>>
        /\ recorder # "exited" /\ ~Closed /\ ~Closed' /\ hand' = None
        /\ ~interrupted /\ (interrupted' <=> hand # None)
    BY <1>1 DEF InterruptLoop, Closed, MainInv
  <2>2. Reached' = Reached /\ Queued' = Queued
    BY <2>1 DEF Reached, Queued
  <2> QED
    BY <2>1, <2>2 DEF FlowInv
<1>2. CASE InterruptFinish \/ Kill \/ CloseSessionFails
  BY <1>2, FlowEnd DEF InterruptFinish, Kill, CloseSessionFails
<1>3. CASE ClockAdvances \/ ClockResets \/ CaptureFails
  <2>1. UNCHANGED <<recorder, writer_error, writer, item, selected, saved, queue, hand,
                    interrupted, error>>
    BY <1>3 DEF ClockAdvances, ClockResets, CaptureFails
  <2> QED
    BY <2>1, FlowFrame, FlowEnd DEF Closed
<1> QED
  BY <1>1, <1>2, <1>3 DEF Environment

LEMMA FlowWriter ==
  ASSUME TypeOK, MainInv, DiskInv, FlowInv, Writer PROVE FlowInv'
<1> USE DEF Writing
<1>1. TypeFrames /\ TypeDisk
  BY TypeParts
<1>2. /\ selected \in Seq(Frame) /\ saved \in Nat /\ queue \in Seq(Frame \cup {None})
      /\ Len(queue) \in Nat
  BY <1>1 DEF TypeFrames, TypeDisk
<1>3. /\ UNCHANGED <<recorder, error, selected, hand, interrupted>>
      /\ recorder # "exited" /\ Closed' = Closed
  BY DEF Writer, Get, WriteTemporary, Replace, WriteRow, Count, SaveFails, Closed
<1>4. CASE Get
  <2>1. /\ writer = "get" /\ queue # <<>> /\ queue' = Tail(queue)
        /\ UNCHANGED <<writer_error, saved>>
    BY <1>4 DEF Get
  <2>2. /\ Len(queue') = Len(queue) - 1 /\ Head(queue) = queue[1] /\ Len(queue) > 0
        /\ \A i \in 1..Len(queue') : queue'[i] = queue[i + 1]
    BY <1>2, <2>1
  <2> SUFFICES ASSUME ~writer_error PROVE FlowInv'
    BY <2>1 DEF FlowInv
  <2>3. /\ item' = Head(queue)
        /\ writer' = IF Head(queue) = None THEN "ended" ELSE "save"
    BY <1>4 DEF Get
  <2>4. Reached = saved /\ Queued = IF Closed THEN Len(queue) - 1 ELSE Len(queue)
    BY <1>2, <2>1 DEF Reached, Queued, Busy
  <2>5. /\ Closed => queue[Len(queue)] = None
        /\ \A i \in 1..Queued : queue[i] # None /\ queue[i] = selected[saved + i]
        /\ Len(selected) \in {saved + Queued, saved + Queued + 1}
        /\ Len(selected) = saved + Queued + 1 => hand # None \/ interrupted \/ error
        /\ hand # None => /\ Len(selected) = saved + Queued + 1
                          /\ hand = selected[Len(selected)]
    BY <1>3, <2>1, <2>4 DEF FlowInv
  <2>6. CASE Head(queue) = None
    <3>1. Queued = 0 /\ Closed /\ Len(queue) = 1
      BY <1>2, <2>2, <2>4, <2>5, <2>6
    <3>2. queue' = <<>> /\ writer' = "ended" /\ Len(queue') = 0
      BY <1>2, <2>1, <2>2, <2>3, <2>6, <3>1
    <3>3. Reached' = saved /\ Queued' = 0
      BY <1>2, <2>1, <3>2 DEF Reached, Queued, Busy
    <3> QED
      BY <1>2, <1>3, <2>1, <2>5, <3>1, <3>2, <3>3 DEF FlowInv, Busy
  <2>7. CASE Head(queue) # None
    <3>1. writer' = "save" /\ 1 \in 1..Queued
      BY <1>2, <2>2, <2>3, <2>4, <2>5, <2>7
    <3>2. Reached' = saved + 1 /\ Queued' = Queued - 1
      BY <1>3, <2>1, <2>2, <2>4, <3>1 DEF Reached, Queued, Busy
    <3>3. item' = selected[saved + 1]
      BY <2>2, <2>3, <2>5, <3>1
    <3>4. \A i \in 1..Queued' :
            queue'[i] # None /\ queue'[i] = selected[Reached' + i]
      <4>1. \A i \in 1..Queued' : /\ i \in 1..Len(queue') /\ i + 1 \in 1..Queued
                                  /\ Reached' + i = saved + (i + 1)
        BY <1>2, <2>2, <2>4, <3>2
      <4> QED
        BY <2>2, <2>5, <4>1
    <3>5. Closed => Len(queue') > 0 /\ queue'[Len(queue')] = None
      BY <1>2, <2>2, <2>4, <2>5, <3>1
    <3>6. Reached' + Queued' = saved + Queued
      <4>1. Queued \in Int
        BY <1>2, <2>4
      <4> QED
        BY <1>2, <3>2, <4>1
    <3> QED
      BY <1>3, <2>1, <2>5, <3>1, <3>3, <3>4, <3>5, <3>6 DEF FlowInv
  <2> QED
    BY <2>6, <2>7
<1>5. CASE WriteTemporary \/ Replace \/ WriteRow
  <2>1. /\ writer \in Busy /\ writer' \in Busy
        /\ UNCHANGED <<writer_error, item, saved, queue>>
    BY <1>5 DEF WriteTemporary, Replace, WriteRow, Busy
  <2>2. Reached' = Reached /\ Queued' = Queued /\ writer # "ended" /\ writer' # "ended"
    BY <1>3, <2>1 DEF Reached, Queued, Busy
  <2> QED
    BY <1>3, <2>1, <2>2 DEF FlowInv
<1>6. CASE Count
  <2>1. /\ writer = "count" /\ writer' = "get" /\ saved' = saved + 1
        /\ UNCHANGED <<writer_error, queue>>
    BY <1>6 DEF Count
  <2>2. Reached' = Reached /\ Queued' = Queued
    BY <1>3, <2>1 DEF Reached, Queued, Busy
  <2> QED
    BY <1>3, <2>1, <2>2 DEF FlowInv, Busy
<1>7. CASE SaveFails
  BY <1>7 DEF SaveFails, FlowInv
<1> QED
  BY <1>4, <1>5, <1>6, <1>7 DEF Writer

LEMMA FlowStep == ASSUME TypeOK, MainInv, DiskInv, FlowInv, Next PROVE FlowInv'
  BY FlowCallback, FlowFinish, FlowEnvironment, FlowWriter DEF Next

LEMMA EndStep ==
  ASSUME TypeOK, MainInv, DiskInv, FlowInv, EndInv, Next PROVE EndInv'
<1> USE DEF Spinning, Fail, Step, End, Writing
<1>1. TypeFlags /\ TypeFrames /\ TypeDisk
  BY TypeParts
<1>2. ASSUME session'.status # "complete", recorder' # "status" PROVE EndInv'
  BY <1>2 DEF EndInv
\* The end of main(), and of the process, leaves the disk alone.
<1>3. ASSUME recorder' = "exited",
             UNCHANGED <<session, saved, rows, images, temporary, selected, interrupted>>
      PROVE  EndInv'
  BY <1>3 DEF EndInv
<1>4. CASE Callback
  <2>1. recorder \in {"spin", "submit"} /\ recorder' \in {"spin", "submit", "close"}
    BY <1>4 DEF Callback, SelectImage, IgnoreImage, RejectImage, Submit, OnTimer, OnInfo
  <2>2. session' \in {session, [session EXCEPT !.saved = saved]}
    BY <1>4 DEF Callback, SelectImage, IgnoreImage, RejectImage, Submit, OnTimer,
                OnInfo, Update
  <2>3. session'.status = "recording"
    BY <1>1, <2>1, <2>2 DEF MainInv, TypeDisk
  <2> QED
    BY <1>2, <2>1, <2>3
<1>5. CASE Finish
  <2>1. CASE StopSpinning \/ CloseWriter
    <3>1. /\ recorder \in {"spin", "close"} /\ recorder' \in {"close", "join"}
          /\ session' = session
      BY <2>1 DEF StopSpinning, CloseWriter
    <3> QED
      BY <1>2, <3>1 DEF MainInv
  <2>2. CASE JoinWriter
    <3>1. /\ recorder = "join" /\ session' = session
          /\ ~error' => writer = "ended" /\ ~writer_error /\ saved # 0
          /\ UNCHANGED <<writer, writer_error, saved>>
      BY <2>2 DEF JoinWriter
    <3>2. session'.status # "complete"
      BY <3>1 DEF MainInv
    <3> QED
      BY <1>1, <3>1, <3>2 DEF EndInv, TypeDisk
  <2>3. CASE CloseSession
    <3>1. CASE error
      <4>1. session'.status = "failed" /\ recorder' = "leave"
        BY <2>3, <3>1 DEF CloseSession
      <4> QED
        BY <1>2, <4>1
    <3>2. CASE ~error
      <4>1. /\ recorder = "status" /\ recorder' = "leave" /\ session'.saved = saved
            /\ UNCHANGED <<writer, saved, rows, images, temporary, selected, interrupted>>
        BY <2>3, <3>2 DEF CloseSession
      <4>2. writer = "ended" /\ ~writer_error /\ saved > 0
        BY <3>2, <4>1 DEF EndInv
      <4>3. Len(rows) = saved /\ Len(images) = saved /\ ~temporary
        BY <4>2 DEF DiskInv
      <4>4. queue = <<>> /\ hand = None
        BY <4>1, <4>2 DEF FlowInv, MainInv
      <4>5. Queued = 0 /\ Reached = saved
        BY <1>1, <4>2, <4>4 DEF Queued, Reached, Busy, TypeDisk
      <4>6. \/ Len(selected) = saved
            \/ interrupted /\ Len(selected) = saved + 1
        BY <1>1, <3>2, <4>1, <4>2, <4>4, <4>5 DEF FlowInv, TypeDisk
      <4> QED
        BY <4>1, <4>2, <4>3, <4>6 DEF EndInv
    <3> QED
      BY <3>1, <3>2
  <2>4. CASE Leave
    BY <1>3, <2>4 DEF Leave
  <2> QED
    BY <1>5, <2>1, <2>2, <2>3, <2>4 DEF Finish
<1>6. CASE Writer
  <2>1. /\ recorder # "exited" /\ writer # "ended"
        /\ UNCHANGED <<recorder, error, session>>
    BY <1>6 DEF Writer, Get, WriteTemporary, Replace, WriteRow, Count, SaveFails
  <2>2. session'.status # "complete" /\ ~(recorder' = "status" /\ ~error')
    BY <2>1 DEF EndInv
  <2> QED
    BY <2>2 DEF EndInv
<1>7. CASE Environment
  <2>1. CASE InterruptLoop
    <3>1. recorder \in {"spin", "submit"} /\ recorder' = "close" /\ session' = session
      BY <2>1 DEF InterruptLoop
    <3> QED
      BY <1>2, <3>1 DEF MainInv
  <2>2. CASE InterruptFinish \/ Kill \/ CloseSessionFails
    BY <1>3, <2>2 DEF InterruptFinish, Kill, CloseSessionFails
  <2>3. CASE ClockAdvances \/ ClockResets \/ CaptureFails
    <3>1. UNCHANGED <<recorder, error, exit, writer, writer_error, saved, session,
                      rows, images, temporary, selected, interrupted>>
      BY <2>3 DEF ClockAdvances, ClockResets, CaptureFails
    <3> QED
      BY <3>1 DEF EndInv
  <2> QED
    BY <1>7, <2>1, <2>2, <2>3 DEF Environment
<1> QED
  BY <1>4, <1>5, <1>6, <1>7 DEF Next

-----------------------------------------------------------------------------
LEMMA InitRecorder == Init => RecorderInv
<1> SUFFICES ASSUME Init PROVE RecorderInv
  OBVIOUS
<1>1. TypeOK
  BY InitType
<1>2. MainInv /\ SelectedInv
  BY DEF Init, MainInv, SelectedInv, Busy
<1>3. DiskInv
  BY DEF Init, DiskInv
<1>4. FlowInv
  <2>1. /\ writer = "get" /\ recorder = "spin" /\ saved = 0 /\ queue = <<>>
        /\ selected = <<>> /\ hand = None
    BY DEF Init
  <2>2. Queued = 0 /\ Reached = 0 /\ ~Closed /\ writer \notin Busy
    BY <2>1 DEF Queued, Reached, Closed, Busy
  <2> QED
    BY <2>1, <2>2 DEF FlowInv
<1>5. EndInv
  BY DEF Init, EndInv
<1> QED
  BY <1>1, <1>2, <1>3, <1>4, <1>5 DEF RecorderInv

LEMMA TypeStep == ASSUME TypeOK, MainInv, DiskInv, Next PROVE TypeOK'
<1>1. TypeFlags /\ TypeFrames
  BY TypeParts
<1>2. TypeFlags' /\ TypeFrames' /\ TypeDisk'
  BY <1>1, FlagsStep, FramesStep, DiskStep
<1> QED
  BY <1>2 DEF TypeOK, TypeFlags, TypeFrames, TypeDisk

LEMMA StutterRecorder == ASSUME RecorderInv, UNCHANGED vars PROVE RecorderInv'
<1> USE DEF RecorderInv, vars
<1>1. TypeOK'
  BY DEF TypeOK
<1>2. MainInv' /\ SelectedInv'
  BY DEF MainInv, SelectedInv, Busy
<1>3. DiskInv' /\ EndInv'
  BY DEF DiskInv, EndInv
<1>4. FlowInv'
  BY DEF FlowInv, Queued, Reached, Closed, Busy
<1> QED
  BY <1>1, <1>2, <1>3, <1>4

LEMMA NextRecorder == RecorderInv /\ [Next]_vars => RecorderInv'
<1>1. ASSUME RecorderInv, Next PROVE RecorderInv'
  BY <1>1, TypeStep, MainStep, SelectedStep, DiskInvStep, FlowStep, EndStep
  DEF RecorderInv
<1> QED
  BY <1>1, StutterRecorder

LEMMA RecorderInvariance == Spec => []RecorderInv
  BY InitRecorder, NextRecorder, PTL DEF Spec

\* Every variable of the recorder keeps its range, the queue its bound, and the
\* main thread is in submit() only with a frame in its hand.
THEOREM TypeCorrect == Spec => []TypeOK
<1>1. RecorderInv => TypeOK
  BY DEF RecorderInv
<1> QED
  BY <1>1, RecorderInvariance, PTL

\* Whatever fails and whenever the process is killed, the manifest and the images
\* are the first frames that were selected.
THEOREM DiskIsPrefixAlways == Spec => []DiskIsPrefix
<1>1. RecorderInv => DiskIsPrefix
  <2> SUFFICES ASSUME RecorderInv PROVE DiskIsPrefix
    OBVIOUS
  <2>1. /\ selected \in Seq(Frame) /\ images \in Seq(Frame) /\ rows \in Seq(Frame)
        /\ DiskInv
    BY DEF RecorderInv, TypeOK
  <2>2. images = SubSeq(selected, 1, Len(images))
    BY <2>1 DEF DiskInv
  <2>3. rows = SubSeq(images, 1, Len(rows))
    BY <2>1 DEF DiskInv
  <2> QED
    BY <2>1, <2>2, <2>3 DEF DiskInv, DiskIsPrefix
<1> QED
  BY <1>1, RecorderInvariance, PTL

\* What is on disk passes the check exactly while the session is complete.
Complete == session.status = "complete"

LEMMA PassesIsComplete == RecorderInv => (Passes <=> Complete)
<1> SUFFICES ASSUME RecorderInv PROVE Passes <=> Complete
  OBVIOUS
<1>1. ASSUME Passes PROVE Complete
  BY <1>1 DEF Passes, Complete
<1>2. ASSUME Complete PROVE Passes
  <2>1. /\ saved > 0 /\ session.saved = saved /\ Len(rows) = saved
        /\ Len(images) = saved /\ ~temporary
    BY <1>2 DEF RecorderInv, EndInv, Complete
  <2>2. /\ images \in Seq(Frame) /\ rows \in Seq(Frame) /\ selected \in Seq(Frame)
        /\ saved \in Nat
    BY DEF RecorderInv, TypeOK
  <2>3. /\ saved <= Len(selected)
        /\ \A i \in 1..saved : images[i] = selected[i] /\ rows[i] = selected[i]
    BY <2>1 DEF RecorderInv, DiskInv
  <2>4. images = rows
    BY <2>1, <2>2, <2>3, SeqEqual
  <2>5. rows # <<>>
    BY <2>1, <2>2
  <2>6. \A i \in 1..saved :
          /\ selected[i].signature = image_signature
          /\ \A j \in 1..(i - 1) : selected[j].stamp < selected[i].stamp
    BY <2>2, <2>3 DEF RecorderInv, SelectedInv
  <2>7. ASSUME NEW i \in 1..Len(rows)
        PROVE  /\ \A j \in 1..(i - 1) : rows[j].stamp < rows[i].stamp
               /\ ~Disagree(rows[i].signature, rows[1].signature)
               /\ ~Disagree(rows[i].signature, info)
    <3>1. i \in 1..saved /\ 1 \in 1..saved /\ \A j \in 1..(i - 1) : j \in 1..saved
      BY <2>1, <2>2
    <3>2. \A j \in 1..(i - 1) : rows[j].stamp < rows[i].stamp
      BY <2>3, <2>6, <3>1
    <3>3. rows[i].signature = image_signature /\ rows[1].signature = image_signature
      BY <2>3, <2>6, <3>1
    <3> QED
      BY <3>2, <3>3 DEF Disagree, RecorderInv, SelectedInv
  <2>8. session.status = "complete"
    BY <1>2 DEF Complete
  <2> QED
    BY <2>1, <2>4, <2>5, <2>7, <2>8 DEF Passes
<1> QED
  BY <1>1, <1>2

\* A session that passes the check holds every frame that was selected, save one
\* that SIGINT caught on its way to the queue.
THEOREM AcceptedIsWholeAlways == Spec => []AcceptedIsWhole
<1>1. RecorderInv => AcceptedIsWhole
  <2> SUFFICES ASSUME RecorderInv, Accepted
               PROVE  \/ rows = selected
                      \/ interrupted /\ rows = SubSeq(selected, 1, Len(selected) - 1)
    BY DEF AcceptedIsWhole
  <2>1. session.status = "complete"
    BY PassesIsComplete DEF Accepted, Complete
  <2>2. /\ rows \in Seq(Frame) /\ selected \in Seq(Frame) /\ saved \in Nat
        /\ Len(rows) = saved /\ \A i \in 1..saved : rows[i] = selected[i]
        /\ \/ Len(selected) = saved
           \/ interrupted /\ Len(selected) = saved + 1
    BY <2>1 DEF RecorderInv, TypeOK, DiskInv, EndInv
  <2>3. CASE Len(selected) = saved
    BY <2>2, <2>3, SeqEqual
  <2>4. CASE interrupted /\ Len(selected) = saved + 1
    <3>1. rows = SubSeq(selected, 1, saved) /\ Len(selected) - 1 = saved
      BY <2>2, <2>4
    <3> QED
      BY <2>4, <3>1
  <2> QED
    BY <2>2, <2>3, <2>4
<1> QED
  BY <1>1, RecorderInvariance, PTL

-----------------------------------------------------------------------------
\* Step by step, the recorder is the recorder of CaptureSession.
SessionNext == [Session!Record \/ Session!NoteFailure]_<<Session!recorderVars, failureFile>>

LEMMA SessionFrame ==
  ASSUME Stage' = Stage, Passes' = Passes, UNCHANGED <<exit, failureFile>>
  PROVE  SessionNext
  BY DEF SessionNext, Session!recorderVars

LEMMA SessionClose ==
  ASSUME Stage = "recording", Stage' = "closing", Passes' = Passes,
         UNCHANGED <<exit, failureFile>>
  PROVE  SessionNext
  BY DEF SessionNext, Session!Record, Session!Close

LEMMA SessionEndBadly ==
  ASSUME Stage # "ended", Stage' = "ended", exit' \in {"error", "killed"},
         Passes' = Passes, UNCHANGED failureFile
  PROVE  SessionNext
  BY DEF SessionNext, Session!Record, Session!EndBadly

\* Only the completion of the session makes what is on disk pass.
LEMMA PassesStays ==
  ASSUME Passes <=> Complete, Passes' <=> Complete', Complete' <=> Complete
  PROVE  Passes' = Passes
  BY DEF Passes

LEMMA SessionStep ==
  ASSUME TypeOK, MainInv, Next, Passes <=> Complete, Passes' <=> Complete'
  PROVE  SessionNext
<1> USE DEF Spinning, Fail, Step, End, Writing
<1>0. ASSUME session' = session PROVE Passes' = Passes
  BY <1>0, PassesStays DEF Complete
<1>1. CASE Callback
  <2>1. /\ recorder \in {"spin", "submit"} /\ recorder' \in {"spin", "submit", "close"}
        /\ UNCHANGED <<exit, failureFile>>
    BY <1>1 DEF Callback, SelectImage, IgnoreImage, RejectImage, Submit, OnTimer, OnInfo
  <2>2. session' \in {session, [session EXCEPT !.saved = saved]}
    BY <1>1 DEF Callback, SelectImage, IgnoreImage, RejectImage, Submit, OnTimer,
                OnInfo, Update
  <2>3. session \in [status : {"recording", "complete", "failed"}, saved : Nat]
    BY DEF TypeOK
  <2>4. Complete' <=> Complete
    BY <2>2, <2>3 DEF Complete
  <2>5. Passes' = Passes
    BY <2>4, PassesStays
  <2> QED
    BY <2>1, <2>5, SessionFrame, SessionClose DEF Stage
<1>2. CASE Finish
  <2>1. CASE StopSpinning
    BY <1>0, <2>1, SessionClose DEF StopSpinning, Stage
  <2>2. CASE CloseWriter
    BY <1>0, <2>2, SessionFrame DEF CloseWriter, Stage
  <2>3. CASE JoinWriter
    <3>1. /\ Stage = "closing" /\ Stage' \in {"drained", "failed"}
          /\ failureFile => Stage' = "failed"
          /\ UNCHANGED <<exit, failureFile, session>>
      BY <2>3 DEF JoinWriter, Stage
    <3>2. Passes' = Passes
      BY <1>0, <3>1
    <3> QED
      BY <3>1, <3>2 DEF SessionNext, Session!Record, Session!Drain
  <2>4. CASE CloseSession
    <3>1. CASE error
      <4>1. /\ Stage = "failed" /\ Stage' = "failed" /\ UNCHANGED <<exit, failureFile>>
            /\ session'.status = "failed" /\ session.status = "recording"
        BY <2>4, <3>1 DEF CloseSession, Stage, MainInv
      <4>2. Complete' <=> Complete
        BY <4>1 DEF Complete
      <4>3. Passes' = Passes
        BY <4>2, PassesStays
      <4> QED
        BY <4>1, <4>3, SessionFrame
    <3>2. CASE ~error
      <4>1. /\ Stage = "drained" /\ Stage' = "complete" /\ Complete'
            /\ UNCHANGED <<exit, failureFile>>
        BY <2>4, <3>2 DEF CloseSession, Stage, Complete
      <4>2. Passes' = TRUE
        BY <4>1 DEF Passes
      <4> QED
        BY <4>1, <4>2 DEF SessionNext, Session!Record, Session!Complete
    <3> QED
      BY <3>1, <3>2
  <2>5. CASE Leave
    <3>1. /\ recorder = "leave" /\ Stage' = "ended"
          /\ exit' = IF error THEN "error" ELSE "ok"
          /\ UNCHANGED <<failureFile, session>>
      BY <2>5 DEF Leave, Stage
    <3>2. Passes' = Passes
      BY <1>0, <3>1
    <3>3. CASE error
      BY <3>1, <3>2, <3>3, SessionEndBadly DEF Stage
    <3>4. CASE ~error
      <4>1. Stage = "complete" /\ exit' = "ok"
        BY <3>1, <3>4 DEF Stage
      <4> QED
        BY <3>1, <3>2, <4>1 DEF SessionNext, Session!Record, Session!EndWell
    <3> QED
      BY <3>3, <3>4
  <2> QED
    BY <1>2, <2>1, <2>2, <2>3, <2>4, <2>5 DEF Finish
<1>3. CASE Writer
  <2>1. UNCHANGED <<recorder, error, exit, failureFile, session>>
    BY <1>3 DEF Writer, Get, WriteTemporary, Replace, WriteRow, Count, SaveFails
  <2> QED
    BY <1>0, <2>1, SessionFrame DEF Stage
<1>4. CASE Environment
  <2>1. CASE InterruptLoop
    BY <1>0, <2>1, SessionClose DEF InterruptLoop, Stage
  <2>2. CASE InterruptFinish \/ Kill \/ CloseSessionFails
    <3>1. /\ recorder # "exited" /\ recorder' = "exited"
          /\ exit' \in {"error", "killed"} /\ UNCHANGED <<failureFile, session>>
      BY <2>2 DEF InterruptFinish, Kill, CloseSessionFails
    <3>2. Stage # "ended" /\ Stage' = "ended"
      BY <3>1 DEF Stage, TypeOK
    <3> QED
      BY <1>0, <3>1, <3>2, SessionEndBadly
  <2>3. CASE ClockAdvances \/ ClockResets
    <3>1. UNCHANGED <<recorder, error, exit, failureFile, session>>
      BY <2>3 DEF ClockAdvances, ClockResets
    <3> QED
      BY <1>0, <3>1, SessionFrame DEF Stage
  <2>4. CASE CaptureFails
    <3>1. /\ ~failureFile /\ failureFile' = TRUE
          /\ UNCHANGED <<recorder, error, exit, session>>
      BY <2>4 DEF CaptureFails
    <3>2. UNCHANGED <<Stage, exit>>
      BY <3>1 DEF Stage
    <3>3. Passes' = Passes
      BY <1>0, <3>1
    <3> QED
      BY <3>1, <3>2, <3>3 DEF SessionNext, Session!NoteFailure, Session!recorderVars
  <2> QED
    BY <1>4, <2>1, <2>2, <2>3, <2>4 DEF Environment
<1> QED
  BY <1>1, <1>2, <1>3, <1>4 DEF Next

\* The recorder implements CaptureSession: what is on disk passes the check from
\* the completion of the session on and never before, whatever fails and wherever
\* a signal ends the process; a session is not completed if another process had
\* failed before its queue was drained, and without it the process does not end
\* with 0.
THEOREM RecorderImplementsSession == Spec => SessionKept
<1>1. Init => Session!Init
  <2> SUFFICES ASSUME Init PROVE Session!Init
    OBVIOUS
  <2>1. Stage = "recording" /\ exit = "no" /\ failureFile = FALSE
    BY DEF Init, Stage
  <2>2. Passes = FALSE
    BY DEF Init, Passes
  <2> QED
    BY <2>1, <2>2 DEF Session!Init
<1>2. RecorderInv /\ RecorderInv' /\ [Next]_vars => SessionNext
  <2> SUFFICES ASSUME RecorderInv, RecorderInv', [Next]_vars PROVE SessionNext
    OBVIOUS
  <2>1. Passes <=> Complete
    BY PassesIsComplete
  <2>2. (Passes <=> Complete)'
    BY PassesIsComplete, PTL
  <2>3. CASE Next
    BY <2>1, <2>2, <2>3, SessionStep DEF RecorderInv
  <2>4. CASE UNCHANGED vars
    <3>1. /\ UNCHANGED <<exit, failureFile>> /\ Stage' = Stage
          /\ (Complete' <=> Complete)
      BY <2>4 DEF Stage, vars, Complete
    <3>2. Passes' = Passes
      BY <2>1, <2>2, <3>1, PassesStays
    <3> QED
      BY <3>1, <3>2, SessionFrame
  <2> QED
    BY <2>3, <2>4
<1> QED
  BY <1>1, <1>2, RecorderInvariance, PTL DEF Spec, SessionKept, Session!Spec, SessionNext
-----------------------------------------------------------------------------
\* The report is one of an ended bag recorder, and is finalized exactly when
\* that ended well and left a whole bag.
ReportInv ==
  /\ report \in {"none", "finalized", "failed", "raised"}
  /\ bag \in {"off", "running"} => report = "none"
  /\ report = "finalized" => bag = "ok" /\ bagWhole
  /\ report = "failed" => ~(bag = "ok" /\ bagWhole)

\* A failure is on record only when it was what ended the session, and a bag
\* recorder that failed before an image was selected stays so.
MarkInv ==
  /\ failureFile => ending = "failure"
  /\ uncovered => bag = "failed"

LaunchInv == ReportInv /\ MarkInv

LEMMA InitLaunch == LaunchInit => LaunchInv
  BY DEF LaunchInit, Init, LaunchInv, ReportInv, MarkInv

\* Whoever ends, only the first failure that is handled is put on record.
LEMMA StopKeeps ==
  ASSUME failureFile => ending = "failure", NEW expected \in BOOLEAN, Stop(expected)
  PROVE  failureFile' => ending' = "failure"
<1>1. CASE ending # "no" /\ UNCHANGED ending /\ Unmarked
  BY <1>1 DEF Unmarked, vars
<1>2. CASE ending = "no" /\ ending' = "failure" /\ CaptureFails
  BY <1>2
<1>3. CASE ending = "no" /\ Unmarked
  BY <1>3 DEF Unmarked, vars
<1> QED
  BY <1>1, <1>2, <1>3 DEF Stop

\* To the recorder, a handler is at most the failure of another process.
LEMMA StopIsRecorders ==
  ASSUME NEW expected \in BOOLEAN, Stop(expected) PROVE [Next]_vars
  BY DEF Stop, Unmarked, Next, Environment

LEMMA RecorderStepKeeps == ASSUME LaunchInv, RecorderStep PROVE LaunchInv'
<1>1. UNCHANGED <<bag, bagWhole, report, ending, failureFile>>
  BY DEF RecorderStep, launchVars
<1>2. uncovered' => uncovered \/ bag = "failed"
  BY DEF RecorderStep
<1> QED
  BY <1>1, <1>2 DEF LaunchInv, ReportInv, MarkInv

\* A recorder of the bag, or a camera, that ends.
LEMMA EndsKeep == ASSUME LaunchInv, CameraEnds \/ BagEnds PROVE LaunchInv'
<1>1. UNCHANGED <<failureFile, ending, report, uncovered>>
  BY DEF CameraEnds, BagEnds, vars
<1>2. \/ UNCHANGED <<bag, bagWhole>>
      \/ bag = "running" /\ bag' \in {"ok", "failed"}
  BY DEF CameraEnds, BagEnds
<1> QED
  BY <1>1, <1>2 DEF LaunchInv, ReportInv, MarkInv

LEMMA ExitedKeeps ==
  ASSUME LaunchInv, RecorderExited \/ CameraExited PROVE LaunchInv'
<1>1. \E expected \in BOOLEAN : Stop(expected)
  BY DEF RecorderExited, CameraExited
<1>2. failureFile' => ending' = "failure"
  BY <1>1, StopKeeps DEF LaunchInv, MarkInv
<1>3. UNCHANGED <<bag, bagWhole, report, uncovered>>
  BY DEF RecorderExited, CameraExited
<1> QED
  BY <1>2, <1>3 DEF LaunchInv, ReportInv, MarkInv

LEMMA BagExitedKeeps == ASSUME LaunchInv, BagExited PROVE LaunchInv'
<1>1. bag \in {"ok", "failed"} /\ UNCHANGED <<bag, bagWhole, uncovered>>
  BY DEF BagExited
<1>2. CASE /\ report' = IF bag = "ok" /\ bagWhole THEN "finalized" ELSE "failed"
           /\ Stop(FALSE)
  <2>1. failureFile' => ending' = "failure"
    BY <1>2, StopKeeps DEF LaunchInv, MarkInv
  <2> QED
    BY <1>1, <1>2, <2>1 DEF LaunchInv, ReportInv, MarkInv
<1>3. CASE /\ report' = "raised"
           /\ ending' = IF ending = "no" THEN "exception" ELSE ending
           /\ Unmarked
  <2>1. failureFile' = failureFile
    BY <1>3 DEF Unmarked, vars
  <2> QED
    BY <1>1, <1>3, <2>1 DEF LaunchInv, ReportInv, MarkInv
<1> QED
  BY <1>2, <1>3 DEF BagExited

LEMMA NextLaunch == LaunchInv /\ [LaunchNext]_sessionVars => LaunchInv'
<1> SUFFICES ASSUME LaunchInv, [LaunchNext]_sessionVars PROVE LaunchInv'
  OBVIOUS
<1>1. CASE RecorderStep \/ CameraEnds \/ BagEnds
  BY <1>1, RecorderStepKeeps, EndsKeep
<1>2. CASE Handler
  BY <1>2, ExitedKeeps, BagExitedKeeps DEF Handler
<1>3. CASE UserStops
  <2>1. /\ ending = "no"
        /\ UNCHANGED <<failureFile, bag, bagWhole, report, uncovered>>
    BY <1>3 DEF UserStops, Unhandled, vars
  <2> QED
    BY <2>1 DEF LaunchInv, ReportInv, MarkInv
<1>4. CASE LaunchDies \/ UNCHANGED sessionVars
  <2>1. UNCHANGED <<failureFile, ending, bag, bagWhole, report, uncovered>>
    BY <1>4 DEF LaunchDies, vars, sessionVars, launchVars
  <2> QED
    BY <2>1 DEF LaunchInv, ReportInv, MarkInv
<1> QED
  BY <1>1, <1>2, <1>3, <1>4 DEF LaunchNext

LEMMA LaunchInvariance == LaunchSpec => []LaunchInv
  BY InitLaunch, NextLaunch, PTL DEF LaunchSpec

\* The launch process and the other processes do nothing to the recorder that
\* CaptureRecorder does not foresee: whatever holds of the recorder on its own
\* holds of it in the session.
THEOREM RecorderInLaunch == LaunchSpec => Spec
<1>1. LaunchInit => Init
  BY DEF LaunchInit
<1>2. [LaunchNext]_sessionVars => [Next]_vars
  <2> SUFFICES ASSUME [LaunchNext]_sessionVars PROVE [Next]_vars
    OBVIOUS
  <2>1. CASE CameraEnds \/ BagEnds \/ UserStops \/ LaunchDies
    BY <2>1 DEF CameraEnds, BagEnds, UserStops, LaunchDies
  <2>2. CASE RecorderStep
    BY <2>2 DEF RecorderStep
  <2>3. CASE RecorderExited \/ CameraExited
    BY <2>3, StopIsRecorders DEF RecorderExited, CameraExited
  <2>4. CASE BagExited
    BY <2>4, StopIsRecorders DEF BagExited, Unmarked
  <2>5. CASE UNCHANGED sessionVars
    BY <2>5 DEF sessionVars
  <2> QED
    BY <2>1, <2>2, <2>3, <2>4, <2>5 DEF LaunchNext, Handler
<1> QED
  BY <1>1, <1>2, PTL DEF LaunchSpec, Spec

\* A session that passes the check selected no image after the bag recorder had
\* failed, unless the launch process failed with its report.
THEOREM BagCoversImagesAlways == LaunchSpec => []BagCoversImages
<1>1. LaunchInv => BagCoversImages
  BY DEF LaunchInv, ReportInv, MarkInv, BagCoversImages, Settled, CaptureAccepted, Accepted
<1> QED
  BY <1>1, LaunchInvariance, PTL

\* No order in which the ends of the processes are handled makes a capture fail
\* in which nothing failed: no failure is on record then, and a recorder that
\* ended with 0 leaves what passes.
THEOREM CleanRunAcceptedAlways == LaunchSpec => []CleanRunAccepted
<1>1. RecorderInv /\ LaunchInv => CleanRunAccepted
  <2> SUFFICES ASSUME RecorderInv, LaunchInv PROVE CleanRunAccepted
    OBVIOUS
  <2>1. exit = "ok" => Passes
    BY PassesIsComplete DEF Complete, RecorderInv, MainInv
  <2>2. /\ report = "failed" => ~(bag = "ok" /\ bagWhole)
        /\ failureFile => ending = "failure"
    BY DEF LaunchInv, ReportInv, MarkInv
  <2> QED
    BY <2>1, <2>2 DEF CleanRunAccepted, CaptureAccepted, Accepted
<1> QED
  BY <1>1, LaunchInvariance, RecorderInLaunch, RecorderInvariance, PTL

\* In the session as a whole, what passes the full check holds every frame that
\* was selected, save one that SIGINT caught on its way to the queue, and the
\* bag ran while each of them was selected, unless its report failed.
SessionCovered ==
  Settled /\ CaptureAccepted =>
    /\ \/ rows = selected
       \/ interrupted /\ rows = SubSeq(selected, 1, Len(selected) - 1)
    /\ report # "raised" => ~uncovered

\* Both halves of the dataset check hold together in the composition: the images
\* of the recorder are whole, and its bag covers them.
THEOREM SessionCoveredAlways == LaunchSpec => []SessionCovered
<1>1. AcceptedIsWhole /\ BagCoversImages => SessionCovered
  BY DEF AcceptedIsWhole, BagCoversImages, SessionCovered, CaptureAccepted
<1> QED
  BY <1>1, AcceptedIsWholeAlways, BagCoversImagesAlways, RecorderInLaunch, PTL
=============================================================================
