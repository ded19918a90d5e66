----------------------- MODULE MonoInertialSync_proofs -----------------------
(***************************************************************************)
(* Which measurements a frame is tracked with, for any stamps and any      *)
(* number of images: every one since the frame tracked before, whatever    *)
(* the order of the images and wherever the threads are.                   *)
(***************************************************************************)
EXTENDS MonoInertialSync, TLAPS

Buffered == {imu_buffer_[i] : i \in 1..Len(imu_buffer_)}

\* The measurements between two instants that have arrived and are not lost.
Between(a, b) == {s \in arrived : a < s /\ s <= b} \ lost

\* The buffer is in order, and nothing in it was handed over.  Later
\* measurements are later than both frames, since each waited for one as late
\* as itself.
BufferInv ==
  /\ \A i, j \in 1..Len(imu_buffer_) : i < j => imu_buffer_[i] < imu_buffer_[j]
  /\ Buffered \subseteq arrived /\ Buffered \cap lost = {}
  /\ lost \subseteq arrived
  /\ last_image_time >= 0 => \E s \in arrived : last_image_time <= s

\* A measurement after the last frame is in the buffer, with the worker, or lost.
HeldInv ==
  \A s \in arrived : s > last_image_time =>
    s \in Buffered \cup lost \cup (IF worker = "track" THEN imu_measurements ELSE {})

\* What the worker holds is all there is between the last frame and its own.
TrackInv ==
  worker = "track" =>
    /\ last_image_time < image /\ \E s \in arrived : image <= s
    /\ imu_measurements = Between(last_image_time, image)
    /\ \A s \in Buffered : image < s

SyncInv == TypeOK /\ BufferInv /\ HeldInv /\ TrackInv /\ FedAll
DataInv == BufferInv /\ HeldInv /\ TrackInv /\ FedAll
-----------------------------------------------------------------------------
LEMMA TimeIsInt == Time \subseteq Int /\ -1 \notin Time
  BY SyncAssumption DEF Time

LEMMA InitSync == Init => SyncInv
<1> SUFFICES ASSUME Init PROVE SyncInv
  OBVIOUS
<1>1. TypeOK
  <2>1. ok \in BOOLEAN /\ running_ \in BOOLEAN /\ missed \in BOOLEAN
    BY DEF Init
  <2>2. image \in Time \cup {-1} /\ last_image_time \in Time \cup {-1}
        /\ images \in 0..MaxImages /\ from \in Time \cup {-1}
    BY SyncAssumption DEF Init
  <2>3. image_buffer_ \in Seq(Time) /\ imu_buffer_ \in Seq(Time)
        /\ imu_measurements \subseteq Time /\ arrived \subseteq Time
        /\ fed \subseteq Time /\ lost \subseteq Time
    BY DEF Init
  <2>4. main = "spin" /\ worker = "loop"
    BY DEF Init
  <2> QED
    BY <2>1, <2>2, <2>3, <2>4 DEF TypeOK
<1>2. /\ imu_buffer_ = <<>> /\ arrived = {} /\ lost = {} /\ fed = {}
      /\ last_image_time = -1 /\ worker = "loop"
  BY DEF Init
<1>3. BufferInv
  BY <1>2 DEF BufferInv, Buffered
<1>4. HeldInv /\ TrackInv /\ FedAll
  BY <1>2 DEF HeldInv, TrackInv, FedAll
<1> QED
  BY <1>1, <1>3, <1>4 DEF SyncInv

-----------------------------------------------------------------------------
LEMMA TypeThreads ==
  ASSUME TypeOK, Next
  PROVE  /\ main' \in {"spin", "notify", "notify_all", "join", "ended"}
         /\ ok' \in BOOLEAN /\ running_' \in BOOLEAN /\ missed' \in BOOLEAN
         /\ worker' \in {"loop", "hold", "waiting", "woken", "track", "ended"}
         /\ main' \in {"notify_all", "join", "ended"} => ~running_'
<1> USE DEF TypeOK
<1>1. CASE Main
  <2>1. CASE NotifyOne \/ Stop \/ Join
    <3>1. worker' \in {worker, "woken"} /\ UNCHANGED <<ok, missed>>
      BY <2>1 DEF NotifyOne, Stop, Join, Wake
    <3>2. \/ main' = "spin" /\ UNCHANGED running_
          \/ main' = "notify_all" /\ running_' = FALSE
          \/ main = "join" /\ main' = "ended" /\ UNCHANGED running_
      BY <2>1 DEF NotifyOne, Stop, Join
    <3>3. running_' \in BOOLEAN /\ ok' \in BOOLEAN /\ missed' \in BOOLEAN
      BY <3>1, <3>2
    <3>4. main' \in {"notify_all", "join", "ended"} => ~running_'
      BY <3>2
    <3> QED
      BY <3>1, <3>2, <3>3, <3>4
  <2>2. CASE NotifyAll
    <3>1. missed' \in BOOLEAN
      BY <2>2 DEF NotifyAll, Locked
    <3>2. /\ main = "notify_all" /\ main' = "join" /\ UNCHANGED <<ok, running_>>
          /\ worker' \in {worker, "woken"}
      BY <2>2 DEF NotifyAll, Wake
    <3> QED
      BY <3>1, <3>2
  <2> QED
    BY <1>1, <2>1, <2>2 DEF Main
<1>2. CASE Worker
  <2>1. /\ UNCHANGED <<main, ok, running_, missed>>
        /\ worker' \in {"loop", "hold", "waiting", "track", "ended"}
    BY <1>2 DEF Worker, EndLoop, Hold, Wait, BreakLoop, Take, ConvertFails, Track
  <2> QED
    BY <2>1
<1>3. CASE Environment
  <2>1. UNCHANGED <<running_, missed>>
    BY <1>3 DEF Environment, ImageCallback, ImuCallback, Interrupt, SpuriousWakeup
  <2>2. ok' \in BOOLEAN
    BY <1>3 DEF Environment, ImageCallback, ImuCallback, Interrupt, SpuriousWakeup
  <2>3. main' = main \/ main' = "notify"
    BY <1>3 DEF Environment, ImageCallback, ImuCallback, Interrupt, SpuriousWakeup
  <2>4. worker' \in {worker, "woken"}
    BY <1>3 DEF Environment, ImageCallback, ImuCallback, Interrupt, SpuriousWakeup
  <2> QED
    BY <2>1, <2>2, <2>3, <2>4
<1> QED
  BY <1>1, <1>2, <1>3 DEF Next

LEMMA TypeData ==
  ASSUME TypeOK, Next
  PROVE  /\ image_buffer_' \in Seq(Time) /\ imu_buffer_' \in Seq(Time)
         /\ image' \in Time \cup {-1} /\ imu_measurements' \subseteq Time
         /\ last_image_time' \in Time \cup {-1}
         /\ images' \in 0..MaxImages /\ arrived' \subseteq Time
         /\ from' \in Time \cup {-1} /\ fed' \subseteq Time /\ lost' \subseteq Time
<1> USE DEF TypeOK, buffers, taken, history
<1>1. CASE Main
  BY <1>1 DEF Main, NotifyOne, Stop, NotifyAll, Join
<1>2. CASE Worker
  <2>1. CASE EndLoop \/ Hold \/ Wait \/ BreakLoop
    BY <2>1 DEF EndLoop, Hold, Wait, BreakLoop
  <2>2. CASE Take
    <3>1. /\ image_buffer_ # <<>> /\ image_buffer_' = Tail(image_buffer_)
          /\ UNCHANGED <<last_image_time, images, arrived, from, fed, lost>>
      BY <2>2 DEF Take, Ready
    <3>2. image_buffer_' \in Seq(Time) /\ Head(image_buffer_) \in Time
      BY <3>1
    <3>3. CASE UNCHANGED <<imu_buffer_, image, imu_measurements>>
      BY <3>1, <3>2, <3>3
    <3>4. ASSUME NEW n \in 0..Len(imu_buffer_),
                 imu_buffer_' = SubSeq(imu_buffer_, n + 1, Len(imu_buffer_)),
                 imu_measurements' =
                   {s \in {imu_buffer_[i] : i \in 1..n} : s > last_image_time},
                 image' = Head(image_buffer_)
          PROVE  /\ imu_buffer_' \in Seq(Time) /\ imu_measurements' \subseteq Time
                 /\ image' \in Time
      <4>1. \A i \in 1..n : imu_buffer_[i] \in Time
        BY <3>4
      <4> QED
        BY <3>2, <3>4, <4>1
    <3> QED
      BY <2>2, <3>1, <3>2, <3>3, <3>4 DEF Take
  <2>3. CASE ConvertFails \/ Track
    BY <2>3 DEF ConvertFails, Track
  <2> QED
    BY <1>2, <2>1, <2>2, <2>3 DEF Worker
<1>3. CASE Environment
  <2>1. ASSUME NEW t \in Time, ImageCallback(t) \/ ImuCallback(t)
        PROVE  /\ image_buffer_' \in Seq(Time) /\ imu_buffer_' \in Seq(Time)
               /\ images' \in 0..MaxImages /\ arrived' \subseteq Time
               /\ UNCHANGED <<taken, last_image_time, history>>
    <3>1. CASE ImageCallback(t)
      <4>1. images' \in 0..MaxImages
        BY <3>1, SyncAssumption DEF ImageCallback
      <4> QED
        BY <3>1, <4>1 DEF ImageCallback
    <3>2. CASE ImuCallback(t)
      BY <3>2 DEF ImuCallback
    <3> QED
      BY <2>1, <3>1, <3>2
  <2>2. CASE Interrupt \/ SpuriousWakeup
    BY <2>2 DEF Interrupt, SpuriousWakeup
  <2> QED
    BY <1>3, <2>1, <2>2 DEF Environment
<1> QED
  BY <1>1, <1>2, <1>3 DEF Next

LEMMA TypeStep == ASSUME TypeOK, Next PROVE TypeOK'
  BY TypeThreads, TypeData DEF TypeOK

-----------------------------------------------------------------------------
\* A step of either thread that moves no measurement.
LEMMA DataFrame ==
  ASSUME DataInv, worker' = "track" <=> worker = "track",
         UNCHANGED <<imu_buffer_, imu_measurements, image, last_image_time, arrived,
                     from, fed, lost>>
  PROVE  DataInv'
<1>1. Buffered' = Buffered
  BY DEF Buffered
<1>2. BufferInv' /\ FedAll'
  BY <1>1 DEF DataInv, BufferInv, FedAll
<1>3. HeldInv'
  BY <1>1 DEF DataInv, HeldInv
<1>4. TrackInv'
  BY <1>1 DEF DataInv, TrackInv, Between
<1> QED
  BY <1>2, <1>3, <1>4 DEF DataInv

\* A measurement that arrives is later than all before it, and so than both
\* frames.
LEMMA DataImu ==
  ASSUME TypeOK, DataInv, NEW t \in Time, ImuCallback(t)
  PROVE  DataInv'
<1> USE TimeIsInt DEF DataInv
<1>1. /\ imu_buffer_' = Append(imu_buffer_, t) /\ arrived' = arrived \cup {t}
      /\ \A s \in arrived : s < t
      /\ UNCHANGED <<worker, imu_measurements, image, last_image_time, from, fed, lost>>
  BY DEF ImuCallback, taken, history
<1>2. /\ imu_buffer_ \in Seq(Time) /\ arrived \subseteq Time /\ lost \subseteq Time
      /\ last_image_time \in Int /\ image \in Int
  BY DEF TypeOK
<1>3. /\ Len(imu_buffer_') = Len(imu_buffer_) + 1 /\ Len(imu_buffer_) \in Nat
      /\ imu_buffer_'[Len(imu_buffer_) + 1] = t
      /\ \A i \in 1..Len(imu_buffer_) : imu_buffer_'[i] = imu_buffer_[i]
  BY <1>1, <1>2
<1>4. Buffered' = Buffered \cup {t}
  BY <1>3 DEF Buffered
<1>5. t \notin arrived /\ t \in Int
  BY <1>1, <1>2
<1>6. lost \subseteq arrived
  BY DEF BufferInv
<1>7. BufferInv'
  <2>1. \A i, j \in 1..Len(imu_buffer_') :
          i < j => imu_buffer_'[i] < imu_buffer_'[j]
    <3>1. \A i \in 1..Len(imu_buffer_) : imu_buffer_[i] \in Buffered
      BY DEF Buffered
    <3>2. \A i \in 1..Len(imu_buffer_) : imu_buffer_[i] < t
      BY <1>1, <3>1 DEF BufferInv
    <3>3. \A i, j \in 1..Len(imu_buffer_') : i < j =>
            /\ i \in 1..Len(imu_buffer_)
            /\ j \in 1..Len(imu_buffer_) \/ j = Len(imu_buffer_) + 1
      BY <1>3
    <3> QED
      BY <1>3, <3>2, <3>3 DEF BufferInv
  <2>2. Buffered' \subseteq arrived' /\ Buffered' \cap lost' = {}
        /\ lost' \subseteq arrived'
    BY <1>1, <1>4, <1>5, <1>6 DEF BufferInv
  <2>3. last_image_time' >= 0 => \E s \in arrived' : last_image_time' <= s
    BY <1>1 DEF BufferInv
  <2> QED
    BY <2>1, <2>2, <2>3 DEF BufferInv
<1>8. HeldInv'
  BY <1>1, <1>4 DEF HeldInv
<1>9. TrackInv'
  <2> SUFFICES ASSUME worker = "track" PROVE TrackInv'
    BY <1>1 DEF TrackInv
  <2>1. image < t
    <3>1. PICK s \in arrived : image <= s
      BY DEF TrackInv
    <3> QED
      BY <1>1, <1>2, <1>5, <3>1
  <2>2. Between(last_image_time, image)' = Between(last_image_time, image)
    BY <1>1, <1>2, <1>5, <2>1 DEF Between
  <2> QED
    BY <1>1, <1>4, <2>1, <2>2 DEF TrackInv
<1>10. FedAll'
  <2>1. ~(t <= last_image_time) \/ last_image_time < 0
    <3>1. CASE last_image_time >= 0
      <4>1. PICK s \in arrived : last_image_time <= s
        BY <3>1 DEF BufferInv
      <4> QED
        BY <1>1, <1>2, <1>5, <4>1
    <3>2. CASE last_image_time < 0
      BY <3>2
    <3> QED
      BY <1>2, <3>1, <3>2
  <2>2. ~(t <= last_image_time)
    BY <1>2, <2>1, SyncAssumption DEF Time
  <2> QED
    BY <1>1, <2>2 DEF FedAll
<1> QED
  BY <1>7, <1>8, <1>9, <1>10

\* The worker takes a frame: what it pops is what is in the buffer up to it, and
\* with that it holds all since the last frame.
LEMMA DataTake == ASSUME TypeOK, DataInv, Take PROVE DataInv'
<1> USE TimeIsInt DEF DataInv
<1>1. /\ worker # "track" /\ Ready
      /\ UNCHANGED <<last_image_time, arrived, from, fed, lost>>
  BY DEF Take, history
<1>2. CASE worker' = "loop" /\ UNCHANGED <<imu_buffer_, taken>>
  BY <1>1, <1>2, DataFrame DEF taken
<1>3. ASSUME NEW n \in 0..Len(imu_buffer_), PopsUpTo(Head(image_buffer_), n),
             ~(last_image_time >= 0 /\ Head(image_buffer_) <= last_image_time),
             imu_buffer_' = SubSeq(imu_buffer_, n + 1, Len(imu_buffer_)),
             imu_measurements' =
               {s \in {imu_buffer_[i] : i \in 1..n} : s > last_image_time},
             image' = Head(image_buffer_), worker' = "track"
      PROVE  DataInv'
  <2> DEFINE t == Head(image_buffer_)
             N == Len(imu_buffer_)
  <2>1. /\ imu_buffer_ \in Seq(Time) /\ arrived \subseteq Time /\ lost \subseteq Time
        /\ last_image_time \in Time \cup {-1} /\ N \in Nat
    BY DEF TypeOK
  <2>2. /\ t \in Time /\ imu_buffer_ # <<>> /\ imu_buffer_[N] >= t
    BY <1>1, <2>1 DEF Ready, Last, TypeOK
  <2> HIDE DEF t
  <2>3. last_image_time < t
    BY <1>3, <2>1, <2>2, SyncAssumption DEF t, Time
  <2>4. /\ Len(imu_buffer_') = N - n
        /\ \A i \in 1..(N - n) : imu_buffer_'[i] = imu_buffer_[n + i]
    BY <1>3, <2>1
  <2>5. \A i \in 1..N : imu_buffer_[i] \in Buffered /\ imu_buffer_[i] \in Int
    <3>1. \A i \in 1..N : imu_buffer_[i] \in Time
      BY <2>1
    <3> QED
      BY <3>1 DEF Buffered
  <2>6. \A i \in (n + 1)..N : imu_buffer_[i] > t
    <3> SUFFICES ASSUME NEW i \in (n + 1)..N PROVE imu_buffer_[i] > t
      OBVIOUS
    <3>1. n + 1 \in 1..N /\ i \in 1..N /\ n < N
      BY <2>1
    <3>2. imu_buffer_[n + 1] > t
      BY <1>3, <3>1 DEF PopsUpTo, t
    <3>3. i = n + 1 \/ imu_buffer_[n + 1] < imu_buffer_[i]
      BY <3>1 DEF BufferInv
    <3> QED
      BY <2>1, <2>2, <2>5, <3>1, <3>2, <3>3
  <2>7. Buffered' = {s \in Buffered : s > t}
    <3>1. \A s \in Buffered' : s \in Buffered /\ s > t
      <4> SUFFICES ASSUME NEW i \in 1..Len(imu_buffer_')
                   PROVE  imu_buffer_'[i] \in Buffered /\ imu_buffer_'[i] > t
        BY DEF Buffered
      <4>1. n + i \in (n + 1)..N /\ n + i \in 1..N /\ i \in 1..(N - n)
        BY <1>3, <2>1, <2>4
      <4> QED
        BY <2>4, <2>5, <2>6, <4>1
    <3>2. \A s \in Buffered : s > t => s \in Buffered'
      <4> SUFFICES ASSUME NEW i \in 1..N, imu_buffer_[i] > t
                   PROVE  \E j \in 1..Len(imu_buffer_') : imu_buffer_'[j] = imu_buffer_[i]
        BY DEF Buffered
      <4>1. ~(i \in 1..n)
        <5>1. i \in 1..n => imu_buffer_[i] <= t
          BY <1>3 DEF PopsUpTo, t
        <5> QED
          BY <2>2, <2>5, <5>1
      <4>2. i - n \in 1..(N - n) /\ n + (i - n) = i
        BY <1>3, <2>1, <4>1
      <4> QED
        BY <2>4, <4>2
    <3> QED
      BY <3>1, <3>2
  <2>8. imu_measurements' = {s \in Buffered : s > last_image_time /\ s <= t}
    <3>1. \A i \in 1..n : i \in 1..N /\ imu_buffer_[i] <= t
      BY <1>3, <2>1 DEF PopsUpTo, t
    <3>2. \A i \in 1..N : imu_buffer_[i] <= t => i \in 1..n
      <4> SUFFICES ASSUME NEW i \in 1..N, ~(i \in 1..n)
                   PROVE  ~(imu_buffer_[i] <= t)
        OBVIOUS
      <4>1. i \in (n + 1)..N
        BY <1>3, <2>1
      <4> QED
        BY <2>2, <2>5, <2>6, <4>1
    <3> QED
      BY <1>3, <3>1, <3>2 DEF Buffered
  <2>9. BufferInv'
    <3>1. \A i, j \in 1..Len(imu_buffer_') : i < j => imu_buffer_'[i] < imu_buffer_'[j]
      <4> SUFFICES ASSUME NEW i \in 1..(N - n), NEW j \in 1..(N - n), i < j
                   PROVE  imu_buffer_[n + i] < imu_buffer_[n + j]
        BY <2>4
      <4>1. n + i \in 1..N /\ n + j \in 1..N /\ n + i < n + j
        BY <1>3, <2>1
      <4> QED
        BY <4>1 DEF BufferInv
    <3>2. Buffered' \subseteq arrived' /\ Buffered' \cap lost' = {}
          /\ lost' \subseteq arrived'
      BY <1>1, <2>7 DEF BufferInv
    <3>3. last_image_time' >= 0 => \E s \in arrived' : last_image_time' <= s
      BY <1>1 DEF BufferInv
    <3> QED
      BY <3>1, <3>2, <3>3 DEF BufferInv
  <2>10. HeldInv'
    <3> SUFFICES ASSUME NEW s \in arrived, s > last_image_time
                 PROVE  s \in Buffered' \cup lost \cup imu_measurements'
      BY <1>1, <1>3 DEF HeldInv
    <3>1. s \in Buffered \cup lost
      BY <1>1 DEF HeldInv
    <3>2. s \in Int
      BY <2>1
    <3> QED
      BY <2>2, <2>7, <2>8, <3>1, <3>2
  <2>11. TrackInv'
    <3>1. \E s \in arrived : t <= s
      BY <2>1, <2>2, <2>5 DEF BufferInv
    <3>2. imu_measurements' = Between(last_image_time, t)
      <4>1. \A s \in imu_measurements' : s \in Between(last_image_time, t)
        BY <2>8 DEF BufferInv, Between
      <4>2. \A s \in Between(last_image_time, t) : s \in imu_measurements'
        BY <1>1, <2>1, <2>8 DEF HeldInv, Between
      <4> QED
        BY <4>1, <4>2
    <3>3. Between(last_image_time, image)' = Between(last_image_time, t)
      BY <1>1, <1>3 DEF Between, t
    <3>4. \A s \in Buffered' : t < s
      BY <2>2, <2>5, <2>7 DEF Buffered
    <3>5. image' = t /\ last_image_time' = last_image_time /\ arrived' = arrived
      BY <1>1, <1>3 DEF t
    <3> QED
      BY <2>3, <3>1, <3>2, <3>3, <3>4, <3>5 DEF TrackInv
  <2>12. FedAll'
    BY <1>1 DEF FedAll
  <2> QED
    BY <2>9, <2>10, <2>11, <2>12
<1> QED
  BY <1>2, <1>3 DEF Take

LEMMA DataConvertFails == ASSUME TypeOK, DataInv, ConvertFails PROVE DataInv'
<1> USE TimeIsInt DEF DataInv
<1>1. /\ worker = "track" /\ worker' = "loop" /\ lost' = lost \cup imu_measurements
      /\ UNCHANGED <<imu_buffer_, last_image_time, arrived, from, fed>>
  BY DEF ConvertFails, buffers
<1>2. Buffered' = Buffered
  BY <1>1 DEF Buffered
<1>3. /\ arrived \subseteq Int /\ last_image_time \in Int /\ image \in Int
  BY DEF TypeOK
<1>4. /\ imu_measurements \subseteq arrived
      /\ \A s \in imu_measurements : last_image_time < s /\ s <= image
  BY <1>1 DEF TrackInv, Between
<1>5. Buffered \cap imu_measurements = {}
  <2> SUFFICES ASSUME NEW s \in Buffered, s \in imu_measurements PROVE FALSE
    OBVIOUS
  <2>1. image < s /\ s \in arrived
    BY <1>1 DEF TrackInv, BufferInv
  <2>2. s <= image /\ s \in Int
    BY <1>3, <1>4, <2>1
  <2> QED
    BY <1>3, <2>1, <2>2
<1>6. BufferInv'
  BY <1>1, <1>2, <1>4, <1>5 DEF BufferInv
<1>7. HeldInv'
  BY <1>1, <1>2 DEF HeldInv
<1>8. TrackInv'
  BY <1>1 DEF TrackInv
<1>9. FedAll'
  <2>1. \A s \in imu_measurements : ~(s <= last_image_time)
    BY <1>3, <1>4
  <2> QED
    BY <1>1, <2>1 DEF FedAll
<1> QED
  BY <1>6, <1>7, <1>8, <1>9

\* The frame is tracked with what the worker holds.
LEMMA DataTrack == ASSUME TypeOK, DataInv, Track PROVE DataInv'
<1> USE TimeIsInt DEF DataInv
<1>1. /\ worker = "track" /\ worker' = "loop" /\ last_image_time' = image
      /\ from' = last_image_time /\ fed' = imu_measurements
      /\ UNCHANGED <<imu_buffer_, arrived, lost>>
  BY DEF Track, buffers
<1>2. Buffered' = Buffered
  BY <1>1 DEF Buffered
<1>3. /\ arrived \subseteq Int /\ last_image_time \in Int /\ image \in Int
  BY DEF TypeOK
<1>4. /\ last_image_time < image /\ \E s \in arrived : image <= s
      /\ imu_measurements = Between(last_image_time, image)
  BY <1>1 DEF TrackInv
<1>5. BufferInv'
  BY <1>1, <1>2, <1>4 DEF BufferInv
<1>6. HeldInv'
  <2> SUFFICES ASSUME NEW s \in arrived, s > image
               PROVE  s \in Buffered \cup lost
    BY <1>1, <1>2 DEF HeldInv
  <2>1. s > last_image_time /\ s \notin imu_measurements
    BY <1>3, <1>4 DEF Between
  <2> QED
    BY <1>1, <2>1 DEF HeldInv
<1>7. TrackInv'
  BY <1>1 DEF TrackInv
<1>8. FedAll'
  BY <1>1, <1>4 DEF FedAll, Between
<1> QED
  BY <1>5, <1>6, <1>7, <1>8

LEMMA NextData == ASSUME TypeOK, DataInv, Next PROVE DataInv'
<1>1. CASE Main
  <2>1. worker' = "track" <=> worker = "track"
    BY <1>1 DEF Main, NotifyOne, Stop, NotifyAll, Join, Wake
  <2>2. UNCHANGED <<imu_buffer_, imu_measurements, image, last_image_time, arrived,
                    from, fed, lost>>
    BY <1>1 DEF Main, NotifyOne, Stop, NotifyAll, Join, buffers, taken, history
  <2> QED
    BY <2>1, <2>2, DataFrame
<1>2. CASE Worker
  <2>1. CASE EndLoop \/ Hold \/ Wait \/ BreakLoop
    <3>1. worker' # "track" /\ worker # "track"
      BY <2>1 DEF EndLoop, Hold, Wait, BreakLoop
    <3>2. UNCHANGED <<imu_buffer_, imu_measurements, image, last_image_time, arrived,
                      from, fed, lost>>
      BY <2>1 DEF EndLoop, Hold, Wait, BreakLoop, buffers, taken, history
    <3> QED
      BY <3>1, <3>2, DataFrame
  <2> QED
    BY <1>2, <2>1, DataTake, DataConvertFails, DataTrack DEF Worker
<1>3. CASE Environment
  <2>1. ASSUME NEW t \in Time, ImageCallback(t) PROVE DataInv'
    BY <2>1, DataFrame DEF ImageCallback, taken, history
  <2>2. ASSUME NEW t \in Time, ImuCallback(t) PROVE DataInv'
    BY <2>2, DataImu
  <2>3. CASE Interrupt
    BY <2>3, DataFrame DEF Interrupt, buffers, taken, history
  <2>4. CASE SpuriousWakeup
    BY <2>4, DataFrame DEF SpuriousWakeup, buffers, taken, history
  <2> QED
    BY <1>3, <2>1, <2>2, <2>3, <2>4 DEF Environment
<1> QED
  BY <1>1, <1>2, <1>3 DEF Next

LEMMA NextSync == SyncInv /\ [Next]_vars => SyncInv'
<1> SUFFICES ASSUME SyncInv, [Next]_vars PROVE SyncInv'
  OBVIOUS
<1>1. TypeOK /\ DataInv
  BY DEF SyncInv, DataInv
<1>2. CASE Next
  BY <1>1, <1>2, TypeStep, NextData DEF SyncInv, DataInv
<1>3. CASE UNCHANGED vars
  <2>1. TypeOK'
    BY <1>1, <1>3 DEF vars, TypeOK, buffers, taken, history
  <2>2. DataInv'
    BY <1>1, <1>3, DataFrame DEF vars, buffers, taken, history
  <2> QED
    BY <2>1, <2>2 DEF SyncInv, DataInv
<1> QED
  BY <1>2, <1>3

LEMMA SyncInvariance == Spec => []SyncInv
  BY InitSync, NextSync, PTL DEF Spec

\* The variables keep their types, and the main thread is in the destructor
\* only with running_ cleared.
THEOREM TypeCorrect == Spec => []TypeOK
<1>1. SyncInv => TypeOK
  BY DEF SyncInv
<1> QED
  BY <1>1, SyncInvariance, PTL

\* Every frame is tracked with all the measurements since the frame before it,
\* save those that went with a frame that was not converted.
THEOREM FedAllAlways == Spec => []FedAll
<1>1. SyncInv => FedAll
  BY DEF SyncInv
<1> QED
  BY <1>1, SyncInvariance, PTL
==============================================================================
