----------------------------- MODULE PosePriors -----------------------------
(***************************************************************************)
(* From a recorded drive to the position priors of a COLMAP database.      *)
(* export_poses looks up the transform of each image of a capture and      *)
(* writes poses.csv row by row, then its report; import_pose_priors reads  *)
(* that file, writes the priors into a copy of the feature database,       *)
(* verifies the copy, links it under its final name and writes a report.   *)
(* Each is a process that may end at any point, an import may be started   *)
(* while the export still writes, and two imports may have one output.     *)
(*                                                                         *)
(* A transform of the path from the world to the source frame is recorded  *)
(* at a time once, twice with different values, or not at all.  A pose is  *)
(* its status: a row that is "ok" has the position of its time.            *)
(***************************************************************************)
EXTENDS Integers, FiniteSets, Sequences

CONSTANTS
  Images,     \* image i of the capture is the i-th of timestamps.csv
  Stamp,      \* Stamp == n: image i has the time i + n
  Children,   \* the frames of the path; one never recorded is static
  Times,      \* the times transforms are recorded at
  MaxGap,     \* max_tf_gap_sec
  Importers,  \* runs of import_pose_priors with one output
  None        \* no file

ASSUME PoseAssumption ==
  /\ Images = 1..Cardinality(Images) /\ Images # {}
  /\ Times \subseteq Nat /\ IsFiniteSet(Times)
  /\ Stamp \in Nat /\ MaxGap \in Nat

ASSUME NoFileAssumption ==
  None \notin [by : Importers, priors : SUBSET Images] /\ None \notin Int

VARIABLES
  tf,          \* what the bag has of each child at each time
  skip_missing, images, ambiguous, \* the option and the database of the imports:
                                   \* its images, those that have two priors
  export,      \* how far export_poses has come
  poses,       \* poses.csv: the status of each row on disk
  posesReport, \* poses_report.json
  import,      \* how far each importer has come
  rows,        \* what it read of poses.csv
  written,     \* the priors in its working copy
  output,      \* the output database: whose it is, its priors
  report       \* the report beside it

inputs == <<tf, skip_missing, images, ambiguous>>
exportVars == <<export, poses, posesReport>>
vars == <<inputs, exportVars, import, rows, written, output, report>>
-----------------------------------------------------------------------------
(***************************************************************************)
(* The status of a row.                                                    *)
(***************************************************************************)
Time(image) == image + Stamp
Recorded(child) == {t \in Times : tf[child][t] # "no"}
Conflicting(child) == {t \in Times : tf[child][t] = "twice"}

sorted(S) == CHOOSE s \in [1..Cardinality(S) -> S] :
               \A i, j \in 1..Cardinality(S) : i < j => s[i] < s[j]

\* Where bisect_left finds a time in sorted stamps, counted from 0.
bisect_left(stamps, stamp) == Cardinality({i \in DOMAIN stamps : stamps[i] < stamp})

\* Mutant: only the earlier end of the bracket is looked at for a conflict.
ChildGapOneEnd(child, stamp) ==
  LET stamps == sorted(Recorded(child))
      index == bisect_left(stamps, stamp)
      below == stamps[index]
      above == stamps[index + 1]
  IN IF index < Len(stamps) /\ above = stamp
     THEN IF stamp \in Conflicting(child) THEN None ELSE 0
     ELSE IF index = 0 \/ index = Len(stamps) \/ below \in Conflicting(child)
          THEN None
          ELSE above - below

\* interpolation_gap of one child; None where the code raises.
ChildGap(child, stamp) ==
  LET stamps == sorted(Recorded(child))
      index == bisect_left(stamps, stamp)
      below == stamps[index]
      above == stamps[index + 1]
  IN IF index < Len(stamps) /\ above = stamp
     THEN IF stamp \in Conflicting(child) THEN None ELSE 0
     ELSE IF \/ index = 0 \/ index = Len(stamps)
             \/ {below, above} \cap Conflicting(child) # {}
          THEN None
          ELSE above - below

Status(image) ==
  LET gaps == {ChildGap(c, Time(image)) : c \in {c \in Children : Recorded(c) # {}}}
  IN IF None \in gaps THEN "tf_unavailable"
     ELSE IF \E g \in gaps : g > MaxGap THEN "gap_too_large" ELSE "ok"

Ok(statuses) == {i \in DOMAIN statuses : statuses[i] = "ok"}
-----------------------------------------------------------------------------
Init ==
  /\ tf \in [Children -> [Times -> {"no", "once", "twice"}]]
  /\ skip_missing \in BOOLEAN
  /\ images \in SUBSET Images \ {{}} /\ ambiguous \in SUBSET images
  /\ export = "rows" /\ poses = None /\ posesReport = None
  /\ import = [i \in Importers |-> "load"]
  /\ rows = [i \in Importers |-> <<>>]
  /\ written = [i \in Importers |-> {}]
  /\ output = None /\ report = None

(***************************************************************************)
(* export_poses                                                            *)
(***************************************************************************)
CreateCsv ==
  /\ export = "rows" /\ poses = None
  /\ poses' = <<>>
  /\ UNCHANGED <<inputs, export, posesReport, import, rows, written, output, report>>

WriteRow ==
  /\ export = "rows" /\ poses # None
  /\ Len(poses) < Cardinality(Images)
  /\ poses' = Append(poses, Status(Len(poses) + 1))
  /\ UNCHANGED <<inputs, export, posesReport, import, rows, written, output, report>>

WriteReport ==
  /\ export = "rows" /\ poses # None
  /\ Len(poses) = Cardinality(Images)
  /\ posesReport' = [images |-> Cardinality(Images), valid |-> Cardinality(Ok(poses))]
  /\ export' = "done"
  /\ UNCHANGED <<inputs, poses, import, rows, written, output, report>>

ExportEnds ==
  /\ export = "rows"
  /\ export' = "crashed"
  /\ UNCHANGED <<inputs, poses, posesReport, import, rows, written, output, report>>
-----------------------------------------------------------------------------
(***************************************************************************)
(* import_pose_priors                                                      *)
(***************************************************************************)
Chosen(csv) == Ok(csv) \cap images
Selected(i) == Chosen(rows[i])
Skipped(i) == DOMAIN rows[i] \ Selected(i)

Goto(i, step) == import' = [import EXCEPT ![i] = step]
At(i, step) == import[i] = step

\* The rows that are on disk are read and selected; no report is looked at.
Load(i) ==
  /\ At(i, "load") /\ poses # None
  /\ rows' = [rows EXCEPT ![i] = poses]
  /\ Goto(i, IF Chosen(poses) = {} \/ (~skip_missing /\ Chosen(poses) # DOMAIN poses)
             THEN "failed" ELSE "check")
  /\ UNCHANGED <<inputs, exportVars, written, output, report>>

CheckNew(i) ==
  /\ At(i, "check")
  /\ Goto(i, IF output # None \/ report # None THEN "failed" ELSE "copy")
  /\ UNCHANGED <<inputs, exportVars, rows, written, output, report>>

\* The database is copied and looked at for ambiguous priors before any write.
Copy(i) ==
  /\ At(i, "copy")
  /\ Goto(i, IF Selected(i) \cap ambiguous # {} THEN "failed" ELSE "write")
  /\ UNCHANGED <<inputs, exportVars, rows, written, output, report>>

WritePrior(i) ==
  /\ At(i, "write")
  /\ \E image \in Selected(i) \ written[i] :
       written' = [written EXCEPT ![i] = @ \cup {image}]
  /\ UNCHANGED <<inputs, exportVars, import, rows, output, report>>

\* verify_selected, once the transaction has been committed.
Verify(i) ==
  /\ At(i, "write") /\ Selected(i) \subseteq written[i]
  /\ Goto(i, "link")
  /\ UNCHANGED <<inputs, exportVars, rows, written, output, report>>

\* Mutant: the copy is moved, not linked, to its name.
LinkReplaces(i) ==
  /\ At(i, "link")
  /\ Goto(i, "report") /\ output' = [by |-> i, priors |-> written[i]]
  /\ UNCHANGED <<inputs, exportVars, rows, written, report>>

\* os.link fails when the name is taken.
Link(i) ==
  /\ At(i, "link")
  /\ IF output = None
     THEN Goto(i, "report") /\ output' = [by |-> i, priors |-> written[i]]
     ELSE Goto(i, "failed") /\ UNCHANGED output
  /\ UNCHANGED <<inputs, exportVars, rows, written, report>>

\* Mutant: the rows with a pose are counted, not those that have an image in the
\* database.
ReportCountsRows(i) ==
  /\ At(i, "report")
  /\ report' = [by |-> i, verified |-> Cardinality(Ok(rows[i])),
                skipped |-> DOMAIN rows[i] \ Ok(rows[i])]
  /\ Goto(i, "done")
  /\ UNCHANGED <<inputs, exportVars, rows, written, output>>

Report(i) ==
  /\ At(i, "report")
  /\ report' = [by |-> i, verified |-> Cardinality(Selected(i)), skipped |-> Skipped(i)]
  /\ Goto(i, "done")
  /\ UNCHANGED <<inputs, exportVars, rows, written, output>>

\* The process ends; its temporary directory may stay, its name is its own.
ImportEnds(i) ==
  /\ import[i] \notin {"done", "failed", "crashed"}
  /\ Goto(i, "crashed")
  /\ UNCHANGED <<inputs, exportVars, rows, written, output, report>>

Import(i) ==
  Load(i) \/ CheckNew(i) \/ Copy(i) \/ WritePrior(i) \/ Verify(i) \/ Link(i) \/ Report(i)

Next ==
  \/ CreateCsv \/ WriteRow \/ WriteReport \/ ExportEnds
  \/ \E i \in Importers : Import(i) \/ ImportEnds(i)

Spec == Init /\ [][Next]_vars
-----------------------------------------------------------------------------
\* A row has a pose exactly when every recorded frame of the path has a transform
\* at the image's time, or has its nearest ones before and after it no further
\* apart than the limit, none of them recorded twice with different values
\* (interpolation_gap: bisection, exact stamps, the ends of the recording).
Bracketed(child, t) ==
  LET before == {s \in Recorded(child) : s <= t}
      after == {s \in Recorded(child) : s >= t}
  IN \E b \in before, a \in after :
       /\ \A s \in before : s <= b
       /\ \A s \in after : a <= s
       /\ a - b <= MaxGap
       /\ {a, b} \cap Conflicting(child) = {}

RowsAreBracketed ==
  poses # None =>
    \A i \in DOMAIN poses :
      poses[i] = "ok" <=> \A c \in Children : Recorded(c) = {} \/ Bracketed(c, Time(i))

\* What the name of the output shows is one importer's verified priors, all of its
\* selection, and a report beside it is of that same importer, whatever the
\* processes that share the name do and wherever they end (os.link at 168 after
\* the check at 110).
OutputIsOneImport ==
  /\ output # None => output.priors = Selected(output.by)
  /\ report # None => output # None /\ report.by = output.by

\* docs/POSE_PRIORS.md:215: valid = images in the report on the poses, verified =
\* valid and nothing skipped in the report on the database.  Then every image has
\* its prior in the output, also when an import was started before the export had
\* ended.
Success ==
  /\ posesReport # None /\ posesReport.valid = posesReport.images
  /\ report # None /\ report.verified = posesReport.valid /\ report.skipped = {}

SuccessIsWhole == Success => output.priors = Images
=============================================================================
