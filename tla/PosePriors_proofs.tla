-------------------------- MODULE PosePriors_proofs --------------------------
(***************************************************************************)
(* What the output of the imports and a complete success are worth, for    *)
(* any number of images, any recording and any number of importers that    *)
(* share the name of the output.                                           *)
(***************************************************************************)
EXTENDS PosePriors, FiniteSetTheorems, TLAPS

Rows == Seq({"ok", "gap_too_large", "tf_unavailable"})
Early == {"load", "check", "copy"}
Unlinked == Early \cup {"write", "link"}

TypeInv ==
  /\ images \subseteq Images
  /\ poses # None => poses \in Rows
  /\ rows \in [Importers -> Rows]
  /\ import \in [Importers -> Unlinked \cup {"report", "done", "failed", "crashed"}]
  /\ written \in [Importers -> SUBSET Images]
  /\ posesReport # None => posesReport.images = Cardinality(Images)

\* The working copy grows up to the selection, which nobody changes after the
\* load, and is complete before it is linked.
CopyInv ==
  \A i \in Importers :
    /\ import[i] \in Early => written[i] = {}
    /\ written[i] \subseteq Selected(i)
    /\ import[i] \in {"link", "report"} => written[i] = Selected(i)

\* The output is of an importer that is past the link.
OutputInv ==
  output # None =>
    /\ output.by \in Importers
    /\ import[output.by] \notin Unlinked
    /\ output.priors = Selected(output.by)

\* An importer that is about to report is the one that linked, and a report is
\* still true of what its importer has read.
ReportInv ==
  /\ \A i \in Importers :
       import[i] = "report" => output # None /\ output.by = i
  /\ report # None =>
       /\ output # None /\ report.by = output.by
       /\ report.verified = Cardinality(Selected(report.by))
       /\ report.skipped = Skipped(report.by)

IInv == TypeInv /\ CopyInv /\ OutputInv /\ ReportInv

LEMMA StatusType == \A image : Status(image) \in {"ok", "gap_too_large", "tf_unavailable"}
BY DEF Status

LEMMA InitCorrect == Init => IInv
BY DEF Init, IInv, TypeInv, CopyInv, OutputInv, ReportInv, Rows, Unlinked, Early,
       Selected, Chosen, Ok

\* The export touches neither the importers nor what they have read.
LEMMA ExportKeeps ==
  ASSUME IInv, CreateCsv \/ WriteRow \/ WriteReport \/ ExportEnds
  PROVE  IInv'
<1>1. UNCHANGED <<images, import, rows, written, output, report>>
  BY DEF CreateCsv, WriteRow, WriteReport, ExportEnds, inputs
<1>2. TypeInv'
  <2>1. poses' # None => poses' \in Rows
    <3>1. CASE CreateCsv  BY <3>1 DEF CreateCsv, Rows
    <3>2. CASE WriteRow
      <4>1. poses \in Rows /\ poses' = Append(poses, Status(Len(poses) + 1))
        BY <3>2 DEF WriteRow, IInv, TypeInv
      <4>2. Status(Len(poses) + 1) \in {"ok", "gap_too_large", "tf_unavailable"}
        BY StatusType
      <4>3. QED  BY <4>1, <4>2 DEF Rows
    <3>3. CASE WriteReport \/ ExportEnds
      BY <3>3 DEF IInv, TypeInv, WriteReport, ExportEnds
    <3>4. QED  BY <3>1, <3>2, <3>3
  <2>2. posesReport' # None => posesReport'.images = Cardinality(Images)
    BY DEF IInv, TypeInv, CreateCsv, WriteRow, WriteReport, ExportEnds
  <2>3. QED  BY <1>1, <2>1, <2>2 DEF IInv, TypeInv
<1>3. CopyInv' /\ OutputInv' /\ ReportInv'
  BY <1>1 DEF IInv, CopyInv, OutputInv, ReportInv, Selected, Skipped, Chosen, Ok
<1>4. QED  BY <1>2, <1>3 DEF IInv

\* A step that only moves one importer on, to where nothing new is claimed.
LEMMA MoveKeeps ==
  ASSUME IInv, NEW i \in Importers, NEW step,
         UNCHANGED <<inputs, exportVars, rows, written, output, report>>,
         import' = [import EXCEPT ![i] = step],
         \/ step \in {"failed", "crashed"}
         \/ import[i] \in Early /\ step \in Early \cup {"write"}
              /\ import[i] \in Unlinked
         \/ import[i] = "write" /\ step = "link" /\ Selected(i) \subseteq written[i]
  PROVE  IInv'
<1>1. TypeInv'
  BY DEF IInv, TypeInv, inputs, exportVars, Unlinked, Early
<1>2. CopyInv'
  BY DEF IInv, TypeInv, CopyInv, inputs, Selected, Chosen, Ok, Unlinked, Early
<1>3. OutputInv'
  BY DEF IInv, TypeInv, OutputInv, inputs, Selected, Chosen, Ok, Unlinked, Early
<1>4. ReportInv'
  BY DEF IInv, TypeInv, ReportInv, inputs, Selected, Skipped, Chosen, Ok, Unlinked, Early
<1>5. QED  BY <1>1, <1>2, <1>3, <1>4 DEF IInv

LEMMA LoadKeeps == ASSUME IInv, NEW i \in Importers, Load(i) PROVE IInv'
<1>1. rows' = [rows EXCEPT ![i] = poses] /\ poses \in Rows /\ import[i] = "load"
  BY DEF Load, At, IInv, TypeInv
<1>2. PICK step \in {"failed", "check"} : import' = [import EXCEPT ![i] = step]
  BY DEF Load, Goto
<1>3. UNCHANGED <<inputs, exportVars, written, output, report>>  BY DEF Load
<1>4. TypeInv'
  BY <1>1, <1>2, <1>3 DEF IInv, TypeInv, inputs, exportVars, Unlinked, Early
<1>5. \A j \in Importers \ {i} : Selected(j)' = Selected(j) /\ Skipped(j)' = Skipped(j)
  BY <1>1, <1>3 DEF IInv, TypeInv, inputs, Selected, Skipped, Chosen, Ok
<1>6. CopyInv'
  BY <1>1, <1>2, <1>3, <1>5 DEF IInv, TypeInv, CopyInv, Early
<1>7. OutputInv'
  BY <1>1, <1>2, <1>3, <1>5 DEF IInv, TypeInv, OutputInv, Unlinked, Early
<1>8. ReportInv'
  BY <1>1, <1>2, <1>3, <1>5 DEF IInv, TypeInv, OutputInv, ReportInv, Unlinked, Early
<1>9. QED  BY <1>4, <1>6, <1>7, <1>8 DEF IInv

LEMMA WriteKeeps == ASSUME IInv, NEW i \in Importers, WritePrior(i) PROVE IInv'
<1>1. PICK image \in Selected(i) : written' = [written EXCEPT ![i] = @ \cup {image}]
  BY DEF WritePrior
<1>2. import[i] = "write" /\ UNCHANGED <<inputs, exportVars, import, rows, output, report>>
  BY DEF WritePrior, At
<1>3. image \in Images
  BY <1>1 DEF Selected, Chosen, IInv, TypeInv
<1>4. TypeInv'
  BY <1>1, <1>2, <1>3 DEF IInv, TypeInv, inputs, exportVars
<1>5. CopyInv'
  BY <1>1, <1>2 DEF IInv, TypeInv, CopyInv, inputs, Selected, Chosen, Ok, Early
<1>6. OutputInv' /\ ReportInv'
  BY <1>2 DEF IInv, OutputInv, ReportInv, inputs, Selected, Skipped, Chosen, Ok
<1>7. QED  BY <1>4, <1>5, <1>6 DEF IInv

\* The link succeeds only for a name that is free.
LEMMA LinkKeeps ==
  ASSUME IInv, NEW i \in Importers, Link(i), output = None
  PROVE  IInv'
<1>1. /\ import[i] = "link" /\ import' = [import EXCEPT ![i] = "report"]
      /\ output' = [by |-> i, priors |-> written[i]]
      /\ UNCHANGED <<inputs, exportVars, rows, written, report>>
  BY DEF Link, At, Goto
<1>2. \A j \in Importers : Selected(j)' = Selected(j) /\ Skipped(j)' = Skipped(j)
  BY <1>1 DEF inputs, Selected, Skipped, Chosen, Ok
<1>3. output' # None
  BY <1>1, NoFileAssumption DEF IInv, TypeInv
<1>4. TypeInv'
  BY <1>1 DEF IInv, TypeInv, inputs, exportVars, Unlinked, Early
<1>5. CopyInv'
  BY <1>1, <1>2 DEF IInv, TypeInv, CopyInv, Early
<1>6. OutputInv'
  BY <1>1, <1>2 DEF IInv, TypeInv, CopyInv, OutputInv, Unlinked, Early
<1>7. ReportInv'
  BY <1>1, <1>2, <1>3 DEF IInv, TypeInv, ReportInv
<1>8. QED  BY <1>4, <1>5, <1>6, <1>7 DEF IInv

LEMMA ReportKeeps == ASSUME IInv, NEW i \in Importers, Report(i) PROVE IInv'
<1>1. /\ import[i] = "report" /\ import' = [import EXCEPT ![i] = "done"]
      /\ report' = [by |-> i, verified |-> Cardinality(Selected(i)), skipped |-> Skipped(i)]
      /\ UNCHANGED <<inputs, exportVars, rows, written, output>>
  BY DEF Report, At, Goto
<1>2. \A j \in Importers : Selected(j)' = Selected(j) /\ Skipped(j)' = Skipped(j)
  BY <1>1 DEF inputs, Selected, Skipped, Chosen, Ok
<1>3. TypeInv'
  BY <1>1 DEF IInv, TypeInv, inputs, exportVars, Unlinked, Early
<1>4. CopyInv'
  BY <1>1, <1>2 DEF IInv, TypeInv, CopyInv, Early
<1>5. OutputInv'
  BY <1>1, <1>2 DEF IInv, TypeInv, OutputInv, Unlinked, Early
<1>6. ReportInv'
  BY <1>1, <1>2 DEF IInv, TypeInv, ReportInv
<1>7. QED  BY <1>3, <1>4, <1>5, <1>6 DEF IInv

LEMMA NextCorrect == ASSUME IInv, [Next]_vars PROVE IInv'
<1>1. CASE CreateCsv \/ WriteRow \/ WriteReport \/ ExportEnds
  BY <1>1, ExportKeeps
<1>2. ASSUME NEW i \in Importers, Import(i) \/ ImportEnds(i)
      PROVE  IInv'
  <2>1. CASE Load(i)  BY <2>1, LoadKeeps
  <2>2. CASE CheckNew(i)
    <3>1. PICK step \in {"failed", "copy"} : import' = [import EXCEPT ![i] = step]
      BY <2>2 DEF CheckNew, Goto
    <3>2. QED  BY <2>2, <3>1, MoveKeeps DEF CheckNew, At, Early, Unlinked
  <2>3. CASE Copy(i)
    <3>1. PICK step \in {"failed", "write"} : import' = [import EXCEPT ![i] = step]
      BY <2>3 DEF Copy, Goto
    <3>2. QED  BY <2>3, <3>1, MoveKeeps DEF Copy, At, Early, Unlinked
  <2>4. CASE WritePrior(i)  BY <2>4, WriteKeeps
  <2>5. CASE Verify(i)  BY <2>5, MoveKeeps DEF Verify, At, Goto
  <2>6. CASE Link(i)
    <3>1. CASE output = None  BY <2>6, <3>1, LinkKeeps
    <3>2. CASE output # None  BY <2>6, <3>2, MoveKeeps DEF Link, Goto
    <3>3. QED  BY <3>1, <3>2
  <2>7. CASE Report(i)  BY <2>7, ReportKeeps
  <2>8. CASE ImportEnds(i)  BY <2>8, MoveKeeps DEF ImportEnds, Goto
  <2>9. QED  BY <1>2, <2>1, <2>2, <2>3, <2>4, <2>5, <2>6, <2>7, <2>8 DEF Import
<1>3. CASE UNCHANGED vars
  <2>1. TypeInv'  BY <1>3 DEF vars, inputs, exportVars, IInv, TypeInv
  <2>2. CopyInv' /\ OutputInv' /\ ReportInv'
    BY <1>3 DEF vars, inputs, IInv, CopyInv, OutputInv, ReportInv, Selected, Skipped,
                Chosen, Ok
  <2>3. QED  BY <2>1, <2>2 DEF IInv
<1>4. QED  BY <1>1, <1>2, <1>3 DEF Next

LEMMA InvCorrect == Spec => []IInv
BY InitCorrect, NextCorrect, PTL DEF Spec

\* The name of the output shows one importer's verified priors, all of its
\* selection, and the report beside it is of that importer (import_priors: the
\* exclusive link at 168).
THEOREM OutputCorrect == Spec => []OutputIsOneImport
<1>1. IInv => OutputIsOneImport
  BY DEF IInv, OutputInv, ReportInv, OutputIsOneImport
<1>2. QED  BY <1>1, InvCorrect, PTL

\* What the document calls a complete success covers every image, whenever the
\* importer was started (docs/POSE_PRIORS.md:215).
THEOREM SuccessCorrect == Spec => []SuccessIsWhole
<1>1. ASSUME IInv, Success PROVE output.priors = Images
  <2> DEFINE i == report.by
  <2>1. /\ i \in Importers /\ output.priors = Selected(i)
        /\ Skipped(i) = {} /\ Cardinality(Selected(i)) = Cardinality(Images)
    BY <1>1 DEF Success, IInv, TypeInv, OutputInv, ReportInv
  <2>2. rows[i] \in Rows /\ DOMAIN rows[i] = 1..Len(rows[i]) /\ Len(rows[i]) \in Nat
    BY <1>1, <2>1 DEF IInv, TypeInv, Rows
  <2>3. Selected(i) = 1..Len(rows[i])
    BY <2>1, <2>2 DEF Selected, Skipped, Chosen, Ok
  <2>4. Cardinality(1..Len(rows[i])) = Len(rows[i])
    <3> DEFINE n == Len(rows[i])
    <3>1. n \in Nat  BY <2>2
    <3>2. Cardinality(1..n) = IF 1 > n THEN 0 ELSE n - 1 + 1
      <4> HIDE DEF n
      <4> QED  BY <3>1, FS_Interval
    <3>3. QED  BY <3>1, <3>2
  <2>5. Len(rows[i]) = Cardinality(Images)  BY <2>1, <2>3, <2>4
  <2>6. QED  BY <2>1, <2>3, <2>5, PoseAssumption
<1>2. IInv => SuccessIsWhole  BY <1>1 DEF SuccessIsWhole
<1>3. QED  BY <1>2, InvCorrect, PTL

-----------------------------------------------------------------------------
(***************************************************************************)
(* The rows of poses.csv.                                                  *)
(***************************************************************************)

\* How many elements of a set of numbers are no larger than x.
Rank(S, x) == Cardinality({y \in S : y <= x})

LEMMA RankGrows ==
  ASSUME NEW S \in SUBSET Int, IsFiniteSet(S), NEW x \in S, NEW y \in S, x < y
  PROVE  Rank(S, x) < Rank(S, y)
<1> DEFINE A == {z \in S : z <= x}
           B == {z \in S : z <= y}
<1>1. A \in SUBSET B /\ B \in SUBSET S
  <2>1. \A z \in S : z <= x => z <= y
    <3>1. \A z \in S : z \in Int
      OBVIOUS
    <3> QED
      BY <3>1
  <2> QED
    BY <2>1
<1>2. y \in B /\ y \notin A
  <2>1. x \in Int /\ y \in Int
    OBVIOUS
  <2>2. y <= y /\ ~(y <= x)
    BY <2>1
  <2> QED
    BY <2>2
<1>3. IsFiniteSet(B)
  BY <1>1, FS_Subset
<1>4. IsFiniteSet(A) /\ Cardinality(A) <= Cardinality(B)
      /\ (Cardinality(B) = Cardinality(A) => B = A)
  BY <1>1, <1>3, FS_Subset
<1>5. Cardinality(A) \in Nat /\ Cardinality(B) \in Nat
  BY <1>3, <1>4, FS_CardinalityType
<1> QED
  BY <1>2, <1>4, <1>5 DEF Rank

\* A finite set of numbers can be put in order: its elements have the ranks 1 up
\* to its size.
LEMMA OrderExists ==
  ASSUME NEW S \in SUBSET Int, IsFiniteSet(S)
  PROVE  \E s \in [1..Cardinality(S) -> S] :
           \A i, j \in 1..Cardinality(S) : i < j => s[i] < s[j]
<1> DEFINE n == Cardinality(S)
           r == [x \in S |-> Rank(S, x)]
<1>1. n \in Nat
  BY FS_CardinalityType
<1>2. \A x \in S : Rank(S, x) \in 1..n
  <2> SUFFICES ASSUME NEW x \in S PROVE Rank(S, x) \in 1..n
    OBVIOUS
  <2> DEFINE A == {z \in S : z <= x}
  <2>1. A \in SUBSET S /\ x \in A
    OBVIOUS
  <2>2. IsFiniteSet(A) /\ Cardinality(A) <= n
    BY <2>1, FS_Subset
  <2>3. Cardinality(A) \in Nat /\ Cardinality(A) # 0
    BY <2>1, <2>2, FS_CardinalityType, FS_EmptySet
  <2> QED
    BY <1>1, <2>2, <2>3 DEF Rank
<1>3. r \in Injection(S, 1..n)
  <2>1. r \in [S -> 1..n]
    BY <1>2
  <2>2. ASSUME NEW x \in S, NEW y \in S, Rank(S, x) = Rank(S, y) PROVE x = y
    <3>1. ~(x < y) /\ ~(y < x)
      <4>1. Rank(S, x) \in Int
        BY <1>1, <1>2
      <4> QED
        BY <2>2, <4>1, RankGrows
    <3> QED
      BY <3>1
  <2> QED
    BY <2>1, <2>2 DEF Injection, IsInjective
<1>4. r \in Surjection(S, 1..n)
  <2>1. IsFiniteSet(1..n) /\ Cardinality(1..n) = n
    <3> HIDE DEF n
    <3> QED
      BY <1>1, FS_Interval
  <2> QED
    BY <1>3, <2>1, FS_Injection
<1>5. \A i \in 1..n : \E x \in S : Rank(S, x) = i
  BY <1>4 DEF Surjection
<1> DEFINE s == [i \in 1..n |-> CHOOSE x \in S : Rank(S, x) = i]
<1>6. \A i \in 1..n : s[i] \in S /\ Rank(S, s[i]) = i
  BY <1>5
<1>7. s \in [1..n -> S]
  BY <1>6
<1>8. ASSUME NEW i \in 1..n, NEW j \in 1..n, i < j PROVE s[i] < s[j]
  <2>1. /\ s[i] \in S /\ s[j] \in S
        /\ Rank(S, s[i]) = i /\ Rank(S, s[j]) = j
    BY <1>6
  <2> HIDE DEF s
  <2>2. s[i] # s[j]
    BY <1>1, <1>8, <2>1
  <2>3. ~(s[j] < s[i])
    <3>1. s[j] < s[i] => j < i
      BY <2>1, RankGrows
    <3> QED
      BY <1>1, <1>8, <3>1
  <2>4. s[i] \in Int /\ s[j] \in Int
    BY <2>1
  <2> QED
    BY <2>2, <2>3, <2>4
<1> QED
  BY <1>7, <1>8

\* What sorted returns: the elements of the set, each once, in order.
LEMMA SortedProperty ==
  ASSUME NEW S \in SUBSET Int, IsFiniteSet(S)
  PROVE  /\ sorted(S) \in [1..Cardinality(S) -> S]
         /\ \A i, j \in 1..Cardinality(S) : i < j => sorted(S)[i] < sorted(S)[j]
         /\ \A x \in S : \E i \in 1..Cardinality(S) : sorted(S)[i] = x
<1> DEFINE n == Cardinality(S)
           s == sorted(S)
<1>1. s \in [1..n -> S] /\ \A i, j \in 1..n : i < j => s[i] < s[j]
  BY OrderExists DEF sorted
<1>2. n \in Nat
  BY FS_CardinalityType
<1>3. s \in Injection(1..n, S)
  <2>1. \A i, j \in 1..n : s[i] = s[j] => i = j
    <3> SUFFICES ASSUME NEW i \in 1..n, NEW j \in 1..n, i # j PROVE s[i] # s[j]
      OBVIOUS
    <3>1. i < j \/ j < i
      BY <1>2
    <3>2. s[i] \in Int /\ s[j] \in Int
      BY <1>1
    <3> QED
      BY <1>1, <3>1, <3>2
  <2> QED
    BY <1>1, <2>1 DEF Injection, IsInjective
<1>4. s \in Surjection(1..n, S)
  <2>1. IsFiniteSet(1..n) /\ Cardinality(1..n) = n
    <3> HIDE DEF n
    <3> QED
      BY <1>2, FS_Interval
  <2> QED
    BY <1>3, <2>1, FS_Injection
<1> QED
  BY <1>1, <1>4 DEF Surjection

\* bisect_left splits sorted stamps into those before the time and the others.
LEMMA BisectProperty ==
  ASSUME NEW n \in Nat, NEW stamps, DOMAIN stamps = 1..n,
         \A i \in 1..n : stamps[i] \in Int,
         \A i, j \in 1..n : i < j => stamps[i] < stamps[j],
         NEW t \in Int
  PROVE  /\ bisect_left(stamps, t) \in 0..n
         /\ \A i \in 1..n : stamps[i] < t <=> i <= bisect_left(stamps, t)
<1> DEFINE D == {i \in 1..n : stamps[i] < t}
           k == Cardinality(D)
<1>1. \A i, j \in 1..n : i < j /\ j \in D => i \in D
  <2> SUFFICES ASSUME NEW i \in 1..n, NEW j \in 1..n, i < j, stamps[j] < t
               PROVE  stamps[i] < t
    OBVIOUS
  <2>1. stamps[i] < stamps[j] /\ stamps[i] \in Int /\ stamps[j] \in Int
    OBVIOUS
  <2> QED
    BY <2>1
<1>2. D \in SUBSET (1..n)
  OBVIOUS
<1> HIDE DEF D
<1>3. \A m \in Nat : IsFiniteSet(1..m) /\ Cardinality(1..m) = m
  <2> SUFFICES ASSUME NEW m \in Nat
               PROVE  IsFiniteSet(1..m) /\ Cardinality(1..m) = m
    OBVIOUS
  <2>1. /\ IsFiniteSet(1..m)
        /\ Cardinality(1..m) = IF 1 > m THEN 0 ELSE m - 1 + 1
    BY FS_Interval
  <2> QED
    BY <2>1
<1>4. IsFiniteSet(D) /\ k \in 0..n
  <2>1. IsFiniteSet(D) /\ k <= Cardinality(1..n)
    BY <1>2, <1>3, FS_Subset
  <2> QED
    BY <1>3, <2>1, FS_CardinalityType
<1>5. ASSUME NEW i \in D PROVE i <= k
  <2>1. i \in 1..n /\ i \in Nat
    BY <1>2
  <2>2. 1..i \in SUBSET D
    BY <1>1, <2>1
  <2>3. Cardinality(1..i) <= k
    BY <1>4, <2>2, FS_Subset
  <2> QED
    BY <1>3, <2>1, <2>3
<1>6. ASSUME NEW i \in 1..n, i \notin D PROVE ~(i <= k)
  <2>1. D \in SUBSET (1..(i - 1)) /\ i - 1 \in Nat
    <3>1. \A j \in D : j \in 1..n /\ j # i /\ ~(i < j)
      BY <1>1, <1>2, <1>6
    <3> QED
      BY <3>1
  <2>2. k <= Cardinality(1..(i - 1)) /\ Cardinality(1..(i - 1)) = i - 1
    BY <1>3, <2>1, FS_Subset
  <2> QED
    BY <1>4, <2>2
<1>7. \A i \in 1..n : stamps[i] < t <=> i \in D
  BY DEF D
<1>8. bisect_left(stamps, t) = k
  BY DEF bisect_left, D
<1> QED
  BY <1>4, <1>5, <1>6, <1>7, <1>8

\* The bisection of interpolation_gap finds the nearest transforms on both sides
\* of the image: exact stamps, both ends of the recording and conflicts included.
LEMMA GapIsBracket ==
  ASSUME NEW c, NEW t \in Int, Recorded(c) # {}
  PROVE  /\ ChildGap(c, t) \in Int \cup {None}
         /\ Bracketed(c, t) <=> ChildGap(c, t) # None /\ ChildGap(c, t) <= MaxGap
<1> DEFINE R == Recorded(c)
           C == Conflicting(c)
           n == Cardinality(R)
           s == sorted(R)
           k == bisect_left(s, t)
<1>1. R \in SUBSET Int /\ IsFiniteSet(R) /\ n \in Nat
  <2>1. R \in SUBSET Times
    BY DEF Recorded
  <2>2. IsFiniteSet(R)
    BY <2>1, FS_Subset, PoseAssumption
  <2>3. R \in SUBSET Int
    <3>1. \A x \in Times : x \in Int
      BY PoseAssumption
    <3> QED
      BY <2>1, <3>1
  <2> QED
    BY <2>2, <2>3, FS_CardinalityType
<1>2. /\ s \in [1..n -> R]
      /\ \A i, j \in 1..n : i < j => s[i] < s[j]
      /\ \A x \in R : \E i \in 1..n : s[i] = x
  BY <1>1, SortedProperty
<1>3. s \in Seq(R) /\ Len(s) = n
  <2> HIDE DEF s, n, R
  <2> QED
    BY <1>1, <1>2
<1>4. ChildGap(c, t) =
        IF k < n /\ s[k + 1] = t THEN IF t \in C THEN None ELSE 0
        ELSE IF k = 0 \/ k = n \/ {s[k], s[k + 1]} \cap C # {} THEN None
        ELSE s[k + 1] - s[k]
  BY <1>3 DEF ChildGap
<1>5. k \in 0..n /\ \A i \in 1..n : s[i] < t <=> i <= k
  <2>1. DOMAIN s = 1..n /\ \A i \in 1..n : s[i] \in Int
    BY <1>1, <1>2
  <2> HIDE DEF s, n, R
  <2> QED
    BY <1>1, <1>2, <2>1, BisectProperty
<1> DEFINE before == {x \in R : x <= t}
           after == {x \in R : x >= t}
<1>6. Bracketed(c, t) <=>
        \E b \in before, a \in after :
          /\ \A x \in before : x <= b
          /\ \A x \in after : a <= x
          /\ a - b <= MaxGap /\ {a, b} \cap C = {}
  BY DEF Bracketed
<1>7. \A i \in 1..n : s[i] \in R /\ s[i] \in Int
  BY <1>1, <1>2
<1>8. \A x \in R : x \in Int /\ \E i \in 1..n : s[i] = x
  BY <1>1, <1>2
<1>9. MaxGap \in Nat /\ None \notin Int
  BY PoseAssumption, NoFileAssumption
<1> HIDE DEF R, C, n, s, k
<1>10. CASE k < n /\ s[k + 1] = t
  <2>1. t \in R
    BY <1>1, <1>5, <1>7, <1>10
  <2>2. Bracketed(c, t) <=> t \notin C
    <3>1. ASSUME NEW b \in before, NEW a \in after,
                 \A x \in before : x <= b, \A x \in after : a <= x
          PROVE  a = t /\ b = t
      BY <1>8, <2>1, <3>1
    <3>2. t \in before /\ t \in after /\ (\A x \in before : x <= t)
          /\ (\A x \in after : t <= x) /\ t - t <= MaxGap
      BY <1>8, <1>9, <2>1
    <3> HIDE DEF before, after
    <3> QED
      BY <1>6, <3>1, <3>2
  <2> QED
    BY <1>4, <1>9, <1>10, <2>2
<1>11. CASE ~(k < n /\ s[k + 1] = t) /\ k = 0
  <2>1. before = {}
    <3>1. \A i \in 1..n : s[i] # t
      <4> SUFFICES ASSUME NEW i \in 1..n, s[i] = t PROVE FALSE
        OBVIOUS
      <4>1. 1 \in 1..n /\ 1 <= n /\ ~(s[1] < t) /\ s[1] # t
        BY <1>1, <1>5, <1>11
      <4>2. i = 1 \/ s[1] < s[i]
        BY <1>1, <1>2, <4>1
      <4> QED
        BY <4>1, <4>2
    <3>2. \A i \in 1..n : ~(s[i] < t)
      BY <1>1, <1>5, <1>11
    <3> QED
      BY <1>7, <1>8, <3>1, <3>2
  <2> QED
    BY <1>4, <1>6, <1>11, <2>1
<1>12. CASE k = n
  <2>1. after = {}
    <3>1. \A i \in 1..n : s[i] < t
      BY <1>1, <1>5, <1>12
    <3> QED
      BY <1>7, <1>8, <3>1
  <2>2. ~(k < n)
    BY <1>1, <1>12
  <2> QED
    BY <1>4, <1>6, <1>12, <2>1, <2>2
<1>13. CASE k # 0 /\ k < n /\ s[k + 1] # t
  <2>1. k \in 1..n /\ k + 1 \in 1..n
    BY <1>1, <1>5, <1>13
  <2> DEFINE below == s[k]
             above == s[k + 1]
  <2>2. /\ below \in R /\ above \in R /\ below \in Int /\ above \in Int
        /\ below < t /\ t < above
    BY <1>5, <1>7, <1>13, <2>1
  <2>3. \A x \in R : x <= below \/ above <= x
    <3> SUFFICES ASSUME NEW i \in 1..n PROVE s[i] <= below \/ above <= s[i]
      BY <1>8
    <3>1. i < k \/ i = k \/ i = k + 1 \/ k + 1 < i
      BY <1>1, <2>1
    <3> QED
      BY <1>2, <1>7, <2>1, <3>1
  <2>4. below \in before /\ above \in after
        /\ (\A x \in before : x <= below) /\ (\A x \in after : above <= x)
    BY <1>8, <2>2, <2>3
  <2>5. \A b \in before : (\A x \in before : x <= b) => b = below
    BY <1>8, <2>2, <2>4
  <2>6. \A a \in after : (\A x \in after : a <= x) => a = above
    BY <1>8, <2>2, <2>4
  <2>7. Bracketed(c, t) <=> above - below <= MaxGap /\ {below, above} \cap C = {}
    <3> HIDE DEF before, after, below, above
    <3> QED
      BY <1>6, <2>4, <2>5, <2>6
  <2>8. ChildGap(c, t) = IF {below, above} \cap C # {} THEN None ELSE above - below
    BY <1>1, <1>4, <1>13
  <2>9. above - below \in Int
    BY <2>2
  <2> HIDE DEF below, above
  <2> QED
    BY <1>9, <2>7, <2>8, <2>9
<1>14. k = n \/ k < n
  BY <1>1, <1>5
<1> QED
  BY <1>10, <1>11, <1>12, <1>13, <1>14

\* Every row on disk is the status of its image.
RowsInv == poses # None => \A i \in DOMAIN poses : poses[i] = Status(i)

LEMMA RowsKeeps == TypeInv /\ RowsInv /\ [Next]_vars => RowsInv'
<1> SUFFICES ASSUME TypeInv, RowsInv, [Next]_vars PROVE RowsInv'
  OBVIOUS
<1>1. UNCHANGED tf
  BY DEF Next, vars, inputs, CreateCsv, WriteRow, WriteReport, ExportEnds, Import, Load,
     CheckNew, Copy, WritePrior, Verify, Link, Report, ImportEnds
<1>2. \A i : Status(i)' = Status(i)
  BY <1>1 DEF Status, ChildGap, Recorded, Conflicting, Time, sorted, bisect_left
<1>3. CASE CreateCsv
  BY <1>3 DEF CreateCsv, RowsInv
<1>4. CASE WriteRow
  <2>1. poses # None /\ poses \in Rows /\ poses' = Append(poses, Status(Len(poses) + 1))
    BY <1>4 DEF WriteRow, TypeInv
  <2>2. Status(Len(poses) + 1) \in {"ok", "gap_too_large", "tf_unavailable"}
    BY StatusType
  <2>3. \A i \in DOMAIN poses' : poses'[i] = Status(i)
    BY <2>1, <2>2 DEF RowsInv, Rows
  <2> QED
    BY <1>2, <2>3 DEF RowsInv
<1>5. CASE UNCHANGED poses
  BY <1>2, <1>5 DEF RowsInv
<1>6. CreateCsv \/ WriteRow \/ UNCHANGED poses
  BY DEF Next, vars, exportVars, WriteReport, ExportEnds, Import, Load,
     CheckNew, Copy, WritePrior, Verify, Link, Report, ImportEnds
<1> QED
  BY <1>3, <1>4, <1>5, <1>6

LEMMA OkIsBracketed ==
  ASSUME NEW i \in Nat
  PROVE  Status(i) = "ok" <=>
           \A c \in Children : Recorded(c) = {} \/ Bracketed(c, Time(i))
<1> DEFINE gaps == {ChildGap(c, Time(i)) : c \in {c \in Children : Recorded(c) # {}}}
<1>1. Time(i) \in Int
  BY PoseAssumption DEF Time
<1>2. \A c \in Children : Recorded(c) # {} =>
        /\ ChildGap(c, Time(i)) \in Int \cup {None}
        /\ Bracketed(c, Time(i)) <=>
             ChildGap(c, Time(i)) # None /\ ChildGap(c, Time(i)) <= MaxGap
  BY <1>1, GapIsBracket
<1>3. Status(i) = "ok" <=> None \notin gaps /\ ~ \E g \in gaps : g > MaxGap
  BY DEF Status
<1>4. \A g \in Int : ~(g > MaxGap) <=> g <= MaxGap
  BY PoseAssumption
<1>5. (None \notin gaps /\ ~ \E g \in gaps : g > MaxGap) <=>
        \A c \in Children : Recorded(c) # {} =>
          ChildGap(c, Time(i)) # None /\ ~(ChildGap(c, Time(i)) > MaxGap)
  OBVIOUS
<1>6. \A c \in Children : Recorded(c) # {} =>
        (Bracketed(c, Time(i)) <=>
           ChildGap(c, Time(i)) # None /\ ~(ChildGap(c, Time(i)) > MaxGap))
  BY <1>2, <1>4
<1> HIDE DEF gaps
<1> QED
  BY <1>3, <1>5, <1>6

\* A row has a pose exactly when every recorded frame of the path has its nearest
\* transforms at or around the image's time, close enough and without conflict,
\* whatever was recorded and however far the export has come.
THEOREM RowsCorrect == Spec => []RowsAreBracketed
<1>1. Init => RowsInv
  BY DEF Init, RowsInv
<1>2. IInv /\ RowsInv => RowsAreBracketed
  <2> SUFFICES ASSUME IInv, RowsInv, poses # None, NEW i \in DOMAIN poses
               PROVE  poses[i] = "ok" <=>
                        \A c \in Children : Recorded(c) = {} \/ Bracketed(c, Time(i))
    BY DEF RowsAreBracketed
  <2>1. poses \in Rows
    BY DEF IInv, TypeInv
  <2>2. i \in Nat /\ poses[i] = Status(i)
    BY <2>1 DEF Rows, RowsInv
  <2> QED
    BY <2>2, OkIsBracketed
<1>3. IInv /\ RowsInv /\ [Next]_vars => RowsInv'
  BY RowsKeeps DEF IInv
<1> QED
  BY <1>1, <1>2, <1>3, InvCorrect, PTL DEF Spec
=============================================================================
