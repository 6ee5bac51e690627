------------------------- MODULE Separation_proofs -------------------------
(***************************************************************************)
(* Proofs that Separation keeps its inductive invariant IInv, and so its   *)
(* safety properties, for every number of work units, cuts and points and  *)
(* however often the process is killed.                                    *)
(***************************************************************************)
EXTENDS Separation, TLAPS

USE SizeAssumption, DeviceAssumption, TaskAssumption

-----------------------------------------------------------------------------
(* Sums. *)

LEMMA PointFields ==
    ASSUME NEW p \in Points
    PROVE  /\ p[1] \in Nat /\ p[2] \in Nat /\ p[3] \in Nat
           /\ p[2] < NuSteps /\ p[3] < MuSteps
           /\ p = <<p[1], p[2], p[3]>>
  BY DEF Points, WUs

LEMMA ZeroType == Zero \in Sums /\ [c \in Cuts |-> Zero] \in [Cuts -> Sums]
  BY DEF Zero, Sums

LEMMA PlusType ==
    ASSUME NEW f \in Sums, NEW g \in Sums
    PROVE  Plus(f, g) \in Sums
  BY DEF Plus, Sums

LEMMA PlusZero ==
    ASSUME NEW f \in Sums
    PROVE  Plus(f, Zero) = f
  BY DEF Plus, Sums, Zero

LEMMA CountedZero ==
    ASSUME NEW w
    PROVE  Counted(w, 0, 0) = Zero
  <1>1. ASSUME NEW p \in Points
        PROVE  ~(p[2] < 0) /\ ~(p[3] < 0)
    BY PointFields
  <1>2. QED
    BY <1>1 DEF Counted, Zero

LEMMA RowType ==
    ASSUME NEW n
    PROVE  Row(n) \in Sums
  BY DEF Row, Sums

\* Adding the point that comes next, on the CPU.
LEMMA CountedPoint ==
    ASSUME apWU \in WUs, nu \in 0..(NuSteps - 1), mu \in 0..(MuSteps - 1),
           sum = Counted(apWU, nu, mu), MuStep
    PROVE  sum' = Counted(apWU, nu', mu')
  <1>1. Here \in Points
    BY DEF Points, Here
  <1>2. sum = [p \in Points |-> IF p[1] = apWU /\ (p[2] < nu \/ (p[2] = nu /\ p[3] < mu)) THEN 1 ELSE 0]
    BY DEF Counted
  <1>3. sum' = [p \in Points |-> IF p = Here THEN sum[p] + 1 ELSE sum[p]]
    BY <1>1, <1>2 DEF MuStep
  <1>4. ASSUME NEW p \in Points
        PROVE  sum'[p] = IF p[1] = apWU /\ (p[2] < nu' \/ (p[2] = nu' /\ p[3] < mu')) THEN 1 ELSE 0
    <2>1. p = Here <=> p[1] = apWU /\ p[2] = nu /\ p[3] = mu
      BY PointFields DEF Here
    <2>2. sum'[p] = IF p[1] = apWU /\ p[2] = nu /\ p[3] = mu THEN sum[p] + 1 ELSE sum[p]
      BY <1>3, <2>1
    <2>3. sum[p] = IF p[1] = apWU /\ (p[2] < nu \/ (p[2] = nu /\ p[3] < mu)) THEN 1 ELSE 0
      BY <1>2
    <2>4. p[2] \in Nat /\ p[3] \in Nat /\ p[3] < MuSteps
      BY PointFields
    <2>5. /\ mu' = IF mu + 1 = MuSteps THEN 0 ELSE mu + 1
          /\ nu' = IF mu + 1 = MuSteps THEN nu + 1 ELSE nu
      BY DEF MuStep
    <2>6. QED
      BY <2>2, <2>3, <2>4, <2>5
  <1>5. sum' = [p \in Points |-> sum'[p]]
    BY <1>3
  <1>6. QED
    BY <1>4, <1>5 DEF Counted

\* Adding the row that comes next, on the device.
LEMMA CountedRow ==
    ASSUME NEW n \in Nat, NEW f \in Sums, NEW d \in Sums, apWU \in Nat,
           Plus(f, d) = Counted(apWU, n, 0)
    PROVE  Plus(f, Plus(d, Row(n))) = Counted(apWU, n + 1, 0)
  <1>1. ASSUME NEW p \in Points
        PROVE  f[p] + (d[p] + Row(n)[p]) =
                 IF p[1] = apWU /\ (p[2] < n + 1 \/ (p[2] = n + 1 /\ p[3] < 0)) THEN 1 ELSE 0
    <2>1. p[2] \in Nat /\ p[3] \in Nat
      BY PointFields
    <2>2. f[p] + d[p] = IF p[1] = apWU /\ (p[2] < n \/ (p[2] = n /\ p[3] < 0)) THEN 1 ELSE 0
      <3>1. Plus(f, d)[p] = Counted(apWU, n, 0)[p]
        OBVIOUS
      <3>2. QED
        BY <3>1 DEF Plus, Counted
    <2>3. Row(n)[p] = IF p[1] = apWU /\ p[2] = n THEN 1 ELSE 0
      BY DEF Row
    <2>4. f[p] \in Nat /\ d[p] \in Nat
      BY DEF Sums
    <2>5. CASE p[1] = apWU
      <3>1. ~(p[3] < 0)
        BY <2>1
      <3>2. p[2] < n + 1 <=> p[2] < n \/ p[2] = n
        BY <2>1
      <3>3. f[p] + d[p] = (IF p[2] < n THEN 1 ELSE 0) /\ Row(n)[p] = IF p[2] = n THEN 1 ELSE 0
        BY <2>2, <2>3, <2>5, <3>1
      <3>4. f[p] + (d[p] + Row(n)[p]) = IF p[2] < n + 1 THEN 1 ELSE 0
        BY <2>1, <2>4, <3>2, <3>3
      <3>5. QED
        BY <2>5, <3>1, <3>4
    <2>6. CASE p[1] # apWU
      BY <2>2, <2>3, <2>4, <2>6
    <2>7. QED
      BY <2>5, <2>6
  <1>2. ASSUME NEW p \in Points PROVE Plus(d, Row(n))[p] = d[p] + Row(n)[p]
    BY DEF Plus
  <1>3. QED
    BY <1>1, <1>2 DEF Plus, Counted

-----------------------------------------------------------------------------
(* Files. *)

LEMMA FileKinds ==
    ASSUME NEW f \in {NoFile, Torn} \cup Saves
    PROVE  /\ f.kind = "whole" <=> f \in Saves
           /\ f.kind = "whole" <=> f # NoFile /\ f # Torn
  BY DEF NoFile, Torn, Saves

LEMMA SaveFields ==
    ASSUME NEW f \in Saves
    PROVE  /\ f.wu \in WUs /\ f.wu \in Nat /\ f.printed \in BOOLEAN /\ f.cut \in 0..NCuts
           /\ f.nu \in 0..NuSteps /\ f.mu \in 0..(MuSteps - 1) /\ f.sum \in Sums /\ f.sumCk \in Sums
           /\ f.last \in 0..NuSteps /\ f.cuts \in [Cuts -> Sums]
  BY DEF Saves, WUs

LEMMA SavedFields ==
    /\ Saved.kind = "whole" /\ Saved.wu = esWU /\ Saved.printed = printed /\ Saved.cut = cut
    /\ Saved.nu = nu /\ Saved.mu = mu /\ Saved.sum = sum /\ Saved.sumCk = sumCk
    /\ Saved.cuts = cuts /\ Saved # Torn /\ Saved # NoFile
  BY DEF Saved, Torn, NoFile

LEMMA SavedType ==
    ASSUME TypeOK
    PROVE  Saved \in Saves
  BY DEF TypeOK, Saved, Saves

-----------------------------------------------------------------------------
(* Positions. *)

LEMMA Product ==
    ASSUME NEW a \in Nat, NEW b \in Nat, NEW k \in Nat
    PROVE  /\ a * k \in Nat
           /\ (a + 1) * k = a * k + k
           /\ a <= b => a * k <= b * k
  OBVIOUS

Pos(w, c, n, m) ==
    w * (NCuts * (NuSteps * MuSteps) + 2) + (c * (NuSteps * MuSteps) + n * MuSteps + m)

LEMMA PosOf ==
    ASSUME NEW f
    PROVE  Position(f) = Pos(f.wu, f.cut, f.nu, f.mu) + IF f.printed THEN 1 ELSE 0
  BY DEF Position, Pos

LEMMA PosSteps ==
    ASSUME NEW w \in Nat, NEW c \in Nat, NEW n \in Nat, NEW m \in Nat
    PROVE  /\ Pos(w, c, n, m) \in Nat
           /\ Pos(w, c, n, m + 1) = Pos(w, c, n, m) + 1
           /\ m + 1 = MuSteps => Pos(w, c, n + 1, 0) = Pos(w, c, n, m) + 1
           /\ Pos(w, c, n + 1, m) >= Pos(w, c, n, m)
           /\ Pos(w, c + 1, 0, 0) = Pos(w, c, NuSteps, 0)
  <1> DEFINE points == NuSteps * MuSteps
             unit == NCuts * points + 2
  <1>1. points \in Nat
    BY Product
  <1>2. unit \in Nat
    BY <1>1, Product
  <1>3. /\ w * unit \in Nat /\ c * points \in Nat /\ n * MuSteps \in Nat
        /\ (n + 1) * MuSteps = n * MuSteps + MuSteps /\ (c + 1) * points = c * points + points
        /\ 0 * MuSteps = 0
    BY <1>1, <1>2, Product
  <1>4. /\ Pos(w, c, n, m) = w * unit + (c * points + n * MuSteps + m)
        /\ Pos(w, c, n, m + 1) = w * unit + (c * points + n * MuSteps + (m + 1))
        /\ Pos(w, c, n + 1, 0) = w * unit + (c * points + (n + 1) * MuSteps + 0)
        /\ Pos(w, c, n + 1, m) = w * unit + (c * points + (n + 1) * MuSteps + m)
        /\ Pos(w, c + 1, 0, 0) = w * unit + ((c + 1) * points + 0 * MuSteps + 0)
        /\ Pos(w, c, NuSteps, 0) = w * unit + (c * points + points + 0)
    BY DEF Pos
  <1> HIDE DEF unit, points
  <1> DEFINE wu == w * unit
             cp == c * points
             nm == n * MuSteps
  <1>5. /\ Pos(w, c, n, m) = wu + (cp + nm + m)
        /\ Pos(w, c, n, m + 1) = wu + (cp + nm + (m + 1))
        /\ Pos(w, c, n + 1, 0) = wu + (cp + (nm + MuSteps) + 0)
        /\ Pos(w, c, n + 1, m) = wu + (cp + (nm + MuSteps) + m)
        /\ Pos(w, c + 1, 0, 0) = wu + ((cp + points) + 0 + 0)
        /\ Pos(w, c, NuSteps, 0) = wu + (cp + points + 0)
        /\ wu \in Nat /\ cp \in Nat /\ nm \in Nat
    BY <1>3, <1>4
  <1> HIDE DEF wu, cp, nm
  <1>6. QED
    BY <1>1, <1>5

\* Wherever a work unit is, the next one begins further on.
LEMMA PosUnits ==
    ASSUME NEW w \in Nat, NEW v \in Nat, w < v,
           NEW c \in 0..NCuts, NEW n \in 0..NuSteps, NEW m \in 0..(MuSteps - 1),
           n = NuSteps => m = 0, c = NCuts => n = 0 /\ m = 0
    PROVE  Pos(w, c, n, m) <= Pos(v, 0, 0, 0)
  <1> DEFINE points == NuSteps * MuSteps
             all == NCuts * points
             unit == all + 2
  <1>1. points \in Nat
    BY Product
  <1>2. all \in Nat /\ unit \in Nat
    BY <1>1, Product
  <1>3. n * MuSteps + m <= points
    <2>1. CASE n = NuSteps
      BY <2>1
    <2>2. CASE n < NuSteps
      <3>1. (n + 1) * MuSteps = n * MuSteps + MuSteps /\ (n + 1) * MuSteps <= NuSteps * MuSteps
        BY <2>2, Product
      <3>2. n * MuSteps \in Nat
        BY Product
      <3>3. QED
        BY <3>1, <3>2
    <2>3. QED
      BY <2>1, <2>2
  <1>4. n * MuSteps \in Nat /\ c * points \in Nat
    BY <1>1, Product
  <1>5. c * points + n * MuSteps + m <= all
    <2>1. CASE c = NCuts
      BY <2>1
    <2>2. CASE c < NCuts
      <3> HIDE DEF points
      <3>1. (c + 1) * points = c * points + points /\ (c + 1) * points <= NCuts * points
        BY <1>1, <2>2, Product
      <3>2. QED
        BY <1>1, <1>3, <1>4, <3>1
    <2>3. QED
      BY <2>1, <2>2
  <1>6. Pos(w, c, n, m) = w * unit + (c * points + n * MuSteps + m) /\ Pos(v, 0, 0, 0) = v * unit
    <2>1. 0 * points = 0 /\ 0 * MuSteps = 0 /\ v * unit \in Nat
      BY <1>1, <1>2, Product
    <2>2. Pos(v, 0, 0, 0) = v * unit + (0 * points + 0 * MuSteps + 0)
      BY DEF Pos
    <2> HIDE DEF unit, points
    <2>3. QED
      BY <2>1, <2>2 DEF Pos, unit, points
  <1> HIDE DEF points, all
  <1>7. unit \in Nat /\ unit = all + 2
    BY <1>2
  <1> HIDE DEF unit
  <1>8. (w + 1) * unit = w * unit + unit /\ (w + 1) * unit <= v * unit /\ w * unit \in Nat /\ v * unit \in Nat
    BY <1>7, Product
  <1>9. QED
    BY <1>1, <1>2, <1>4, <1>5, <1>6, <1>7, <1>8

-----------------------------------------------------------------------------
(* The parts of the invariant, step by step. *)

LEMMA NoKinds == NoFile.kind # "whole" /\ Torn.kind # "whole" /\ NoFile # Torn
  BY DEF NoFile, Torn

LEMMA Small == WUs \subseteq Nat /\ 0 \in WUs /\ 0 \in 0..NCuts /\ 0 \in 0..NuSteps /\ 0 \in 0..(MuSteps - 1)
               /\ 0 \in 0..TotalWUs /\ \A w \in WUs : w < TotalWUs /\ w + 1 \in 0..TotalWUs
  BY DEF WUs

LEMMA Typed ==
    ASSUME TypeOK
    PROVE  /\ ckpt.kind = "whole" => /\ ckpt \in Saves /\ ckpt.wu \in WUs /\ ckpt.printed \in BOOLEAN
                                     /\ ckpt.cut \in 0..NCuts /\ ckpt.nu \in 0..NuSteps
                                     /\ ckpt.mu \in 0..(MuSteps - 1) /\ ckpt.last \in 0..NuSteps
                                     /\ ckpt.sum \in Sums /\ ckpt.sumCk \in Sums
                                     /\ ckpt.cuts \in [Cuts -> Sums]
           /\ task.useCL \in BOOLEAN /\ task.cleanup \in BOOLEAN
           /\ task.hardKill \in BOOLEAN /\ task.mayFail \in BOOLEAN
           /\ apWU \in Nat /\ prints[0] \in Nat
  <1>1. ckpt \in {NoFile, Torn} \cup Saves
    BY DEF TypeOK
  <1>2. ckpt.kind = "whole" => ckpt \in Saves
    BY <1>1, FileKinds
  <1>3. apWU \in Nat /\ prints[0] \in Nat
    BY Small DEF TypeOK
  <1>4. QED
    BY <1>2, <1>3, SaveFields DEF TypeOK

LEMMA AddType ==
    ASSUME NEW f \in Sums, NEW p \in Points
    PROVE  [f EXCEPT ![p] = @ + 1] \in Sums
  BY DEF Sums

LEMMA HereType ==
    ASSUME TypeOK, apWU \in WUs, nu < NuSteps
    PROVE  Here \in Points
  BY DEF TypeOK, Here, Points

LEMMA TypeStep ==
    ASSUME IInv, [Next]_vars
    PROVE  TypeOK'
  <1> USE DEF ctl, es, vars
  <1>1. /\ TypeOK /\ ControlInv
        /\ ckpt.kind = "whole" => /\ ckpt \in Saves /\ ckpt.wu \in WUs /\ ckpt.printed \in BOOLEAN
                                  /\ ckpt.cut \in 0..NCuts /\ ckpt.nu \in 0..NuSteps
                                  /\ ckpt.mu \in 0..(MuSteps - 1) /\ ckpt.last \in 0..NuSteps
                                  /\ ckpt.sum \in Sums /\ ckpt.sumCk \in Sums /\ ckpt.cuts \in [Cuts -> Sums]
    BY Typed DEF IInv
  <1>2. CASE Start
    BY <1>1, <1>2 DEF Start, TypeOK
  <1>3. CASE EvaluateNew
    BY <1>1, <1>3, ZeroType, Small DEF EvaluateNew, Fresh, TypeOK, ControlInv
  <1>4. CASE ReadFails
    BY <1>1, <1>4 DEF ReadFails, TypeOK
  <1>5. CASE SkipToCheckpointed
    <2>1. ckpt.wu \in WUs /\ apWU \in 0..TotalWUs /\ ckpt.wu > apWU /\ apWU' = ckpt.wu - 1
      BY <1>1, <1>5 DEF SkipToCheckpointed, TypeOK
    <2>2. apWU' \in 0..TotalWUs
      BY <2>1 DEF WUs
    <2>3. QED
      BY <1>1, <1>5, <2>2, ZeroType, PlusType DEF SkipToCheckpointed, Read, TypeOK
  <1>6. CASE SkipPrinted
    BY <1>1, <1>6, ZeroType, PlusType DEF SkipPrinted, Read, TypeOK
  <1>7. CASE EvaluateResumed
    BY <1>1, <1>7, ZeroType, PlusType DEF EvaluateResumed, Read, TypeOK
  <1>8. CASE MuStep
    <2>1. sum' \in Sums
      <3>1. apWU \in WUs /\ nu < NuSteps
        BY <1>1, <1>8 DEF MuStep, ControlInv, Working
      <3>2. Here \in Points
        BY <1>1, <3>1, HereType
      <3>3. sum \in Sums
        BY <1>1 DEF TypeOK
      <3>4. [sum EXCEPT ![Here] = sum[Here] + 1] \in Sums
        BY <3>2, <3>3, AddType
      <3>5. QED
        BY <1>8, <3>4 DEF MuStep
    <2>2. mu' \in 0..(MuSteps - 1) /\ nu' \in 0..NuSteps
      BY <1>1, <1>8 DEF MuStep, TypeOK
    <2>3. QED
      BY <1>1, <1>8, <2>1, <2>2 DEF MuStep, TypeOK
  <1>9. CASE RunNuStep
    <2>1. nu' \in 0..NuSteps
      BY <1>1, <1>9 DEF RunNuStep, TypeOK
    <2>2. QED
      BY <1>1, <1>9, <2>1, PlusType, RowType DEF RunNuStep, TypeOK
  <1>10. CASE TimeToCheckpoint
    BY <1>1, <1>10 DEF TimeToCheckpoint, TypeOK
  <1>11. CASE TimeToCheckpointGPU
    BY <1>1, <1>11 DEF TimeToCheckpointGPU, TypeOK
  <1>12. CASE EndIntegral
    <2>1. cut' \in 0..NCuts /\ cut \in Cuts
      BY <1>1, <1>12 DEF EndIntegral, TypeOK, Cuts
    <2>2. Plus(sum, dev) \in Sums
      BY <1>1, PlusType DEF TypeOK
    <2>3. cuts' \in [Cuts -> Sums]
      BY <1>1, <1>12, <2>1, <2>2 DEF EndIntegral, TypeOK
    <2>4. QED
      BY <1>1, <1>12, <2>1, <2>3, ZeroType, Small DEF EndIntegral, TypeOK
  <1>13. CASE IntegralFails
    BY <1>1, <1>13 DEF IntegralFails, TypeOK
  <1>14. CASE FinalCheckpoint
    BY <1>1, <1>14 DEF FinalCheckpoint, TypeOK
  <1>15. CASE Open
    BY <1>1, <1>15 DEF Open, TypeOK
  <1>16. CASE WriteState
    BY <1>1, <1>16, SavedType DEF WriteState, TypeOK
  <1>17. CASE WriteTruncated
    BY <1>1, <1>17 DEF WriteTruncated, TypeOK
  <1>18. CASE RenameTmp
    BY <1>1, <1>18 DEF RenameTmp, TypeOK
  <1>19. CASE WriteFails
    BY <1>1, <1>19 DEF WriteFails, TypeOK
  <1>20. CASE Likelihood
    BY <1>1, <1>20 DEF Likelihood, TypeOK
  <1>21. CASE StarPointsFail
    BY <1>1, <1>21 DEF StarPointsFail, TypeOK
  <1>22. CASE PrintResults
    <2>1. prints' \in [WUs -> 0..MaxPrints]
      <3>1. apWU \in WUs /\ prints \in [WUs -> 0..MaxPrints] /\ prints' = CountPrint(apWU)
        BY <1>1, <1>22 DEF PrintResults, TypeOK, ControlInv, Working
      <3>2. QED
        BY <3>1 DEF CountPrint
    <2>2. QED
      BY <1>1, <1>22, <2>1 DEF PrintResults, TypeOK
  <1>23. CASE NextWU
    <2>1. apWU + 1 \in 0..TotalWUs
      BY <1>1, <1>23, Small DEF NextWU, ControlInv
    <2>2. QED
      BY <1>1, <1>23, <2>1 DEF NextWU, TypeOK
  <1>24. CASE Cleanup
    BY <1>1, <1>24 DEF Cleanup, TypeOK
  <1>25. CASE Finish
    BY <1>1, <1>25 DEF Finish, TypeOK
  <1>26. CASE Crash
    BY <1>1, <1>26, ZeroType, Small DEF Crash, TypeOK
  <1>27. CASE Over
    BY <1>1, <1>27 DEF Over, TypeOK
  <1>28. CASE UNCHANGED vars
    BY <1>1, <1>28 DEF TypeOK
  <1>30. CASE EvaluateFails
    BY <1>1, <1>30 DEF EvaluateFails, TypeOK
  <1>29. QED
    BY <1>2, <1>3, <1>4, <1>5, <1>6, <1>7, <1>8, <1>9, <1>10, <1>11, <1>12, <1>13, <1>14, <1>15,
       <1>16, <1>17, <1>18, <1>19, <1>20, <1>21, <1>22, <1>23, <1>24, <1>25, <1>26, <1>27,
       <1>28, <1>30 DEF Next, Evaluate, Integrate, WriteCheckpoint, Conclude

LEMMA ControlStep ==
    ASSUME IInv, [Next]_vars
    PROVE  ControlInv'
  <1> USE DEF ctl, es, vars
  <1>1. /\ TypeOK /\ ControlInv
        /\ ckpt.kind = "whole" => /\ ckpt \in Saves /\ ckpt.wu \in WUs /\ ckpt.printed \in BOOLEAN
                                  /\ ckpt.cut \in 0..NCuts /\ ckpt.nu \in 0..NuSteps
                                  /\ ckpt.mu \in 0..(MuSteps - 1) /\ ckpt.last \in 0..NuSteps
                                  /\ ckpt.sum \in Sums /\ ckpt.sumCk \in Sums /\ ckpt.cuts \in [Cuts -> Sums]
    BY Typed DEF IInv
  <1>2. CASE Start
    BY <1>1, <1>2, Small DEF Start, ControlInv, Working, Writing
  <1>3. CASE EvaluateNew
    BY <1>1, <1>3 DEF EvaluateNew, Fresh, TypeOK, ControlInv, Working, Writing
  <1>4. CASE ReadFails
    BY <1>1, <1>4 DEF ReadFails, TypeOK, ControlInv, Working, Writing
  <1>5. CASE SkipToCheckpointed
    <2>1. ckpt.wu \in WUs /\ apWU \in 0..TotalWUs /\ ckpt.wu > apWU /\ apWU' = ckpt.wu - 1
      BY <1>1, <1>5 DEF SkipToCheckpointed, TypeOK
    <2>2. apWU' \in WUs
      BY <2>1 DEF WUs
    <2>3. QED
      BY <1>1, <1>5, <2>2 DEF SkipToCheckpointed, ControlInv, Working, Writing
  <1>6. CASE SkipPrinted
    BY <1>1, <1>6 DEF SkipPrinted, Read, TypeOK, ControlInv, Working, Writing
  <1>7. CASE EvaluateResumed
    <2>1. ckpt.wu = apWU /\ ~ckpt.printed /\ apWU \in WUs
      <3>1. ckpt.wu >= apWU /\ ckpt.wu <= apWU /\ ~ckpt.printed /\ apWU \in WUs /\ ckpt.wu \in WUs
        BY <1>1, <1>7 DEF EvaluateResumed, IInv, ResumeInv, ControlInv
      <3>2. QED
        BY <3>1 DEF WUs
    <2>2. ckpt.cut \in 0..NCuts
      BY <1>1, <1>7 DEF EvaluateResumed
    <2>3. QED
      BY <1>1, <1>7, <2>1, <2>2 DEF EvaluateResumed, Read, ControlInv, Working, Writing
  <1>8. CASE MuStep
    BY <1>1, <1>8 DEF MuStep, Here, TypeOK, ControlInv, Working, Writing
  <1>9. CASE RunNuStep
    BY <1>1, <1>9 DEF RunNuStep, TypeOK, ControlInv, Working, Writing
  <1>10. CASE TimeToCheckpoint
    BY <1>1, <1>10 DEF TimeToCheckpoint, TypeOK, ControlInv, Working, Writing
  <1>11. CASE TimeToCheckpointGPU
    BY <1>1, <1>11 DEF TimeToCheckpointGPU, TypeOK, ControlInv, Working, Writing
  <1>12. CASE EndIntegral
    BY <1>1, <1>12 DEF EndIntegral, TypeOK, ControlInv, Working, Writing
  <1>13. CASE IntegralFails
    BY <1>1, <1>13 DEF IntegralFails, TypeOK, ControlInv, Working, Writing
  <1>14. CASE FinalCheckpoint
    BY <1>1, <1>14 DEF FinalCheckpoint, TypeOK, ControlInv, Working, Writing
  <1>15. CASE Open
    BY <1>1, <1>15 DEF Open, TypeOK, ControlInv, Working, Writing
  <1>16. CASE WriteState
    BY <1>1, <1>16 DEF WriteState, TypeOK, ControlInv, Working, Writing
  <1>17. CASE WriteTruncated
    BY <1>1, <1>17 DEF WriteTruncated, TypeOK, ControlInv, Working, Writing
  <1>18. CASE RenameTmp
    BY <1>1, <1>18 DEF RenameTmp, TypeOK, ControlInv, Working, Writing
  <1>19. CASE WriteFails
    BY <1>1, <1>19 DEF WriteFails, TypeOK, ControlInv, Working, Writing
  <1>20. CASE Likelihood
    BY <1>1, <1>20 DEF Likelihood, TypeOK, ControlInv, Working, Writing
  <1>21. CASE StarPointsFail
    BY <1>1, <1>21 DEF StarPointsFail, TypeOK, ControlInv, Working, Writing
  <1>22. CASE PrintResults
    BY <1>1, <1>22 DEF PrintResults, TypeOK, ControlInv, Working, Writing
  <1>23. CASE NextWU
    <2>1. apWU \in WUs /\ apWU \in Nat
      BY <1>1, <1>23, Small DEF NextWU, ControlInv
    <2>2. apWU + 1 < TotalWUs => apWU + 1 \in WUs
      BY <2>1 DEF WUs
    <2>3. QED
      BY <1>1, <1>23, <2>1, <2>2 DEF NextWU, ControlInv, Working, Writing
  <1>24. CASE Cleanup
    BY <1>1, <1>24 DEF Cleanup, TypeOK, ControlInv, Working, Writing
  <1>25. CASE Finish
    BY <1>1, <1>25 DEF Finish, TypeOK, ControlInv, Working, Writing
  <1>26. CASE Crash
    BY <1>1, <1>26 DEF Crash, Critical, TypeOK, ControlInv, Working, Writing
  <1>27. CASE Over
    BY <1>1, <1>27 DEF Over, TypeOK, ControlInv, Working, Writing
  <1>28. CASE UNCHANGED vars
    BY <1>1, <1>28 DEF TypeOK, ControlInv, Working, Writing
  <1>30. CASE EvaluateFails
    BY <1>1, <1>30 DEF EvaluateFails, TypeOK, ControlInv, Working, Writing
  <1>29. QED
    BY <1>2, <1>3, <1>4, <1>5, <1>6, <1>7, <1>8, <1>9, <1>10, <1>11, <1>12, <1>13, <1>14, <1>15,
       <1>16, <1>17, <1>18, <1>19, <1>20, <1>21, <1>22, <1>23, <1>24, <1>25, <1>26, <1>27,
       <1>28, <1>30 DEF Next, Evaluate, Integrate, WriteCheckpoint, Conclude

\* Every point is added to the sums once, on the CPU and on the device.
LEMMA SumsStep ==
    ASSUME IInv, [Next]_vars
    PROVE  SumsInv'
  <1> USE DEF ctl, es, vars
  <1>1. TypeOK /\ ControlInv /\ SumsInv /\ task.useCL \in BOOLEAN
    BY Typed DEF IInv
  <1>2. CASE Start
    BY <1>1, <1>2 DEF Start, SumsInv, ControlInv, Working, Writing
  <1>3. CASE EvaluateNew
    <2>1. Plus(Zero, Zero) = Counted(apWU, 0, 0)
      BY ZeroType, PlusZero, CountedZero
    <2>2. QED
      BY <1>1, <1>3, <2>1 DEF EvaluateNew, Fresh, SumsInv, Working, Writing, Cuts
  <1>4. CASE ReadFails
    BY <1>1, <1>4 DEF ReadFails, SumsInv, ControlInv, Working, Writing
  <1>5. CASE SkipToCheckpointed
    BY <1>1, <1>5 DEF SkipToCheckpointed, Read, SumsInv, ControlInv, Working, Writing
  <1>6. CASE SkipPrinted
    BY <1>1, <1>6 DEF SkipPrinted, Read, SumsInv, ControlInv, Working, Writing
  <1>7. CASE EvaluateResumed
    <2>1. /\ ckpt.sum \in Sums /\ ckpt.sumCk \in Sums /\ ckpt.kind = "whole" /\ ckpt.cut \in 0..NCuts
          /\ WholeOK(ckpt, task.useCL)
      BY <1>7, Typed DEF EvaluateResumed, IInv, FilesInv
    <2>2. esWU' = apWU' /\ ckpt.wu = apWU
      BY <1>7, ControlStep DEF EvaluateResumed, Read, ControlInv, Working
    <2>3. sum' = Counted(apWU, nu', mu') /\ sum' \in Sums
      BY <1>7, <2>1, <2>2, PlusType DEF EvaluateResumed, Read, WholeOK
    <2>4. Plus(sum', dev') = Counted(apWU, nu', mu') /\ Plus(sum', sumCk') = Counted(apWU, nu', mu')
      BY <1>7, <2>3, PlusZero DEF EvaluateResumed, Read
    <2>5. QED
      BY <1>7, <2>1, <2>2, <2>4 DEF EvaluateResumed, Read, WholeOK, SumsInv
  <1>8. CASE MuStep
    <2>1. /\ apWU \in WUs /\ nu \in 0..(NuSteps - 1) /\ mu \in 0..(MuSteps - 1) /\ cut \in 0..NCuts /\ cut < NCuts
          /\ dev = Zero /\ sumCk = Zero /\ sum \in Sums /\ ~task.useCL
      BY <1>1, <1>8 DEF MuStep, TypeOK, ControlInv, SumsInv, Working
    <2>2. sum = Counted(apWU, nu, mu)
      BY <1>1, <1>8, <2>1, PlusZero DEF MuStep, SumsInv, Working
    <2>3. sum' = Counted(apWU, nu', mu')
      BY <1>8, <2>1, <2>2, CountedPoint
    <2>4. sum' \in Sums
      BY TypeStep DEF TypeOK
    <2>5. Plus(sum', dev') = Counted(apWU, nu', mu')
      BY <1>8, <2>1, <2>3, <2>4, PlusZero DEF MuStep
    <2>6. nu' = NuSteps => mu' = 0
      BY <1>8, <2>1 DEF MuStep
    <2>7. QED
      BY <1>1, <1>8, <2>1, <2>5, <2>6 DEF MuStep, SumsInv, Working, Writing
  <1>9. CASE RunNuStep
    <2>1. apWU \in Nat /\ nu \in Nat /\ sum \in Sums /\ dev \in Sums /\ mu = 0 /\ cut < NCuts /\ cut \in 0..NCuts
      BY <1>1, <1>9 DEF RunNuStep, TypeOK, SumsInv, Working
    <2>2. Plus(sum', dev') = Counted(apWU, nu', mu')
      BY <1>1, <1>9, <2>1, CountedRow DEF RunNuStep, SumsInv, Working
    <2>3. QED
      BY <1>1, <1>9, <2>1, <2>2 DEF RunNuStep, SumsInv, Working, Writing
  <1>10. CASE TimeToCheckpoint
    BY <1>1, <1>10 DEF TimeToCheckpoint, SumsInv, ControlInv, Working, Writing
  <1>11. CASE TimeToCheckpointGPU
    BY <1>1, <1>11 DEF TimeToCheckpointGPU, SumsInv, ControlInv, Working, Writing
  <1>12. CASE EndIntegral
    <2>1. mu = 0 /\ nu = NuSteps /\ cut \in Cuts /\ cut \in Nat /\ cuts \in [Cuts -> Sums]
      BY <1>1, <1>12 DEF EndIntegral, TypeOK, SumsInv, Working, Cuts
    <2>2. Plus(sum, dev) = Exact(apWU)
      BY <1>1, <1>12, <2>1 DEF EndIntegral, SumsInv, Working, Exact
    <2>3. ASSUME NEW c \in Cuts, c < cut + 1 PROVE cuts'[c] = Exact(apWU)
      <3>1. c = cut \/ c < cut
        BY <2>1, <2>3 DEF Cuts
      <3>2. QED
        BY <1>1, <1>12, <2>1, <2>2, <3>1 DEF EndIntegral, SumsInv, Working
    <2>4. Plus(Zero, Zero) = Counted(apWU, 0, 0)
      BY ZeroType, PlusZero, CountedZero
    <2>5. sumCk' = Zero
      BY <1>1, <1>12 DEF EndIntegral, SumsInv, Working
    <2>6. QED
      BY <1>12, <2>1, <2>3, <2>4, <2>5 DEF EndIntegral, SumsInv
  <1>13. CASE IntegralFails
    BY <1>1, <1>13 DEF IntegralFails, SumsInv, ControlInv, Working, Writing
  <1>14. CASE FinalCheckpoint
    BY <1>1, <1>14 DEF FinalCheckpoint, SumsInv, ControlInv, Working, Writing
  <1>15. CASE Open
    BY <1>1, <1>15 DEF Open, SumsInv, ControlInv, Working, Writing
  <1>16. CASE WriteState
    BY <1>1, <1>16 DEF WriteState, SumsInv, ControlInv, Working, Writing
  <1>17. CASE WriteTruncated
    BY <1>1, <1>17 DEF WriteTruncated, SumsInv, ControlInv, Working, Writing
  <1>18. CASE RenameTmp
    BY <1>1, <1>18 DEF RenameTmp, SumsInv, ControlInv, Working, Writing
  <1>19. CASE WriteFails
    BY <1>1, <1>19 DEF WriteFails, SumsInv, ControlInv, Working, Writing
  <1>20. CASE Likelihood
    BY <1>1, <1>20 DEF Likelihood, SumsInv, ControlInv, Working, Writing
  <1>21. CASE StarPointsFail
    BY <1>1, <1>21 DEF StarPointsFail, SumsInv, ControlInv, Working, Writing
  <1>22. CASE PrintResults
    BY <1>1, <1>22 DEF PrintResults, SumsInv, ControlInv, Working, Writing
  <1>23. CASE NextWU
    BY <1>1, <1>23 DEF NextWU, SumsInv, ControlInv, Working, Writing
  <1>24. CASE Cleanup
    BY <1>1, <1>24 DEF Cleanup, SumsInv, ControlInv, Working, Writing
  <1>25. CASE Finish
    BY <1>1, <1>25 DEF Finish, SumsInv, ControlInv, Working, Writing
  <1>26. CASE Crash
    BY <1>1, <1>26 DEF Crash, Critical, SumsInv, ControlInv, Working, Writing
  <1>27. CASE Over
    BY <1>1, <1>27 DEF Over, SumsInv, ControlInv, Working, Writing
  <1>28. CASE UNCHANGED vars
    BY <1>1, <1>28 DEF SumsInv, ControlInv, Working, Writing
  <1>30. CASE EvaluateFails
    BY <1>1, <1>30 DEF EvaluateFails, SumsInv, ControlInv, Working, Writing
  <1>29. QED
    BY <1>2, <1>3, <1>4, <1>5, <1>6, <1>7, <1>8, <1>9, <1>10, <1>11, <1>12, <1>13, <1>14, <1>15,
       <1>16, <1>17, <1>18, <1>19, <1>20, <1>21, <1>22, <1>23, <1>24, <1>25, <1>26, <1>27,
       <1>28, <1>30 DEF Next, Evaluate, Integrate, WriteCheckpoint, Conclude

\* What is saved are the points that were added.
LEMMA FilesStep ==
    ASSUME IInv, [Next]_vars
    PROVE  FilesInv'
  <1> USE DEF ctl, es, vars
  <1>1. TypeOK /\ ControlInv /\ SumsInv /\ FilesInv
    BY DEF IInv
  <1>2. CASE Start
    BY <1>1, <1>2 DEF Start, FilesInv
  <1>3. CASE EvaluateNew
    BY <1>1, <1>3 DEF EvaluateNew, Fresh, FilesInv
  <1>4. CASE ReadFails
    BY <1>1, <1>4, NoKinds DEF ReadFails, FilesInv, WholeOK
  <1>5. CASE SkipToCheckpointed
    BY <1>1, <1>5 DEF SkipToCheckpointed, Read, FilesInv
  <1>6. CASE SkipPrinted
    BY <1>1, <1>6 DEF SkipPrinted, Read, FilesInv
  <1>7. CASE EvaluateResumed
    BY <1>1, <1>7 DEF EvaluateResumed, Read, FilesInv
  <1>8. CASE MuStep
    BY <1>1, <1>8 DEF MuStep, Here, FilesInv
  <1>9. CASE RunNuStep
    BY <1>1, <1>9 DEF RunNuStep, FilesInv
  <1>10. CASE TimeToCheckpoint
    BY <1>1, <1>10 DEF TimeToCheckpoint, FilesInv
  <1>11. CASE TimeToCheckpointGPU
    BY <1>1, <1>11 DEF TimeToCheckpointGPU, FilesInv
  <1>12. CASE EndIntegral
    BY <1>1, <1>12 DEF EndIntegral, FilesInv
  <1>13. CASE IntegralFails
    BY <1>1, <1>13 DEF IntegralFails, FilesInv
  <1>14. CASE FinalCheckpoint
    BY <1>1, <1>14 DEF FinalCheckpoint, FilesInv
  <1>15. CASE Open
    BY <1>1, <1>15 DEF Open, FilesInv
  <1>16. CASE WriteState
    BY <1>1, <1>16 DEF WriteState, FilesInv, Saved
  <1>17. CASE WriteTruncated
    BY <1>1, <1>17 DEF WriteTruncated, FilesInv
  <1>18. CASE RenameTmp
    <2>1. WholeOK(Saved, task.useCL)
      <3>1. Working /\ Writing
        BY <1>18 DEF RenameTmp, Working, Writing
      <3>2. printed => cut = NCuts
        BY <1>1, <3>1 DEF ControlInv, TypeOK
      <3>3. esWU = apWU
        BY <1>1, <3>1 DEF ControlInv
      <3>4. QED
        BY <1>1, <3>1, <3>2, <3>3, SavedFields DEF SumsInv, WholeOK
    <2>2. WholeOK(Torn, task.useCL)
      BY NoKinds DEF WholeOK
    <2>3. QED
      BY <1>1, <1>18, <2>1, <2>2 DEF RenameTmp, FilesInv, TypeOK
  <1>19. CASE WriteFails
    BY <1>1, <1>19 DEF WriteFails, FilesInv, TypeOK
  <1>20. CASE Likelihood
    BY <1>1, <1>20 DEF Likelihood, FilesInv
  <1>21. CASE StarPointsFail
    BY <1>1, <1>21 DEF StarPointsFail, FilesInv
  <1>22. CASE PrintResults
    BY <1>1, <1>22 DEF PrintResults, FilesInv
  <1>23. CASE NextWU
    BY <1>1, <1>23 DEF NextWU, FilesInv
  <1>24. CASE Cleanup
    BY <1>1, <1>24, NoKinds DEF Cleanup, FilesInv, WholeOK
  <1>25. CASE Finish
    BY <1>1, <1>25 DEF Finish, FilesInv
  <1>26. CASE Crash
    BY <1>1, <1>26 DEF Crash, Critical, FilesInv
  <1>27. CASE Over
    BY <1>1, <1>27 DEF Over, FilesInv, Saved
  <1>28. CASE UNCHANGED vars
    BY <1>1, <1>28 DEF FilesInv, Saved
  <1>30. CASE EvaluateFails
    BY <1>1, <1>30, NoKinds DEF EvaluateFails, FilesInv, WholeOK
  <1>29. QED
    BY <1>2, <1>3, <1>4, <1>5, <1>6, <1>7, <1>8, <1>9, <1>10, <1>11, <1>12, <1>13, <1>14, <1>15,
       <1>16, <1>17, <1>18, <1>19, <1>20, <1>21, <1>22, <1>23, <1>24, <1>25, <1>26, <1>27,
       <1>28, <1>30 DEF Next, Evaluate, Integrate, WriteCheckpoint, Conclude

\* A checkpoint is left behind only by a process that has read it.
LEMMA ResumeStep ==
    ASSUME IInv, [Next]_vars
    PROVE  ResumeInv'
  <1> USE DEF ctl, es, vars
  <1>1. TypeOK /\ ControlInv /\ ResumeInv /\ (ckpt.kind = "whole" => ckpt.wu \in WUs /\ ckpt.wu \in Nat)
    BY Typed, Small DEF IInv
  <1>2. CASE Start
    BY <1>1, <1>2 DEF Start, ResumeInv, ControlInv, TypeOK, Working
  <1>3. CASE EvaluateNew
    BY <1>1, <1>3 DEF EvaluateNew, Fresh, ResumeInv, ControlInv, TypeOK, Working
  <1>4. CASE ReadFails
    BY <1>1, <1>4, NoKinds DEF ReadFails, ResumeInv
  <1>5. CASE SkipToCheckpointed
    <2>1. ckpt.wu \in Nat /\ apWU' = ckpt.wu - 1 /\ pc' = "next" /\ ckpt' = ckpt
      BY <1>1, <1>5 DEF SkipToCheckpointed
    <2>2. QED
      BY <2>1 DEF ResumeInv
  <1>6. CASE SkipPrinted
    BY <1>1, <1>6 DEF SkipPrinted, Read, ResumeInv, ControlInv, TypeOK, Working
  <1>7. CASE EvaluateResumed
    BY <1>1, <1>7 DEF EvaluateResumed, Read, ResumeInv, ControlInv, TypeOK, Working
  <1>8. CASE MuStep
    BY <1>1, <1>8 DEF MuStep, Here, ResumeInv, ControlInv, TypeOK, Working
  <1>9. CASE RunNuStep
    BY <1>1, <1>9 DEF RunNuStep, ResumeInv, ControlInv, TypeOK, Working
  <1>10. CASE TimeToCheckpoint
    BY <1>1, <1>10 DEF TimeToCheckpoint, ResumeInv, ControlInv, TypeOK, Working
  <1>11. CASE TimeToCheckpointGPU
    BY <1>1, <1>11 DEF TimeToCheckpointGPU, ResumeInv, ControlInv, TypeOK, Working
  <1>12. CASE EndIntegral
    BY <1>1, <1>12 DEF EndIntegral, ResumeInv, ControlInv, TypeOK, Working
  <1>13. CASE IntegralFails
    BY <1>1, <1>13 DEF IntegralFails, ResumeInv, ControlInv, TypeOK, Working
  <1>14. CASE FinalCheckpoint
    BY <1>1, <1>14 DEF FinalCheckpoint, ResumeInv, ControlInv, TypeOK, Working
  <1>15. CASE Open
    BY <1>1, <1>15 DEF Open, ResumeInv, ControlInv, TypeOK, Working
  <1>16. CASE WriteState
    BY <1>1, <1>16 DEF WriteState, ResumeInv, ControlInv, TypeOK, Working
  <1>17. CASE WriteTruncated
    BY <1>1, <1>17 DEF WriteTruncated, ResumeInv, ControlInv, TypeOK, Working
  <1>18. CASE RenameTmp
    BY <1>1, <1>18 DEF RenameTmp, ResumeInv, ControlInv, TypeOK, Working
  <1>19. CASE WriteFails
    BY <1>1, <1>19 DEF WriteFails, ResumeInv, ControlInv, TypeOK, Working
  <1>20. CASE Likelihood
    BY <1>1, <1>20 DEF Likelihood, ResumeInv, ControlInv, TypeOK, Working
  <1>21. CASE StarPointsFail
    BY <1>1, <1>21 DEF StarPointsFail, ResumeInv, ControlInv, TypeOK, Working
  <1>22. CASE PrintResults
    BY <1>1, <1>22 DEF PrintResults, ResumeInv, ControlInv, TypeOK, Working
  <1>23. CASE NextWU
    <2>1. apWU \in 0..TotalWUs
      BY <1>1 DEF TypeOK
    <2>2. /\ pc' \in {"eval", "exit"} /\ apWU' = apWU + 1 /\ ckpt' = ckpt /\ ignore' = ignore
          /\ blind' = blind /\ pc = "next"
      BY <1>23 DEF NextWU
    <2>3. ckpt.kind = "whole" /\ ~ignore /\ ~blind => ckpt.wu >= apWU + 1
      BY <1>1, <2>1, <2>2 DEF ResumeInv
    <2>4. QED
      BY <2>2, <2>3 DEF ResumeInv
  <1>24. CASE Cleanup
    BY <1>1, <1>24, NoKinds DEF Cleanup, ResumeInv
  <1>25. CASE Finish
    BY <1>1, <1>25 DEF Finish, ResumeInv, ControlInv, TypeOK, Working
  <1>26. CASE Crash
    BY <1>1, <1>26 DEF Crash, Critical, ResumeInv, ControlInv, TypeOK, Working
  <1>27. CASE Over
    BY <1>1, <1>27 DEF Over, ResumeInv, ControlInv, TypeOK, Working
  <1>28. CASE UNCHANGED vars
    BY <1>1, <1>28 DEF ResumeInv, ControlInv, TypeOK, Working
  <1>30. CASE EvaluateFails
    BY <1>1, <1>30, NoKinds DEF EvaluateFails, ResumeInv
  <1>29. QED
    BY <1>2, <1>3, <1>4, <1>5, <1>6, <1>7, <1>8, <1>9, <1>10, <1>11, <1>12, <1>13, <1>14, <1>15,
       <1>16, <1>17, <1>18, <1>19, <1>20, <1>21, <1>22, <1>23, <1>24, <1>25, <1>26, <1>27,
       <1>28, <1>30 DEF Next, Evaluate, Integrate, WriteCheckpoint, Conclude

LEMMA SavedPosition ==
    /\ Position(Saved) = Pos(esWU, cut, nu, mu) + IF printed THEN 1 ELSE 0
    /\ Position(Saved)' = Pos(esWU', cut', nu', mu') + IF printed' THEN 1 ELSE 0
  BY PosOf DEF Saved

LEMMA CheckpointPosition ==
    ASSUME TypeOK, ckpt.kind = "whole"
    PROVE  Position(ckpt) \in Nat
  <1>1. /\ ckpt.wu \in Nat /\ ckpt.cut \in Nat /\ ckpt.nu \in Nat /\ ckpt.mu \in Nat
        /\ ckpt.printed \in BOOLEAN
    BY Typed DEF WUs
  <1>2. Pos(ckpt.wu, ckpt.cut, ckpt.nu, ckpt.mu) \in Nat
    BY <1>1, PosSteps
  <1>3. QED
    BY <1>1, <1>2, PosOf

\* The position of the process never falls behind a checkpoint of its own.
LEMMA AheadStep ==
    ASSUME IInv, [Next]_vars
    PROVE  AheadInv'
  <1> USE DEF ctl, es, vars
  <1>1. /\ TypeOK /\ ControlInv /\ AheadInv
        /\ ckpt.kind = "whole" => /\ ckpt.wu \in Nat /\ ckpt.wu \in WUs /\ ckpt.printed \in BOOLEAN
        /\ WUs \subseteq Nat
    BY Typed, Small DEF IInv
  <1>2. CASE Start
    BY <1>1, <1>2 DEF Start, AheadInv, ControlInv, TypeOK, Working
  <1>3. CASE EvaluateNew
    <2>1. CASE ckpt.kind = "whole" /\ ~ckpt.printed
      <3>1. ckpt # NoFile
        BY <2>1, NoKinds
      <3>2. ignore /\ ckpt.wu < apWU /\ apWU \in Nat
        BY <1>1, <1>3, <2>1, <3>1 DEF EvaluateNew, AheadInv, ControlInv
      <3>3. /\ ckpt.cut \in 0..NCuts /\ ckpt.nu \in 0..NuSteps /\ ckpt.mu \in 0..(MuSteps - 1)
            /\ ckpt.nu = NuSteps => ckpt.mu = 0
            /\ ckpt.cut = NCuts => ckpt.nu = 0 /\ ckpt.mu = 0
        BY <1>1, <2>1, Typed DEF IInv, FilesInv, WholeOK
      <3>4. Pos(ckpt.wu, ckpt.cut, ckpt.nu, ckpt.mu) <= Pos(apWU, 0, 0, 0)
        BY <1>1, <2>1, <3>2, <3>3, PosUnits
      <3>5. Position(ckpt) = Pos(ckpt.wu, ckpt.cut, ckpt.nu, ckpt.mu)
        <4>1. ckpt.wu \in Nat /\ ckpt.cut \in Nat /\ ckpt.nu \in Nat /\ ckpt.mu \in Nat
          BY <1>1, <2>1, <3>3
        <4>2. Pos(ckpt.wu, ckpt.cut, ckpt.nu, ckpt.mu) \in Nat
          BY <4>1, PosSteps
        <4>3. QED
          BY <2>1, <4>2, PosOf
      <3>6. Position(Saved)' = Pos(apWU, 0, 0, 0)
        <4>1. Position(Saved)' = Pos(apWU, 0, 0, 0) + 0
          BY <1>3, SavedPosition DEF EvaluateNew, Fresh
        <4>2. Pos(apWU, 0, 0, 0) \in Nat
          BY <3>2, PosSteps
        <4>3. QED
          BY <4>1, <4>2
      <3>7. QED
        BY <1>1, <1>3, <3>2, <3>4, <3>5, <3>6 DEF EvaluateNew, AheadInv
    <2>2. CASE ~(ckpt.kind = "whole" /\ ~ckpt.printed)
      BY <1>3, <2>2 DEF EvaluateNew, AheadInv
    <2>3. QED
      BY <2>1, <2>2
  <1>4. CASE ReadFails
    BY <1>1, <1>4, NoKinds DEF ReadFails, AheadInv
  <1>5. CASE SkipToCheckpointed
    BY <1>1, <1>5 DEF SkipToCheckpointed, AheadInv
  <1>6. CASE SkipPrinted
    BY <1>1, <1>6 DEF SkipPrinted, AheadInv
  <1>7. CASE EvaluateResumed
    <2>1. Position(Saved)' = Position(ckpt)
      BY <1>7, SavedPosition, PosOf DEF EvaluateResumed, Read
    <2>2. Position(ckpt) \in Nat
      BY <1>1, <1>7, CheckpointPosition DEF EvaluateResumed
    <2>3. QED
      BY <1>1, <1>7, <2>1, <2>2 DEF EvaluateResumed, AheadInv
  <1>8. CASE MuStep
    <2>1. /\ ckpt' = ckpt /\ ignore' = ignore /\ apWU' = apWU /\ Working /\ Working'
      BY <1>8 DEF MuStep, Working
    <2>2. /\ esWU \in Nat /\ cut \in Nat /\ nu \in Nat /\ mu \in Nat
          /\ esWU' = esWU /\ printed' \in BOOLEAN /\ printed \in BOOLEAN
      BY <1>1, <1>8, TypeStep DEF MuStep, TypeOK, WUs
    <2>3. Pos(esWU', cut', nu', mu') >= Pos(esWU, cut, nu, mu)
          /\ Pos(esWU', cut', nu', mu') \in Nat /\ Pos(esWU, cut, nu, mu) \in Nat
      <3>1. /\ mu + 1 = MuSteps => mu' = 0 /\ nu' = nu + 1
            /\ mu + 1 # MuSteps => mu' = mu + 1 /\ nu' = nu
            /\ cut' = cut
        BY <1>8 DEF MuStep
      <3>2. /\ Pos(esWU, cut, nu, mu) \in Nat /\ Pos(esWU, cut, nu, mu + 1) = Pos(esWU, cut, nu, mu) + 1
            /\ mu + 1 = MuSteps => Pos(esWU, cut, nu + 1, 0) = Pos(esWU, cut, nu, mu) + 1
        BY <2>2, PosSteps
      <3>3. QED
        BY <2>2, <3>1, <3>2
    <2>4. printed => printed'
      BY <1>8 DEF MuStep
    <2>5. Position(Saved)' >= Position(Saved) /\ Position(Saved) \in Nat /\ Position(Saved)' \in Nat
      BY <2>2, <2>3, <2>4, SavedPosition
    <2>6. ckpt.kind = "whole" => Position(ckpt) \in Nat
      BY <1>1, CheckpointPosition
    <2>7. pc' \notin {"eval", "next"}
      BY <2>1 DEF Working
    <2>8. QED
      BY <1>1, <2>1, <2>5, <2>6, <2>7 DEF AheadInv
  <1>9. CASE RunNuStep
    <2>1. /\ ckpt' = ckpt /\ ignore' = ignore /\ apWU' = apWU /\ Working /\ Working'
      BY <1>9 DEF RunNuStep, Working
    <2>2. /\ esWU \in Nat /\ cut \in Nat /\ nu \in Nat /\ mu \in Nat
          /\ esWU' = esWU /\ printed' \in BOOLEAN /\ printed \in BOOLEAN
      BY <1>1, <1>9, TypeStep DEF RunNuStep, TypeOK, WUs
    <2>3. Pos(esWU', cut', nu', mu') >= Pos(esWU, cut, nu, mu)
          /\ Pos(esWU', cut', nu', mu') \in Nat /\ Pos(esWU, cut, nu, mu) \in Nat
      <3>1. mu' = mu /\ nu' = nu + 1 /\ cut' = cut
        BY <1>9 DEF RunNuStep
      <3>2. /\ Pos(esWU, cut, nu, mu) \in Nat /\ Pos(esWU, cut, nu + 1, mu) \in Nat
            /\ Pos(esWU, cut, nu + 1, mu) >= Pos(esWU, cut, nu, mu)
        BY <2>2, PosSteps
      <3>3. QED
        BY <2>2, <3>1, <3>2
    <2>4. printed => printed'
      BY <1>9 DEF RunNuStep
    <2>5. Position(Saved)' >= Position(Saved) /\ Position(Saved) \in Nat /\ Position(Saved)' \in Nat
      BY <2>2, <2>3, <2>4, SavedPosition
    <2>6. ckpt.kind = "whole" => Position(ckpt) \in Nat
      BY <1>1, CheckpointPosition
    <2>7. pc' \notin {"eval", "next"}
      BY <2>1 DEF Working
    <2>8. QED
      BY <1>1, <2>1, <2>5, <2>6, <2>7 DEF AheadInv
  <1>10. CASE TimeToCheckpoint
    BY <1>1, <1>10, SavedPosition DEF TimeToCheckpoint, AheadInv, Working
  <1>11. CASE TimeToCheckpointGPU
    BY <1>1, <1>11, SavedPosition DEF TimeToCheckpointGPU, AheadInv, Working
  <1>12. CASE EndIntegral
    <2>1. /\ ckpt' = ckpt /\ ignore' = ignore /\ apWU' = apWU /\ Working /\ Working'
      BY <1>12 DEF EndIntegral, Working
    <2>2. /\ esWU \in Nat /\ cut \in Nat /\ nu \in Nat /\ mu \in Nat
          /\ esWU' = esWU /\ printed' \in BOOLEAN /\ printed \in BOOLEAN
      BY <1>1, <1>12, TypeStep DEF EndIntegral, TypeOK, WUs
    <2>3. Pos(esWU', cut', nu', mu') >= Pos(esWU, cut, nu, mu)
          /\ Pos(esWU', cut', nu', mu') \in Nat /\ Pos(esWU, cut, nu, mu) \in Nat
      <3>1. mu' = 0 /\ mu = 0 /\ nu' = 0 /\ nu = NuSteps /\ cut' = cut + 1
        BY <1>1, <1>12 DEF EndIntegral, IInv, SumsInv, Working
      <3>2. Pos(esWU, cut, nu, mu) \in Nat /\ Pos(esWU, cut + 1, 0, 0) = Pos(esWU, cut, NuSteps, 0)
        BY <2>2, PosSteps
      <3>3. QED
        BY <2>2, <3>1, <3>2
    <2>4. printed => printed'
      BY <1>12 DEF EndIntegral
    <2>5. Position(Saved)' >= Position(Saved) /\ Position(Saved) \in Nat /\ Position(Saved)' \in Nat
      BY <2>2, <2>3, <2>4, SavedPosition
    <2>6. ckpt.kind = "whole" => Position(ckpt) \in Nat
      BY <1>1, CheckpointPosition
    <2>7. pc' \notin {"eval", "next"}
      BY <2>1 DEF Working
    <2>8. QED
      BY <1>1, <2>1, <2>5, <2>6, <2>7 DEF AheadInv
  <1>13. CASE IntegralFails
    BY <1>1, <1>13 DEF IntegralFails, AheadInv, ControlInv, TypeOK, Working
  <1>14. CASE FinalCheckpoint
    BY <1>1, <1>14, SavedPosition DEF FinalCheckpoint, AheadInv, Working
  <1>15. CASE Open
    BY <1>1, <1>15, SavedPosition DEF Open, AheadInv, Working
  <1>16. CASE WriteState
    BY <1>1, <1>16, SavedPosition DEF WriteState, AheadInv, Working
  <1>17. CASE WriteTruncated
    BY <1>1, <1>17, SavedPosition DEF WriteTruncated, AheadInv, Working
  <1>18. CASE RenameTmp
    <2>1. CASE tmp = Torn
      BY <1>18, <2>1, NoKinds DEF RenameTmp, AheadInv
    <2>2. CASE tmp = Saved
      <3>1. ckpt' = Saved /\ ckpt'.wu = esWU /\ ckpt'.printed = printed /\ esWU = apWU /\ esWU \in Nat
        BY <1>1, <1>18, <2>2, SavedFields DEF RenameTmp, ControlInv, Working, TypeOK, WUs
      <3>2. Position(Saved)' = Position(Saved)
        BY <1>18, SavedPosition DEF RenameTmp
      <3>3. Position(Saved) \in Nat
        <4>1. /\ esWU \in Nat /\ cut \in Nat /\ nu \in Nat /\ mu \in Nat /\ printed \in BOOLEAN
          BY <1>1 DEF TypeOK, WUs
        <4>2. Pos(esWU, cut, nu, mu) \in Nat
          BY <4>1, PosSteps
        <4>3. QED
          BY <4>1, <4>2, SavedPosition
      <3>4. pc' = "next" => printed
        BY <1>1, <1>18 DEF RenameTmp, ControlInv, Working, Writing
      <3>5. pc' # "eval" /\ apWU' = apWU
        BY <1>1, <1>18 DEF RenameTmp, TypeOK
      <3>6. Position(ckpt') = Position(Saved)
        BY <3>1
      <3>7. QED
        BY <3>1, <3>2, <3>3, <3>4, <3>5, <3>6 DEF AheadInv
    <2>3. QED
      BY <1>1, <1>18, <2>1, <2>2 DEF RenameTmp, IInv, FilesInv
  <1>19. CASE WriteFails
    <2>1. pc' # "eval"
      BY <1>1, <1>19 DEF WriteFails, TypeOK
    <2>2. QED
      BY <1>1, <1>19, <2>1, SavedPosition DEF WriteFails, AheadInv, Working
  <1>20. CASE Likelihood
    BY <1>1, <1>20, SavedPosition DEF Likelihood, AheadInv, Working
  <1>21. CASE StarPointsFail
    BY <1>1, <1>21 DEF StarPointsFail, AheadInv, ControlInv, TypeOK, Working
  <1>22. CASE PrintResults
    <2>1. /\ ckpt' = ckpt /\ ignore' = ignore /\ apWU' = apWU /\ Working /\ Working'
      BY <1>22 DEF PrintResults, Working
    <2>2. /\ esWU \in Nat /\ cut \in Nat /\ nu \in Nat /\ mu \in Nat
          /\ esWU' = esWU /\ printed' \in BOOLEAN /\ printed \in BOOLEAN
      BY <1>1, <1>22, TypeStep DEF PrintResults, TypeOK, WUs
    <2>3. Pos(esWU', cut', nu', mu') >= Pos(esWU, cut, nu, mu)
          /\ Pos(esWU', cut', nu', mu') \in Nat /\ Pos(esWU, cut, nu, mu) \in Nat
      <3>1. mu' = mu /\ nu' = nu /\ cut' = cut
        BY <1>22 DEF PrintResults
      <3>2. Pos(esWU, cut, nu, mu) \in Nat
        BY <2>2, PosSteps
      <3>3. QED
        BY <2>2, <3>1, <3>2
    <2>4. printed => printed'
      BY <1>22 DEF PrintResults
    <2>5. Position(Saved)' >= Position(Saved) /\ Position(Saved) \in Nat /\ Position(Saved)' \in Nat
      BY <2>2, <2>3, <2>4, SavedPosition
    <2>6. ckpt.kind = "whole" => Position(ckpt) \in Nat
      BY <1>1, CheckpointPosition
    <2>7. pc' \notin {"eval", "next"}
      BY <2>1 DEF Working
    <2>8. QED
      BY <1>1, <2>1, <2>5, <2>6, <2>7 DEF AheadInv
  <1>23. CASE NextWU
    <2>1. apWU \in Nat /\ pc = "next" /\ pc' \in {"eval", "exit"} /\ apWU' = apWU + 1 /\ ckpt' = ckpt /\ ignore' = ignore
      BY <1>1, <1>23 DEF NextWU, TypeOK
    <2>2. ckpt.kind = "whole" /\ ~ckpt.printed /\ ignore => ckpt.wu < apWU + 1
      BY <1>1, <2>1 DEF AheadInv
    <2>3. QED
      BY <2>1, <2>2 DEF AheadInv, Working
  <1>24. CASE Cleanup
    BY <1>1, <1>24, NoKinds DEF Cleanup, AheadInv
  <1>25. CASE Finish
    BY <1>1, <1>25 DEF Finish, AheadInv, ControlInv, TypeOK, Working
  <1>26. CASE Crash
    BY <1>1, <1>26 DEF Crash, AheadInv
  <1>27. CASE Over
    BY <1>1, <1>27, SavedPosition DEF Over, AheadInv, Working
  <1>28. CASE UNCHANGED vars
    BY <1>1, <1>28, SavedPosition DEF AheadInv, Working
  <1>30. CASE EvaluateFails
    <2>1. /\ pc = "eval" /\ pc' = "next" /\ ckpt' = ckpt /\ ignore' = ignore /\ apWU' = apWU
      BY <1>30 DEF EvaluateFails
    <2>2. ckpt.kind = "whole" /\ ~ckpt.printed /\ ignore => ckpt.wu <= apWU
      <3>1. apWU \in Nat /\ (ckpt.kind = "whole" => ckpt.wu \in Nat)
        BY <1>1, Typed, Small DEF IInv
      <3>2. QED
        BY <1>1, <2>1, <3>1 DEF AheadInv
    <2>3. QED
      BY <2>1, <2>2 DEF AheadInv, Working
  <1>29. QED
    BY <1>2, <1>3, <1>4, <1>5, <1>6, <1>7, <1>8, <1>9, <1>10, <1>11, <1>12, <1>13, <1>14, <1>15,
       <1>16, <1>17, <1>18, <1>19, <1>20, <1>21, <1>22, <1>23, <1>24, <1>25, <1>26, <1>27,
       <1>28, <1>30 DEF Next, Evaluate, Integrate, WriteCheckpoint, Conclude

\* Where nothing fails, no work unit is passed over before it is printed.
LEMMA PrintedStep ==
    ASSUME IInv, [Next]_vars
    PROVE  PrintedInv'
  <1> USE DEF ctl, es, vars
  <1>1. /\ TypeOK /\ ControlInv /\ PrintedInv /\ task.mayFail \in BOOLEAN
        /\ ckpt.kind = "whole" => /\ ckpt.wu \in WUs /\ ckpt.wu \in Nat /\ ckpt.printed \in BOOLEAN
        /\ apWU \in Nat
    BY Typed, Small DEF IInv
  <1>2. CASE Start
    BY <1>1, <1>2 DEF Start, PrintedInv, Writing
  <1>3. CASE EvaluateNew
    BY <1>1, <1>3 DEF EvaluateNew, PrintedInv, Writing
  <1>4. CASE ReadFails
    BY <1>1, <1>4, NoKinds DEF ReadFails, PrintedInv, Writing
  <1>5. CASE SkipToCheckpointed
    <2>1. apWU' = ckpt.wu - 1 /\ ckpt.wu \in Nat /\ ckpt.wu > apWU /\ ckpt.wu \in WUs /\ apWU' \in WUs
      <3>1. apWU' = ckpt.wu - 1 /\ ckpt.wu \in Nat /\ ckpt.wu > apWU /\ ckpt.wu \in WUs
        BY <1>1, <1>5 DEF SkipToCheckpointed
      <3>2. QED
        BY <1>1, <3>1 DEF WUs
    <2>2. apWU' < ckpt.wu
      BY <2>1
    <2>3. \A w \in WUs : w < apWU' => w < ckpt.wu
      BY <2>1, Small
    <2>4. QED
      BY <1>1, <1>5, <2>1, <2>2, <2>3 DEF SkipToCheckpointed, PrintedInv, Writing
  <1>6. CASE SkipPrinted
    <2>1. ckpt.wu = apWU
      BY <1>1, <1>6 DEF SkipPrinted, IInv, ResumeInv
    <2>2. QED
      BY <1>1, <1>6, <2>1 DEF SkipPrinted, PrintedInv, Writing
  <1>7. CASE EvaluateResumed
    BY <1>1, <1>7 DEF EvaluateResumed, PrintedInv, Writing
  <1>8. CASE MuStep
    BY <1>1, <1>8 DEF MuStep, Here, PrintedInv, Writing
  <1>9. CASE RunNuStep
    BY <1>1, <1>9 DEF RunNuStep, PrintedInv, Writing
  <1>10. CASE TimeToCheckpoint
    BY <1>1, <1>10 DEF TimeToCheckpoint, PrintedInv, Writing
  <1>11. CASE TimeToCheckpointGPU
    BY <1>1, <1>11 DEF TimeToCheckpointGPU, PrintedInv, Writing
  <1>12. CASE EndIntegral
    BY <1>1, <1>12 DEF EndIntegral, PrintedInv, Writing
  <1>13. CASE IntegralFails
    BY <1>1, <1>13 DEF IntegralFails, PrintedInv, Writing
  <1>14. CASE FinalCheckpoint
    BY <1>1, <1>14 DEF FinalCheckpoint, PrintedInv, Writing
  <1>15. CASE Open
    BY <1>1, <1>15 DEF Open, PrintedInv, Writing
  <1>16. CASE WriteState
    BY <1>1, <1>16, SavedFields DEF WriteState, PrintedInv, Writing
  <1>17. CASE WriteTruncated
    BY <1>1, <1>17 DEF WriteTruncated, PrintedInv, Writing
  <1>18. CASE RenameTmp
    <2>1. ~task.mayFail => tmp = Saved /\ ckpt' # Torn
      BY <1>1, <1>18, SavedFields DEF RenameTmp, IInv, FilesInv, PrintedInv
    <2>2. esWU = apWU /\ (printed => back = "next") /\ (pc' = "next" => back = "next")
      BY <1>1, <1>18 DEF RenameTmp, ControlInv, Working
    <2>3. ~task.mayFail => ckpt'.wu = apWU /\ ckpt'.printed = printed
      BY <1>18, <2>1, <2>2, SavedFields DEF RenameTmp
    <2>4. pc' \notin {"exit", "finish", "done", "open", "write", "rename"}
      BY <1>1, <1>18 DEF RenameTmp, TypeOK
    <2>5. QED
      BY <1>1, <1>18, <2>1, <2>2, <2>3, <2>4 DEF RenameTmp, PrintedInv, Writing
  <1>19. CASE WriteFails
    BY <1>1, <1>19 DEF WriteFails, PrintedInv, Writing
  <1>20. CASE Likelihood
    BY <1>1, <1>20 DEF Likelihood, PrintedInv, Writing
  <1>21. CASE StarPointsFail
    BY <1>1, <1>21 DEF StarPointsFail, PrintedInv, Writing
  <1>22. CASE PrintResults
    <2>1. /\ apWU \in WUs /\ prints \in [WUs -> 0..MaxPrints] /\ prints' = CountPrint(apWU)
      BY <1>1, <1>22 DEF PrintResults, ControlInv, Working, TypeOK
    <2>2. \A w \in WUs : prints[w] \in Nat /\ prints'[w] \in Nat /\ prints'[w] >= prints[w]
      BY <2>1 DEF CountPrint
    <2>3. prints'[apWU] >= 1
      BY <2>1 DEF CountPrint
    <2>4. \A w \in WUs : prints[w] >= 1 => prints'[w] >= 1
      BY <2>2
    <2>5. QED
      BY <1>1, <1>22, <2>3, <2>4 DEF PrintResults, PrintedInv, Writing
  <1>23. CASE NextWU
    <2>1. /\ apWU \in WUs /\ apWU' = apWU + 1 /\ pc = "next"
          /\ pc' = (IF apWU + 1 < TotalWUs THEN "eval" ELSE "exit")
      BY <1>1, <1>23 DEF NextWU, ControlInv
    <2>2. \A w \in WUs : w < apWU' => w < apWU \/ w = apWU
      BY <1>1, <2>1, Small
    <2>3. pc' = "exit" => apWU' = TotalWUs
      BY <2>1 DEF WUs
    <2>4. QED
      BY <1>1, <1>23, <2>1, <2>2, <2>3 DEF NextWU, PrintedInv, Writing
  <1>24. CASE Cleanup
    BY <1>1, <1>24, NoKinds DEF Cleanup, PrintedInv, Writing
  <1>25. CASE Finish
    BY <1>1, <1>25 DEF Finish, PrintedInv, Writing
  <1>26. CASE Crash
    <2>1. \A w \in WUs : ~(w < 0)
      BY Small
    <2>2. QED
      BY <1>1, <1>26, <2>1 DEF Crash, PrintedInv, Writing
  <1>27. CASE Over
    BY <1>1, <1>27 DEF Over, PrintedInv, Writing
  <1>28. CASE UNCHANGED vars
    BY <1>1, <1>28 DEF PrintedInv, Writing
  <1>30. CASE EvaluateFails
    BY <1>1, <1>30 DEF EvaluateFails, PrintedInv, ControlInv, Writing
  <1>29. QED
    BY <1>2, <1>3, <1>4, <1>5, <1>6, <1>7, <1>8, <1>9, <1>10, <1>11, <1>12, <1>13, <1>14, <1>15,
       <1>16, <1>17, <1>18, <1>19, <1>20, <1>21, <1>22, <1>23, <1>24, <1>25, <1>26, <1>27,
       <1>28, <1>30 DEF Next, Evaluate, Integrate, WriteCheckpoint, Conclude

\* The first result stays in the checkpoint once it was printed.
LEMMA FirstStep ==
    ASSUME IInv, [Next]_vars
    PROVE  FirstInv'
  <1> USE DEF ctl, es, vars
  <1>1. /\ TypeOK /\ ControlInv /\ PrintedInv /\ FirstInv /\ apWU \in Nat /\ prints[0] \in Nat
        /\ ckpt.kind = "whole" => /\ ckpt.wu \in WUs /\ ckpt.wu \in Nat /\ ckpt.printed \in BOOLEAN
    BY Typed, Small DEF IInv
  <1>2. CASE Start
    BY <1>1, <1>2 DEF Start, FirstInv, Undisturbed, Working, Writing, PrintedInv
  <1>3. CASE EvaluateNew
    BY <1>1, <1>3, NoKinds DEF EvaluateNew, FirstInv, Undisturbed, Working, Writing, ControlInv
  <1>4. CASE ReadFails
    BY <1>1, <1>4 DEF ReadFails, FirstInv, Undisturbed, Working, Writing, PrintedInv
  <1>5. CASE SkipToCheckpointed
    BY <1>1,
       <1>5 DEF SkipToCheckpointed, Read, FirstInv, Undisturbed, Working, Writing, PrintedInv
  <1>6. CASE SkipPrinted
    BY <1>1, <1>6 DEF SkipPrinted, Read, FirstInv, Undisturbed, Working, Writing, PrintedInv
  <1>7. CASE EvaluateResumed
    BY <1>1, <1>7 DEF EvaluateResumed, FirstInv, Undisturbed, Working, Writing, ControlInv
  <1>8. CASE MuStep
    BY <1>1, <1>8 DEF MuStep, Here, FirstInv, Undisturbed, Working, Writing, PrintedInv
  <1>9. CASE RunNuStep
    BY <1>1, <1>9 DEF RunNuStep, FirstInv, Undisturbed, Working, Writing, PrintedInv
  <1>10. CASE TimeToCheckpoint
    BY <1>1, <1>10 DEF TimeToCheckpoint, FirstInv, Undisturbed, Working, Writing, PrintedInv
  <1>11. CASE TimeToCheckpointGPU
    BY <1>1, <1>11 DEF TimeToCheckpointGPU, FirstInv, Undisturbed, Working, Writing, PrintedInv
  <1>12. CASE EndIntegral
    BY <1>1, <1>12 DEF EndIntegral, FirstInv, Undisturbed, Working, Writing, PrintedInv
  <1>13. CASE IntegralFails
    BY <1>1, <1>13 DEF IntegralFails, FirstInv, Undisturbed, Working, Writing, PrintedInv
  <1>14. CASE FinalCheckpoint
    BY <1>1, <1>14 DEF FinalCheckpoint, FirstInv, Undisturbed, Working, Writing, PrintedInv
  <1>15. CASE Open
    BY <1>1, <1>15 DEF Open, FirstInv, Undisturbed, Working, Writing, PrintedInv
  <1>16. CASE WriteState
    BY <1>1, <1>16 DEF WriteState, FirstInv, Undisturbed, Working, Writing, PrintedInv
  <1>17. CASE WriteTruncated
    BY <1>1, <1>17 DEF WriteTruncated, FirstInv, Undisturbed, Working, Writing, PrintedInv
  <1>18. CASE RenameTmp
    <2>1. Undisturbed => ckpt'.kind = "whole" /\ ckpt'.wu = apWU /\ ckpt'.printed = printed
      BY <1>1, <1>18, SavedFields DEF RenameTmp, IInv, FilesInv, PrintedInv, ControlInv, Working, Undisturbed
    <2>2. printed <=> back = "next"
      BY <1>1, <1>18 DEF RenameTmp, ControlInv, Working, Writing
    <2>3. pc' = back /\ pc' \notin {"open", "write", "rename"} /\ pc = "rename"
      BY <1>1, <1>18 DEF RenameTmp, TypeOK
    <2>4. QED
      BY <1>1, <1>18, <2>1, <2>2, <2>3 DEF RenameTmp, FirstInv, Undisturbed, Working, Writing
  <1>19. CASE WriteFails
    BY <1>1, <1>19 DEF WriteFails, FirstInv, Undisturbed, Working, Writing, PrintedInv
  <1>20. CASE Likelihood
    BY <1>1, <1>20 DEF Likelihood, FirstInv, Undisturbed, Working, Writing, PrintedInv
  <1>21. CASE StarPointsFail
    BY <1>1, <1>21 DEF StarPointsFail, FirstInv, Undisturbed, Working, Writing, PrintedInv
  <1>22. CASE PrintResults
    <2>1. /\ apWU \in WUs /\ prints \in [WUs -> 0..MaxPrints] /\ prints' = CountPrint(apWU) /\ 0 \in WUs
      BY <1>1, <1>22, Small DEF PrintResults, ControlInv, Working, TypeOK
    <2>2. /\ apWU # 0 => prints'[0] = prints[0]
          /\ apWU = 0 /\ prints[0] = 0 => prints'[0] = 1
      BY <2>1 DEF CountPrint
    <2>3. QED
      BY <1>1, <1>22, <2>2 DEF PrintResults, FirstInv, Undisturbed, Working, Writing
  <1>23. CASE NextWU
    <2>1. apWU' # 0 /\ pc' \in {"eval", "exit"} /\ pc = "next"
      BY <1>1, <1>23 DEF NextWU
    <2>2. QED
      BY <1>1, <1>23, <2>1 DEF NextWU, FirstInv, Undisturbed, Working, Writing
  <1>24. CASE Cleanup
    BY <1>1, <1>24 DEF Cleanup, FirstInv, Undisturbed, Working, Writing, PrintedInv
  <1>25. CASE Finish
    BY <1>1, <1>25 DEF Finish, FirstInv, Undisturbed, Working, Writing, PrintedInv
  <1>26. CASE Crash
    BY <1>1, <1>26 DEF Crash, Critical, FirstInv, Undisturbed, Working, Writing, PrintedInv
  <1>27. CASE Over
    BY <1>1, <1>27 DEF Over, FirstInv, Undisturbed, Working, Writing, PrintedInv
  <1>28. CASE UNCHANGED vars
    BY <1>1, <1>28 DEF FirstInv, Undisturbed, Working, Writing, PrintedInv
  <1>30. CASE EvaluateFails
    BY <1>1, <1>30 DEF EvaluateFails, FirstInv, Undisturbed, Working, Writing, PrintedInv
  <1>29. QED
    BY <1>2, <1>3, <1>4, <1>5, <1>6, <1>7, <1>8, <1>9, <1>10, <1>11, <1>12, <1>13, <1>14, <1>15,
       <1>16, <1>17, <1>18, <1>19, <1>20, <1>21, <1>22, <1>23, <1>24, <1>25, <1>26, <1>27,
       <1>28, <1>30 DEF Next, Evaluate, Integrate, WriteCheckpoint, Conclude

LEMMA InitHolds == Init => IInv
  <1> SUFFICES ASSUME Init PROVE IInv
    OBVIOUS
  <1>1. TypeOK
    <2>1. [w \in WUs |-> 0] \in [WUs -> 0..MaxPrints]
      OBVIOUS
    <2>2. QED
      BY <2>1, ZeroType, Small DEF Init, TypeOK
  <1>2. ControlInv /\ SumsInv
    BY DEF Init, ControlInv, SumsInv, Working, Writing
  <1>3. FilesInv /\ ResumeInv /\ AheadInv
    BY NoKinds DEF Init, FilesInv, WholeOK, ResumeInv, AheadInv
  <1>4. PrintedInv
    <2>1. \A w \in WUs : ~(w < 0)
      BY Small
    <2>2. QED
      BY <2>1, NoKinds DEF Init, PrintedInv, Writing
  <1>5. FirstInv
    <2>1. prints[0] = 0
      BY Small DEF Init
    <2>2. QED
      BY <2>1 DEF FirstInv
  <1>6. QED
    BY <1>1, <1>2, <1>3, <1>4, <1>5 DEF IInv

LEMMA NextKeeps == IInv /\ [Next]_vars => IInv'
  BY TypeStep, ControlStep, SumsStep, FilesStep, ResumeStep, AheadStep, PrintedStep, FirstStep DEF IInv

-----------------------------------------------------------------------------
(* The theorems. *)

\* The whole invariant: what the sums, the checkpoint and the prints are at
\* every point of worker() and evaluate().
THEOREM Invariant == Spec => []IInv
  BY InitHolds, NextKeeps, PTL DEF Spec

THEOREM TypeCorrect == Spec => []TypeOK
  <1>1. IInv => TypeOK
    BY DEF IInv
  <1>2. QED
    BY <1>1, Invariant, PTL

\* Whatever calculateIntegrals was interrupted by, each integral that goes into
\* a likelihood has every point of its work unit once and no other.
THEOREM ResultsAreExact == Spec => []ResultsExact
  <1>1. IInv => ResultsExact
    <2> SUFFICES ASSUME IInv, pc \in {"likelihood", "print"}, NEW c \in Cuts
                 PROVE  cuts[c] = Exact(apWU)
      BY DEF ResultsExact
    <2>1. Working /\ cut = NCuts
      BY DEF IInv, ControlInv, Working
    <2>2. c < cut
      BY <2>1 DEF Cuts
    <2>3. QED
      BY <2>1, <2>2 DEF IInv, SumsInv
  <1>2. QED
    BY <1>1, Invariant, PTL

\* worker() leaves no work unit of the bundle out.
THEOREM NothingIsSkipped == Spec => []NothingSkipped
  <1>1. IInv => NothingSkipped
    <2> SUFFICES ASSUME IInv, pc \in {"exit", "finish", "done"}, ~task.mayFail, NEW w \in WUs
                 PROVE  prints[w] >= 1
      BY DEF NothingSkipped
    <2>1. apWU = TotalWUs
      BY DEF IInv, PrintedInv
    <2>2. w < apWU
      BY <2>1, Small
    <2>3. QED
      BY <2>2 DEF IInv, PrintedInv
  <1>2. QED
    BY <1>1, Invariant, PTL

\* evaluate() never prints the first work unit again.
THEOREM FirstIsPrintedOnce == Spec => []FirstPrintedOnce
  <1>1. IInv => FirstPrintedOnce
    BY DEF IInv, FirstInv, FirstPrintedOnce
  <1>2. QED
    BY <1>1, Invariant, PTL

\* Until its work unit is printed, writeCheckpoint replaces a checkpoint only by
\* one that is further on.
THEOREM ProgressIsKept == Spec => ProgressKept
  <1> DEFINE Kept == ckpt.kind = "whole" /\ ckpt'.kind = "whole" /\ ~ckpt.printed
                       => Position(ckpt') >= Position(ckpt)
  <1>1. ASSUME IInv, [Next]_vars PROVE Kept
    <2> USE DEF es, ctl, vars
    <2>1. CASE RenameTmp
      <3>1. tmp = Torn \/ tmp = Saved
        BY <1>1, <2>1 DEF RenameTmp, IInv, FilesInv
      <3>2. CASE tmp = Torn
        BY <2>1, <3>2, NoKinds DEF RenameTmp
      <3>3. CASE tmp = Saved /\ ckpt.kind = "whole" /\ ~ckpt.printed
        <4>1. ignore /\ Working
          BY <1>1, <2>1 DEF RenameTmp, IInv, ControlInv, Working
        <4>2. Position(ckpt) <= Position(Saved) /\ ckpt' = Saved
          BY <1>1, <2>1, <3>3, <4>1 DEF RenameTmp, IInv, AheadInv
        <4>3. Position(ckpt) \in Nat
          BY <1>1, <3>3, CheckpointPosition DEF IInv
        <4>4. Position(Saved) \in Nat
          <5>1. /\ esWU \in Nat /\ cut \in Nat /\ nu \in Nat /\ mu \in Nat /\ printed \in BOOLEAN
            BY <1>1 DEF IInv, TypeOK, WUs
          <5>2. Pos(esWU, cut, nu, mu) \in Nat
            BY <5>1, PosSteps
          <5>3. QED
            BY <5>1, <5>2, SavedPosition
        <4>5. QED
          BY <4>2, <4>3, <4>4
      <3>4. QED
        BY <3>1, <3>2, <3>3
    <2>2. CASE ckpt' = NoFile
      BY <2>2, NoKinds
    <2>3. CASE ckpt' = ckpt
      BY <1>1, <2>3, CheckpointPosition DEF IInv
    <2>4. QED
      BY <1>1, <2>1, <2>2, <2>3 DEF Next, Evaluate, Integrate, WriteCheckpoint, Conclude, Start, EvaluateFails,
         EvaluateNew, ReadFails, SkipToCheckpointed, SkipPrinted, EvaluateResumed, MuStep, RunNuStep, TimeToCheckpoint,
         TimeToCheckpointGPU, EndIntegral, IntegralFails, FinalCheckpoint, Open, WriteState,
         WriteTruncated, WriteFails, Likelihood, StarPointsFail, PrintResults, NextWU, Cleanup, Finish,
         Crash, Over
  <1>2. IInv /\ [Next]_vars => [Kept]_vars
    BY <1>1
  <1>3. QED
    BY <1>2, Invariant, PTL DEF Spec, ProgressKept

=============================================================================
