---------------------------- MODULE CLRun_proofs ----------------------------
(***************************************************************************)
(* Proofs that CLRun keeps its inductive invariant IInv, and so its safety *)
(* properties, for every number of steps, of kills and of failures and all *)
(* work units and command lines.                                           *)
(***************************************************************************)
EXTENDS CLRun, FiniteSetTheorems, TLAPS

USE RunAssumption

-----------------------------------------------------------------------------
(* Bodies.                                                                  *)

LEMMA OptionFields ==
    ASSUME NEW o \in Options
    PROVE  /\ o.lmc \in BOOLEAN /\ o.allowIncest \in BOOLEAN
           /\ o.checkpoints \in {"all", "final", "none"}
  OBVIOUS

LEMMA CardinalityType ==
    ASSUME NEW o, NEW k, NEW b, BodiesOK(b, o, k)
    PROVE  Cardinality(b.resumed) \in Nat
  BY FS_CardinalityType DEF BodiesOK

LEMMA NewBodiesOK ==
    ASSUME NEW o \in Options, NEW k \in Nat
    PROVE  /\ BodiesOK(Bodies0, o, k) /\ Unmoved(Bodies0) /\ FaultsOK(Bodies0, o)
           /\ Cardinality(Bodies0.resumed) = 0
  <1>1. IsFiniteSet({}) /\ Cardinality({}) = 0
    BY FS_EmptySet
  <1>2. KicksOK(Bodies0, o)
    <2>1. ({Bodies0.moved} \ {0}) \cup Bodies0.resumed = {}
      BY DEF Bodies0
    <2>2. {1} \cap 1 .. 0 = {}
      OBVIOUS
    <2>3. {r \in Bodies0.resumed : r < Bodies0.moved} = {}
      BY DEF Bodies0
    <2>4. {n + 1 : n \in {}} = {}
      OBVIOUS
    <2>5. QED
      BY <2>1, <2>2, <2>3, <2>4 DEF KicksOK, Bodies0
  <1>3. QED
    BY <1>1, <1>2 DEF BodiesOK, Bodies0, Unmoved, FaultsOK

\* What holds of bodies holds of them after another kill.
LEMMA BodiesKept ==
    ASSUME NEW o, NEW k \in Nat, NEW l \in Nat, k <= l, NEW b, BodiesOK(b, o, k)
    PROVE  BodiesOK(b, o, l)
  BY CardinalityType DEF BodiesOK

\* Bodies are moved at most once more than there are steps for every kill.
LEMMA BodiesTyped ==
    ASSUME NEW o \in Options, NEW k \in 0 .. MaxKills, NEW b, BodiesOK(b, o, k)
    PROVE  b \in Bodies
  <1>1. Cardinality(b.resumed) \in Nat /\ b.moved \in Nat
    BY CardinalityType DEF BodiesOK
  <1>2. b.moved \in Moves /\ 0 .. b.moved \subseteq Moves
    BY <1>1 DEF BodiesOK, Moves
  <1>3. b.resumed \subseteq 0 .. b.moved /\ b.faulty \subseteq 0 .. b.moved
    BY <1>1 DEF BodiesOK
  <1>4. b.owed \subseteq 0 .. b.moved
    BY <1>1, <1>3, OptionFields DEF BodiesOK, KicksOK
  <1>5. b.bare \subseteq 0 .. b.moved
    <2>1. ASSUME NEW n \in {r \in b.resumed : r < b.moved} PROVE n + 1 \in 0 .. b.moved
      BY <1>1, <1>3
    <2>2. QED
      BY <1>1, <2>1, OptionFields DEF BodiesOK, KicksOK
  <1>6. QED
    BY <1>2, <1>3, <1>4, <1>5 DEF BodiesOK, Bodies

\* A resume between two moves leaves the correction of the first out and is
\* paid for by the kill before it.
LEMMA ResumedOK ==
    ASSUME NEW o \in Options, NEW k \in Nat, NEW b,
           BodiesOK(b, o, k), HasMoved(b), Cardinality(b.resumed) < k
    PROVE  LET c == [b EXCEPT !.resumed = @ \cup {b.moved}]
           IN  /\ BodiesOK(c, o, k) /\ Unmoved(c)
               /\ c.moved = b.moved /\ c.faulty = b.faulty
               /\ c.resumed = b.resumed \cup {b.moved}
               /\ Cardinality(c.resumed) = Cardinality(b.resumed) + 1
  <1> DEFINE c == [b EXCEPT !.resumed = @ \cup {b.moved}]
  <1>1. Cardinality(b.resumed) \in Nat /\ b.moved \in Nat
    BY CardinalityType DEF BodiesOK
  <1>2. /\ c.moved = b.moved /\ c.faulty = b.faulty /\ c.owed = b.owed /\ c.bare = b.bare
        /\ c.resumed = b.resumed \cup {b.moved}
        /\ c \in [moved : Nat, owed : SUBSET Nat, bare : SUBSET Nat, resumed : SUBSET Nat, faulty : SUBSET Nat]
    BY <1>1 DEF BodiesOK
  <1> HIDE DEF c
  <1>3. /\ IsFiniteSet(c.resumed)
        /\ Cardinality(c.resumed) = Cardinality(b.resumed) + 1
    BY <1>2, FS_AddElement DEF BodiesOK, HasMoved
  <1>4. KicksOK(c, o)
    <2>1. {r \in c.resumed : r < c.moved} = {r \in b.resumed : r < b.moved}
      BY <1>1, <1>2 DEF BodiesOK
    <2>2. ({c.moved} \ {0}) \cup c.resumed = ({b.moved} \ {0}) \cup b.resumed
      BY <1>1, <1>2 DEF HasMoved
    <2>3. QED
      BY <1>2, <2>1, <2>2 DEF BodiesOK, KicksOK
  <1>5. c.resumed \subseteq 1 .. c.moved /\ c.faulty \subseteq 1 .. c.moved
    BY <1>1, <1>2 DEF BodiesOK, HasMoved
  <1>6. BodiesOK(c, o, k)
    BY <1>1, <1>2, <1>3, <1>4, <1>5 DEF BodiesOK
  <1>7. QED
    BY <1>2, <1>3, <1>6 DEF Unmoved, c

LEMMA MovedFields ==
    ASSUME NEW b, BodiesOK(b, opt, kills), NEW bad \in BOOLEAN
    PROVE  /\ Moved(b, bad) \in [moved : Nat, owed : SUBSET Nat, bare : SUBSET Nat, resumed : SUBSET Nat, faulty : SUBSET Nat]
           /\ Moved(b, bad).moved = b.moved + 1 /\ Moved(b, bad).resumed = b.resumed
           /\ Moved(b, bad).owed = IF opt.lmc THEN b.owed
                                   ELSE (IF acc.at = b.moved - 1 THEN b.owed \ {b.moved} ELSE b.owed) \cup {b.moved + 1}
           /\ Moved(b, bad).bare = IF opt.lmc /\ ~acc.lmc THEN b.bare \cup {b.moved + 1} ELSE b.bare
           /\ Moved(b, bad).faulty = IF acc.bad \/ bad THEN b.faulty \cup {b.moved + 1} ELSE b.faulty
  <1>1. b.moved \in Nat /\ b.moved + 1 \in Nat /\ b.moved + 1 - 2 = b.moved - 1 /\ b.moved + 1 - 1 = b.moved
    BY DEF BodiesOK
  <1> DEFINE n == b.moved + 1
             ow == IF opt.lmc THEN b.owed ELSE (IF acc.at = n - 2 THEN b.owed \ {n - 1} ELSE b.owed) \cup {n}
             ba == IF opt.lmc /\ ~acc.lmc THEN b.bare \cup {n} ELSE b.bare
             fa == IF acc.bad \/ bad THEN b.faulty \cup {n} ELSE b.faulty
  <1>2. Moved(b, bad) = [b EXCEPT !.moved = n, !.owed = ow, !.bare = ba, !.faulty = fa]
    BY DEF Moved
  <1>3. n \in Nat /\ ow \in SUBSET Nat /\ ba \in SUBSET Nat /\ fa \in SUBSET Nat
    BY <1>1 DEF BodiesOK
  <1>4. ow = IF opt.lmc THEN b.owed
             ELSE (IF acc.at = b.moved - 1 THEN b.owed \ {b.moved} ELSE b.owed) \cup {b.moved + 1}
    <2>1. n - 2 = b.moved - 1 /\ n - 1 = b.moved
      BY <1>1
    <2> HIDE DEF n
    <2>2. ow = IF opt.lmc THEN b.owed ELSE (IF acc.at = b.moved - 1 THEN b.owed \ {b.moved} ELSE b.owed) \cup {n}
      BY <2>1, Zenon
    <2>3. QED
      BY <2>2 DEF n
  <1>5. /\ n = b.moved + 1
        /\ ba = IF opt.lmc /\ ~acc.lmc THEN b.bare \cup {b.moved + 1} ELSE b.bare
        /\ fa = IF acc.bad \/ bad THEN b.faulty \cup {b.moved + 1} ELSE b.faulty
    OBVIOUS
  <1> HIDE DEF n, ow, ba, fa
  <1>6. QED
    BY <1>2, <1>3, <1>4, <1>5 DEF BodiesOK

\* A move corrects the one before it, unless a resume came between, and lacks
\* the pull of the LMC when it is the first of its process.
LEMMA MovedOK ==
    ASSUME NEW b, BodiesOK(b, opt, kills), NEW bad \in BOOLEAN,
           opt \in Options, kills \in Nat, acc.at \in Int, acc.lmc \in BOOLEAN, acc.bad \in BOOLEAN,
           b.moved < NStep + Cardinality(b.resumed),
           \/ HasMoved(b) /\ acc.lmc = opt.lmc /\ (~opt.lmc => acc.at = b.moved - 1)
           \/ Unmoved(b) /\ acc.at = b.moved /\ ~acc.lmc
    PROVE  BodiesOK(Moved(b, bad), opt, kills) /\ HasMoved(Moved(b, bad))
  <1> DEFINE c == Moved(b, bad)
  <1>1. Cardinality(b.resumed) \in Nat /\ b.moved \in Nat
    BY CardinalityType DEF BodiesOK
  <1>2. /\ c \in [moved : Nat, owed : SUBSET Nat, bare : SUBSET Nat, resumed : SUBSET Nat, faulty : SUBSET Nat]
        /\ c.moved = b.moved + 1 /\ c.resumed = b.resumed
        /\ c.owed = IF opt.lmc THEN b.owed
                    ELSE (IF acc.at = b.moved - 1 THEN b.owed \ {b.moved} ELSE b.owed) \cup {b.moved + 1}
        /\ c.bare = IF opt.lmc /\ ~acc.lmc THEN b.bare \cup {b.moved + 1} ELSE b.bare
        /\ c.faulty = IF acc.bad \/ bad THEN b.faulty \cup {b.moved + 1} ELSE b.faulty
    BY MovedFields
  <1> HIDE DEF c
  <1>3. b.resumed \subseteq 1 .. b.moved /\ b.faulty \subseteq 1 .. b.moved
    BY DEF BodiesOK
  <1>4. c.resumed \subseteq 1 .. c.moved /\ c.faulty \subseteq 1 .. c.moved
    BY <1>1, <1>2, <1>3
  <1>5. ASSUME ~opt.lmc PROVE KicksOK(c, opt)
    <2>1. b.owed = ({b.moved} \ {0}) \cup b.resumed /\ b.bare = {}
      BY <1>5 DEF BodiesOK, KicksOK
    <2>2. c.bare = {}
      BY <1>2, <1>5, <2>1
    <2>3. CASE HasMoved(b) /\ acc.at = b.moved - 1
      <3>1. b.owed \ {b.moved} = b.resumed
        BY <2>1, <2>3 DEF HasMoved
      <3>2. c.owed = b.resumed \cup {b.moved + 1}
        BY <1>2, <1>5, <2>3, <3>1
      <3>3. QED
        BY <1>1, <1>2, <1>5, <2>2, <3>2 DEF KicksOK
    <2>4. CASE Unmoved(b) /\ acc.at = b.moved
      <3>1. acc.at # b.moved - 1
        BY <1>1, <2>4
      <3>2. b.owed = b.resumed
        BY <1>3, <2>1, <2>4 DEF Unmoved
      <3>3. c.owed = b.resumed \cup {b.moved + 1}
        BY <1>2, <1>5, <3>1, <3>2
      <3>4. QED
        BY <1>1, <1>2, <1>5, <2>2, <3>3 DEF KicksOK
    <2>5. QED
      BY <1>5, <2>3, <2>4
  <1>6. ASSUME opt.lmc PROVE KicksOK(c, opt)
    <2> DEFINE Last(x) == {n + 1 : n \in {r \in x.resumed : r < x.moved}}
    <2>1. b.owed = {} /\ b.bare = ({1} \cap 1 .. b.moved) \cup Last(b)
      BY <1>6 DEF BodiesOK, KicksOK
    <2>2. c.owed = {}
      BY <1>2, <1>6, <2>1
    <2>3. {r \in c.resumed : r < c.moved} = b.resumed
      BY <1>1, <1>2, <1>3
    <2>4. CASE HasMoved(b) /\ acc.lmc
      <3>1. {r \in b.resumed : r < b.moved} = b.resumed
        BY <1>1, <1>3, <2>4 DEF HasMoved
      <3>2. {1} \cap 1 .. b.moved = {1} \cap 1 .. c.moved
        BY <1>1, <1>2, <2>4 DEF HasMoved
      <3>3. QED
        <4>1. c.bare = b.bare
          BY <1>2, <2>4
        <4>2. QED
          BY <1>6, <2>1, <2>2, <2>3, <3>1, <3>2, <4>1 DEF KicksOK
    <2>5. CASE Unmoved(b) /\ ~acc.lmc
      <3>1. c.bare = b.bare \cup {b.moved + 1}
        BY <1>2, <1>6, <2>5
      <3>2. CASE b.moved = 0 /\ b.resumed = {}
        <4>1. {1} \cap 1 .. b.moved = {} /\ {1} \cap 1 .. c.moved = {1} /\ b.moved + 1 = 1
          BY <1>2, <3>2
        <4>2. Last(b) = {} /\ {n + 1 : n \in b.resumed} = {}
          BY <3>2
        <4>3. QED
          BY <1>6, <2>1, <2>2, <2>3, <3>1, <4>1, <4>2 DEF KicksOK
      <3>3. CASE b.moved \in b.resumed
        <4>1. {1} \cap 1 .. b.moved = {1} \cap 1 .. c.moved
          BY <1>1, <1>2, <1>3, <3>3
        <4>2. Last(b) \cup {b.moved + 1} = {n + 1 : n \in b.resumed}
          <5>1. b.resumed = {r \in b.resumed : r < b.moved} \cup {b.moved}
            BY <1>1, <1>3, <3>3
          <5>2. QED
            BY <5>1
        <4>3. QED
          BY <1>6, <2>1, <2>2, <2>3, <3>1, <4>1, <4>2 DEF KicksOK
      <3>4. QED
        BY <2>5, <3>2, <3>3 DEF Unmoved
    <2>6. QED
      BY <1>6, <2>4, <2>5
  <1>7. BodiesOK(c, opt, kills)
    BY <1>1, <1>2, <1>4, <1>5, <1>6, OptionFields DEF BodiesOK
  <1>8. HasMoved(c)
    BY <1>1, <1>2, <1>3 DEF HasMoved
  <1>9. QED
    BY <1>7, <1>8 DEF c

-----------------------------------------------------------------------------
(* Files.                                                                   *)

LEMMA WrittenFile ==
    ASSUME NEW st \in 0 .. NStep, NEW b
    PROVE  LET f == [step |-> st, bodies |-> b]
           IN  f # NoFile /\ f.step = st /\ f.bodies = b /\ f = [step |-> f.step, bodies |-> f.bodies]
  BY DEF NoFile

LEMMA FileKept ==
    ASSUME NEW o, NEW k \in Nat, NEW l \in Nat, k <= l, NEW f, FileOK(f, o, k)
    PROVE  FileOK(f, o, l)
  BY BodiesKept DEF FileOK

LEMMA FileTyped ==
    ASSUME NEW o \in Options, NEW k \in 0 .. MaxKills, NEW f, FileOK(f, o, k)
    PROVE  f \in Saved
  <1>1. CASE f = NoFile
    BY <1>1 DEF Saved
  <1>2. CASE f # NoFile
    <2>1. f.bodies \in Bodies /\ f.step \in 0 .. NStep /\ f = [step |-> f.step, bodies |-> f.bodies]
      BY <1>2, BodiesTyped DEF FileOK
    <2>2. QED
      BY <2>1 DEF Saved
  <1>3. QED
    BY <1>1, <1>2

\* The bodies that a resumed process begins with.
LEMMA ResumedBodies ==
    ASSUME NEW o \in Options, NEW k \in Nat, NEW f, f # NoFile, FileOK(f, o, k),
           Cardinality(f.bodies.resumed) < k
    PROVE  LET b == f.bodies
               c == IF f.step < NStep THEN [b EXCEPT !.resumed = @ \cup {b.moved}] ELSE b
           IN  /\ BodiesOK(c, o, k) /\ FaultsOK(c, o)
               /\ c.moved = b.moved /\ c.moved = f.step + Cardinality(c.resumed)
               /\ f.step < NStep => Unmoved(c) /\ (o.allowIncest \/ c.faulty \subseteq c.resumed)
               /\ f.step = NStep => HasMoved(c) /\ c = b
  <1> DEFINE b == f.bodies
             c == IF f.step < NStep THEN [b EXCEPT !.resumed = @ \cup {b.moved}] ELSE b
  <1>1. /\ BodiesOK(b, o, k) /\ HasMoved(b) /\ FaultsOK(b, o) /\ f.step \in 0 .. NStep
        /\ b.moved = f.step + Cardinality(b.resumed) + (IF f.step < NStep THEN 1 ELSE 0)
        /\ Cardinality(b.resumed) \in Nat /\ Cardinality(b.resumed) < k
    BY CardinalityType DEF FileOK
  <1>2. CASE f.step < NStep
    <2>1. c = [b EXCEPT !.resumed = @ \cup {b.moved}]
      BY <1>2
    <2>2. /\ BodiesOK(c, o, k) /\ Unmoved(c) /\ c.moved = b.moved /\ c.faulty = b.faulty
          /\ c.resumed = b.resumed \cup {b.moved}
          /\ Cardinality(c.resumed) = Cardinality(b.resumed) + 1
      <3> HIDE DEF b, c
      <3>1. QED
        BY <1>1, <2>1, ResumedOK
    <2> HIDE DEF c
    <2>3. o.allowIncest \/ c.faulty \subseteq c.resumed
      BY <1>1, <2>2 DEF FaultsOK
    <2>4. FaultsOK(c, o)
      BY <2>3 DEF FaultsOK
    <2>5. c.moved = f.step + Cardinality(c.resumed)
      BY <1>1, <1>2, <2>2
    <2>6. QED
      BY <1>1, <1>2, <2>2, <2>3, <2>4, <2>5 DEF c
  <1>3. CASE f.step = NStep
    <2>1. c = b
      BY <1>3
    <2>2. b.moved = f.step + Cardinality(b.resumed)
      BY <1>1, <1>3
    <2>3. QED
      BY <1>1, <1>3, <2>1, <2>2
  <1>4. QED
    BY <1>1, <1>2, <1>3

-----------------------------------------------------------------------------
(* The parts of the invariant, step by step.                                *)

LEMMA NoAccType == NoAcc \in [at : Moves \cup {-1}, lmc : BOOLEAN, bad : BOOLEAN]
  BY DEF NoAcc

LEMMA ZeroStep == 0 \in 0 .. NStep /\ 0 \in 0 .. MaxKills
  OBVIOUS

\* A code that is ok after the kernels was ok before, and no fault is behind it.
LEMMA OutcomeKinds ==
    ASSUME NEW o \in KernelOutcomes
    PROVE  /\ o[2] \in BOOLEAN /\ <<o[1], o[2]>> = o
           /\ o[1] \in {code, "incest", "fault"}
           /\ o[1] = "ok" => code = "ok" /\ ~o[2]
  <1>1. \/ o = <<code, FALSE>> \/ o = <<"incest", FALSE>>
        \/ o = <<"fault", TRUE>> \/ o = <<"incest", TRUE>>
    BY DEF KernelOutcomes
  <1>2. ASSUME NEW c, NEW bad \in BOOLEAN, o = <<c, bad>>
        PROVE  o[1] = c /\ o[2] = bad /\ <<o[1], o[2]>> = o
    BY <1>2
  <1>3. /\ o = <<code, FALSE>> => o[1] = code /\ o[2] = FALSE /\ <<o[1], o[2]>> = o
        /\ o = <<"incest", FALSE>> => o[1] = "incest" /\ o[2] = FALSE /\ <<o[1], o[2]>> = o
        /\ o = <<"fault", TRUE>> => o[1] = "fault" /\ o[2] = TRUE /\ <<o[1], o[2]>> = o
        /\ o = <<"incest", TRUE>> => o[1] = "incest" /\ o[2] = TRUE /\ <<o[1], o[2]>> = o
    BY <1>2
  <1>4. /\ o[2] = FALSE \/ o[2] = TRUE
        /\ <<o[1], o[2]>> = o /\ (o[1] = code \/ o[1] = "incest" \/ o[1] = "fault")
        /\ o[1] = "ok" => code = "ok" /\ o[2] = FALSE
    BY <1>1, <1>3
  <1>5. QED
    BY <1>4

\* StepSystemCL moves the device's bodies once.
LEMMA DeviceMoved ==
    ASSUME IInv, StepSystemCL
    PROVE  \E bad \in BOOLEAN :
             /\ dev' = Moved(dev, bad) /\ <<code', bad>> \in KernelOutcomes
             /\ acc' = [at |-> IF opt.lmc THEN dev.moved + 1 ELSE dev.moved, lmc |-> opt.lmc, bad |-> bad]
             /\ BodiesOK(dev', opt, kills) /\ HasMoved(dev')
             /\ dev'.moved = dev.moved + 1 /\ dev'.resumed = dev.resumed
             /\ dev'.faulty = IF acc.bad \/ bad THEN dev.faulty \cup {dev.moved + 1} ELSE dev.faulty
             /\ dev.moved \in Nat /\ Cardinality(dev.resumed) \in Nat
  <1>1. PICK o \in KernelOutcomes :
          /\ code' = o[1] /\ dev' = Moved(dev, o[2])
          /\ acc' = [at |-> IF opt.lmc THEN dev.moved + 1 ELSE dev.moved, lmc |-> opt.lmc, bad |-> o[2]]
    BY DEF StepSystemCL
  <1>2. o[2] \in BOOLEAN /\ <<o[1], o[2]>> = o
    BY OutcomeKinds
  <1>3. BodiesOK(dev, opt, kills) /\ opt \in Options /\ kills \in Nat
    BY DEF IInv, DeviceInv, TypeOK
  <1>4. dev.moved \in Nat /\ Cardinality(dev.resumed) \in Nat
    BY <1>3, CardinalityType DEF BodiesOK
  <1>5. dev.moved < NStep + Cardinality(dev.resumed)
    BY <1>4 DEF IInv, DeviceInv, StepSystemCL, Live, Uncounted, TypeOK
  <1>6. /\ acc.at \in Int /\ acc.lmc \in BOOLEAN /\ acc.bad \in BOOLEAN
        /\ \/ HasMoved(dev) /\ acc.lmc = opt.lmc /\ (~opt.lmc => acc.at = dev.moved - 1)
           \/ Unmoved(dev) /\ acc.at = dev.moved /\ ~acc.lmc
    BY DEF IInv, AccInv, DeviceInv, StepSystemCL, Live
  <1>7. BodiesOK(dev', opt, kills) /\ HasMoved(dev')
    BY <1>1, <1>2, <1>3, <1>5, <1>6, MovedOK
  <1>8. /\ dev'.moved = dev.moved + 1 /\ dev'.resumed = dev.resumed
        /\ dev'.faulty = IF acc.bad \/ o[2] THEN dev.faulty \cup {dev.moved + 1} ELSE dev.faulty
    BY <1>1, <1>2, <1>3, MovedFields
  <1>9. QED
    <2>1. <<code', o[2]>> \in KernelOutcomes
      BY <1>1, <1>2
    <2> USE <1>2
    <2> WITNESS o[2] \in BOOLEAN
    <2>2. QED
      BY <1>1, <1>4, <1>7, <1>8, <2>1

LEMMA DeviceStep ==
    ASSUME IInv, [Next]_vars
    PROVE  DeviceInv'
  <1> USE DEF files, device
  <1>1. /\ BodiesOK(dev, opt, kills) /\ BodiesOK(host, opt, kills) /\ opt \in Options
        /\ kills \in 0 .. MaxKills /\ kills \in Nat /\ step \in 0 .. NStep /\ dirty \in BOOLEAN
        /\ dev.moved \in Nat /\ Cardinality(dev.resumed) \in Nat
    BY CardinalityType DEF IInv, DeviceInv, TypeOK, BodiesOK
  <1>2. CASE NewRun
    <2>1. BodiesOK(Bodies0, opt, kills) /\ Cardinality(Bodies0.resumed) = 0 /\ Bodies0.moved = 0
      BY <1>1, NewBodiesOK DEF Bodies0
    <2>2. QED
      BY <1>1, <1>2, <2>1 DEF NewRun, Initialise, DeviceInv, Live, Uncounted
  <1>3. CASE Resume
    <2>1. /\ FileOK(ckpt, opt, kills) /\ ckpt # NoFile /\ Cardinality(ckpt.bodies.resumed) < kills
          /\ ckpt.step \in 0 .. NStep
      BY <1>3 DEF IInv, FilesInv, FileOK, AheadInv, Resume, Initialise
    <2>2. BodiesOK(dev', opt, kills) /\ host' = dev' /\ dev'.moved = step' + Cardinality(dev'.resumed)
      BY <1>1, <1>3, <2>1, ResumedBodies DEF Resume, Initialise
    <2>3. opt' = opt /\ kills' = kills /\ pc' = "prestep" /\ step' \in 0 .. NStep
      BY <1>3, <2>1 DEF Resume, Initialise
    <2>4. Cardinality(dev'.resumed) \in Nat
      BY <2>2, CardinalityType
    <2>5. QED
      BY <2>2, <2>3, <2>4 DEF DeviceInv, Live, Uncounted
  <1>4. CASE RunPreStep
    BY <1>1, <1>4 DEF RunPreStep, IInv, DeviceInv, Live, Uncounted
  <1>5. CASE CheckKernelErrorCode
    BY <1>1, <1>5 DEF CheckKernelErrorCode, IInv, DeviceInv, Live, Uncounted
  <1>6. CASE EndLoop
    BY <1>1, <1>6 DEF EndLoop, IInv, DeviceInv, Live, Uncounted
  <1>7. CASE StepSystemCL
    <2>1. /\ BodiesOK(dev', opt, kills) /\ dev'.moved = dev.moved + 1 /\ dev'.resumed = dev.resumed
      BY <1>7, DeviceMoved
    <2>2. QED
      BY <1>1, <1>7, <2>1 DEF StepSystemCL, IInv, DeviceInv, Live, Uncounted
  <1>8. CASE UpdateDisplayedBodies
    BY <1>1, <1>8 DEF UpdateDisplayedBodies, MarshalBodies, IInv, DeviceInv, Live, Uncounted
  <1>9. CASE CheckpointCL
    BY <1>1, <1>9 DEF CheckpointCL, MarshalBodies, IInv, DeviceInv, Live, Uncounted
  <1>10. CASE NextStep
    BY <1>1, <1>10 DEF NextStep, IInv, DeviceInv, Live, Uncounted
  <1>11. CASE FreezeState
    BY <1>1, <1>11 DEF FreezeState, IInv, DeviceInv, Live, Uncounted
  <1>12. CASE RenameTmp
    BY <1>1, <1>12 DEF RenameTmp, IInv, DeviceInv, Live, Uncounted
  <1>13. CASE FinalBodies
    BY <1>1, <1>13 DEF FinalBodies, MarshalBodies, IInv, DeviceInv, Live, Uncounted
  <1>14. CASE FinalWritten
    BY <1>1, <1>14 DEF FinalWritten, IInv, DeviceInv, Live, Uncounted
  <1>15. CASE ReportResults
    BY <1>1, <1>15 DEF ReportResults, IInv, DeviceInv, Live, Uncounted
  <1>16. CASE RemoveCheckpoint
    BY <1>1, <1>16 DEF RemoveCheckpoint, IInv, DeviceInv, Live, Uncounted
  <1>17. CASE OperationFails
    BY <1>1, <1>17 DEF OperationFails, IInv, DeviceInv, Live, Uncounted
  <1>18. CASE Kill
    <2>1. BodiesOK(Bodies0, opt, kills')
      BY <1>1, <1>18, NewBodiesOK DEF Kill
    <2>2. QED
      BY <1>18, <2>1 DEF Kill, DeviceInv, Live
  <1>19. CASE UNCHANGED vars
    BY <1>1, <1>19 DEF vars, IInv, DeviceInv, Live, Uncounted
  <1>20. QED
    BY <1>2, <1>3, <1>4, <1>5, <1>6, <1>7, <1>8, <1>9, <1>10, <1>11, <1>12, <1>13, <1>14, <1>15,
       <1>16, <1>17, <1>18, <1>19 DEF Next, Advance

\* A process moves its bodies first with the accelerations of where they are.
LEMMA AccStep ==
    ASSUME IInv, [Next]_vars
    PROVE  AccInv'
  <1> USE DEF files, device
  <1>1. /\ opt \in Options /\ step \in 0 .. NStep /\ opt.lmc \in BOOLEAN
        /\ acc.at \in Int /\ acc.lmc \in BOOLEAN /\ acc.bad \in BOOLEAN
        /\ dev.moved \in Nat
    BY OptionFields DEF IInv, AccInv, DeviceInv, TypeOK, BodiesOK
  <1>2. CASE NewRun
    BY <1>1, <1>2, NewBodiesOK DEF NewRun, Initialise, AccInv, NoAcc, Live, IInv, TypeOK
  <1>3. CASE Resume
    <2>1. /\ FileOK(ckpt, opt, kills) /\ ckpt # NoFile /\ Cardinality(ckpt.bodies.resumed) < kills
          /\ ckpt.step \in 0 .. NStep /\ kills \in Nat
      BY <1>3 DEF IInv, FilesInv, FileOK, AheadInv, Resume, Initialise, TypeOK
    <2>2. /\ step' = ckpt.step /\ step' < NStep => Unmoved(dev')
          /\ step' = NStep => HasMoved(dev')
      BY <1>1, <1>3, <2>1, ResumedBodies DEF Resume, Initialise
    <2>3. QED
      BY <1>1, <1>3, <2>1, <2>2 DEF Resume, Initialise, AccInv, NoAcc, Live
  <1>4. CASE RunPreStep
    <2>1. PICK o \in KernelOutcomes : code' = o[1] /\ acc' = [at |-> dev.moved, lmc |-> FALSE, bad |-> o[2]]
      BY <1>4 DEF RunPreStep
    <2>2. acc'.at = dev.moved /\ ~acc'.lmc /\ acc'.lmc \in BOOLEAN /\ acc'.bad \in BOOLEAN
      BY <2>1, OutcomeKinds
    <2>3. pc = "prestep" /\ pc' = "loop" /\ step' = step /\ dev' = dev
      BY <1>4 DEF RunPreStep
    <2>4. IF step < NStep THEN Unmoved(dev) ELSE HasMoved(dev)
      BY <2>3 DEF IInv, AccInv
    <2>5. QED
      BY <1>1, <2>2, <2>3, <2>4 DEF AccInv, Live
  <1>5. CASE CheckKernelErrorCode
    BY <1>1, <1>5 DEF CheckKernelErrorCode, IInv, AccInv, DeviceInv, Live
  <1>6. CASE EndLoop
    BY <1>1, <1>6 DEF EndLoop, IInv, AccInv, DeviceInv, Live
  <1>7. CASE StepSystemCL
    <2>1. PICK bad \in BOOLEAN :
            /\ acc' = [at |-> IF opt.lmc THEN dev.moved + 1 ELSE dev.moved, lmc |-> opt.lmc, bad |-> bad]
            /\ HasMoved(dev') /\ dev'.moved = dev.moved + 1
      BY <1>7, DeviceMoved
    <2>2. acc'.at = (IF opt.lmc THEN dev.moved + 1 ELSE dev.moved) /\ acc'.lmc = opt.lmc /\ acc'.bad \in BOOLEAN
      BY <2>1
    <2>3. QED
      BY <1>1, <1>7, <2>1, <2>2 DEF StepSystemCL, AccInv, Live
  <1>8. CASE UpdateDisplayedBodies
    BY <1>1, <1>8 DEF UpdateDisplayedBodies, IInv, AccInv, DeviceInv, Live
  <1>9. CASE CheckpointCL
    BY <1>1, <1>9 DEF CheckpointCL, IInv, AccInv, DeviceInv, Live
  <1>10. CASE NextStep
    BY <1>1, <1>10 DEF NextStep, IInv, AccInv, DeviceInv, Live
  <1>11. CASE FreezeState
    BY <1>1, <1>11 DEF FreezeState, IInv, AccInv, DeviceInv, Live
  <1>12. CASE RenameTmp
    BY <1>1, <1>12 DEF RenameTmp, IInv, AccInv, DeviceInv, Live
  <1>13. CASE FinalBodies
    BY <1>1, <1>13 DEF FinalBodies, IInv, AccInv, DeviceInv, Live
  <1>14. CASE FinalWritten
    BY <1>1, <1>14 DEF FinalWritten, IInv, AccInv, DeviceInv, Live
  <1>15. CASE ReportResults
    BY <1>1, <1>15 DEF ReportResults, IInv, AccInv, DeviceInv, Live
  <1>16. CASE RemoveCheckpoint
    BY <1>1, <1>16 DEF RemoveCheckpoint, IInv, AccInv, DeviceInv, Live
  <1>17. CASE OperationFails
    BY <1>1, <1>17 DEF OperationFails, IInv, AccInv, DeviceInv, Live
  <1>18. CASE Kill
    BY <1>1, <1>18 DEF Kill, AccInv, NoAcc, Live
  <1>19. CASE UNCHANGED vars
    BY <1>1, <1>19 DEF vars, IInv, AccInv, DeviceInv, Live
  <1>20. QED
    BY <1>2, <1>3, <1>4, <1>5, <1>6, <1>7, <1>8, <1>9, <1>10, <1>11, <1>12, <1>13, <1>14, <1>15,
       <1>16, <1>17, <1>18, <1>19 DEF Next, Advance

\* No fault stays behind a code that is ok.
LEMMA FaultStep ==
    ASSUME IInv, [Next]_vars
    PROVE  FaultInv'
  <1> USE DEF files, device
  <1>1. /\ opt \in Options /\ step \in 0 .. NStep /\ opt.allowIncest \in BOOLEAN
        /\ code \in {"ok", "incest", "fault"} /\ acc.bad \in BOOLEAN
    BY OptionFields DEF IInv, AccInv, TypeOK
  <1>2. CASE NewRun
    <2>1. FaultsOK(Bodies0, opt) /\ Bodies0.faulty = {}
      BY <1>1, NewBodiesOK DEF Bodies0, IInv, TypeOK
    <2>2. QED
      BY <1>1, <1>2, <2>1 DEF NewRun, Initialise, FaultInv, NoAcc, Live
  <1>3. CASE Resume
    <2>1. /\ FileOK(ckpt, opt, kills) /\ ckpt # NoFile /\ Cardinality(ckpt.bodies.resumed) < kills
          /\ ckpt.step \in 0 .. NStep /\ kills \in Nat
      BY <1>3 DEF IInv, FilesInv, FileOK, AheadInv, Resume, Initialise, TypeOK
    <2>2. FaultsOK(dev', opt) /\ (step' < NStep => opt.allowIncest \/ dev'.faulty \subseteq dev'.resumed)
      BY <1>1, <1>3, <2>1, ResumedBodies DEF Resume, Initialise
    <2>3. QED
      BY <1>3, <2>2 DEF Resume, Initialise, FaultInv, NoAcc, Live
  <1>4. CASE RunPreStep
    <2>1. PICK o \in KernelOutcomes : code' = o[1] /\ acc' = [at |-> dev.moved, lmc |-> FALSE, bad |-> o[2]]
      BY <1>4 DEF RunPreStep
    <2>2. code' = "ok" => ~acc'.bad /\ code = "ok"
      BY <1>1, <2>1, OutcomeKinds
    <2>3. QED
      BY <1>1, <1>4, <2>2 DEF RunPreStep, IInv, FaultInv, Live
  <1>5. CASE CheckKernelErrorCode
    BY <1>1, <1>5 DEF CheckKernelErrorCode, Fatal, IInv, FaultInv, Live
  <1>6. CASE EndLoop
    BY <1>1, <1>6 DEF EndLoop, IInv, FaultInv, DeviceInv, Live
  <1>7. CASE StepSystemCL
    <2>1. PICK bad \in BOOLEAN :
            /\ <<code', bad>> \in KernelOutcomes
            /\ acc' = [at |-> IF opt.lmc THEN dev.moved + 1 ELSE dev.moved, lmc |-> opt.lmc, bad |-> bad]
            /\ dev'.moved = dev.moved + 1 /\ dev'.resumed = dev.resumed
            /\ dev'.faulty = IF acc.bad \/ bad THEN dev.faulty \cup {dev.moved + 1} ELSE dev.faulty
      BY <1>7, DeviceMoved
    <2>2. acc'.bad = bad
      BY <2>1
    <2>3. code' = "ok" => ~bad
      BY <1>1, <2>1 DEF KernelOutcomes
    <2>4. ~opt.allowIncest => ~acc.bad /\ dev.faulty \subseteq dev.resumed
      BY <1>1, <1>7 DEF StepSystemCL, IInv, FaultInv, DeviceInv, Live
    <2>5. FaultsOK(dev', opt)
      BY <1>1, <2>1, <2>4 DEF FaultsOK
    <2>6. ~opt.allowIncest /\ code' = "ok" => dev'.faulty \subseteq dev'.resumed
      BY <2>1, <2>3, <2>4
    <2>7. QED
      BY <1>7, <2>2, <2>3, <2>5, <2>6 DEF StepSystemCL, FaultInv, Live
  <1>8. CASE UpdateDisplayedBodies
    BY <1>1, <1>8 DEF UpdateDisplayedBodies, IInv, FaultInv, DeviceInv, Live
  <1>9. CASE CheckpointCL
    BY <1>1, <1>9 DEF CheckpointCL, IInv, FaultInv, DeviceInv, Live
  <1>10. CASE NextStep
    BY <1>1, <1>10 DEF NextStep, IInv, FaultInv, DeviceInv, Live
  <1>11. CASE FreezeState
    BY <1>1, <1>11 DEF FreezeState, IInv, FaultInv, DeviceInv, Live
  <1>12. CASE RenameTmp
    BY <1>1, <1>12 DEF RenameTmp, IInv, FaultInv, DeviceInv, Live
  <1>13. CASE FinalBodies
    BY <1>1, <1>13 DEF FinalBodies, IInv, FaultInv, DeviceInv, Live
  <1>14. CASE FinalWritten
    BY <1>1, <1>14 DEF FinalWritten, IInv, FaultInv, DeviceInv, Live
  <1>15. CASE ReportResults
    BY <1>1, <1>15 DEF ReportResults, IInv, FaultInv, DeviceInv, Live
  <1>16. CASE RemoveCheckpoint
    BY <1>1, <1>16 DEF RemoveCheckpoint, IInv, FaultInv, DeviceInv, Live
  <1>17. CASE OperationFails
    BY <1>1, <1>17 DEF OperationFails, IInv, FaultInv, DeviceInv, Live
  <1>18. CASE Kill
    BY <1>1, <1>18 DEF Kill, FaultInv, Live
  <1>19. CASE UNCHANGED vars
    BY <1>1, <1>19 DEF vars, IInv, FaultInv, DeviceInv, Live
  <1>20. QED
    BY <1>2, <1>3, <1>4, <1>5, <1>6, <1>7, <1>8, <1>9, <1>10, <1>11, <1>12, <1>13, <1>14, <1>15,
       <1>16, <1>17, <1>18, <1>19 DEF Next, Advance

\* What is saved and reported are the bodies of the device.
LEMMA FilesStep ==
    ASSUME IInv, [Next]_vars
    PROVE  FilesInv'
  <1> USE DEF files, device
  <1>1. /\ opt \in Options /\ step \in 0 .. NStep /\ kills \in Nat
    BY DEF IInv, TypeOK
  <1>2. CASE NewRun
    BY <1>1, <1>2 DEF NewRun, Initialise, IInv, FilesInv
  <1>3. CASE Resume
    BY <1>1, <1>3 DEF Resume, Initialise, IInv, FilesInv
  <1>4. CASE RunPreStep
    BY <1>1, <1>4 DEF RunPreStep, IInv, FilesInv
  <1>5. CASE CheckKernelErrorCode
    BY <1>1, <1>5 DEF CheckKernelErrorCode, IInv, FilesInv
  <1>6. CASE EndLoop
    BY <1>1, <1>6 DEF EndLoop, IInv, FilesInv
  <1>7. CASE StepSystemCL
    BY <1>1, <1>7 DEF StepSystemCL, IInv, FilesInv
  <1>8. CASE UpdateDisplayedBodies
    BY <1>1, <1>8 DEF UpdateDisplayedBodies, IInv, FilesInv
  <1>9. CASE CheckpointCL
    BY <1>1, <1>9 DEF CheckpointCL, IInv, FilesInv
  <1>10. CASE NextStep
    BY <1>1, <1>10 DEF NextStep, IInv, FilesInv
  <1>11. CASE FreezeState
    <2>1. host = dev /\ ~dirty
      BY <1>1, <1>11 DEF FreezeState, IInv, DeviceInv, Live
    <2>2. HasMoved(host) /\ FaultsOK(host, opt) /\ BodiesOK(host, opt, kills)
      BY <1>11, <2>1 DEF FreezeState, IInv, DeviceInv, AccInv, FaultInv, Live
    <2>3. host.moved = step + Cardinality(host.resumed) + (IF step < NStep THEN 1 ELSE 0)
      BY <1>1, <1>11, <2>1 DEF FreezeState, IInv, DeviceInv, Live, Uncounted
    <2>4. FileOK([step |-> step, bodies |-> host], opt, kills)
      BY <1>1, <2>2, <2>3, WrittenFile DEF FileOK
    <2>5. QED
      BY <1>1, <1>11, <2>4, WrittenFile DEF FreezeState, IInv, FilesInv, DeviceInv, Live
  <1>12. CASE RenameTmp
    BY <1>1, <1>12 DEF RenameTmp, IInv, FilesInv, FileOK
  <1>13. CASE FinalBodies
    BY <1>1, <1>13 DEF FinalBodies, IInv, FilesInv
  <1>14. CASE FinalWritten
    BY <1>1, <1>14 DEF FinalWritten, IInv, FilesInv
  <1>15. CASE ReportResults
    <2>1. host = dev /\ ~dirty
      BY <1>1, <1>15 DEF ReportResults, IInv, DeviceInv, Live
    <2>2. HasMoved(host) /\ FaultsOK(host, opt) /\ BodiesOK(host, opt, kills)
      BY <1>15, <2>1 DEF ReportResults, IInv, DeviceInv, AccInv, FaultInv, Live
    <2>3. host.moved = step + Cardinality(host.resumed) + (IF step < NStep THEN 1 ELSE 0)
      BY <1>1, <1>15, <2>1 DEF ReportResults, IInv, DeviceInv, Live, Uncounted
    <2>4. FileOK([step |-> step, bodies |-> host], opt, kills)
      BY <1>1, <2>2, <2>3, WrittenFile DEF FileOK
    <2>5. QED
      BY <1>1, <1>15, <2>4, WrittenFile DEF ReportResults, IInv, FilesInv, DeviceInv, Live
  <1>16. CASE RemoveCheckpoint
    BY <1>1, <1>16 DEF RemoveCheckpoint, IInv, FilesInv, FileOK
  <1>17. CASE OperationFails
    BY <1>1, <1>17 DEF OperationFails, IInv, FilesInv
  <1>18. CASE Kill
    BY <1>1, <1>18, FileKept DEF Kill, IInv, FilesInv
  <1>19. CASE UNCHANGED vars
    BY <1>1, <1>19 DEF vars, IInv, FilesInv
  <1>20. QED
    BY <1>2, <1>3, <1>4, <1>5, <1>6, <1>7, <1>8, <1>9, <1>10, <1>11, <1>12, <1>13, <1>14, <1>15,
       <1>16, <1>17, <1>18, <1>19 DEF Next, Advance

\* The checkpoint is behind the process that works on its bodies.
LEMMA AheadStep ==
    ASSUME IInv, [Next]_vars
    PROVE  AheadInv'
  <1> USE DEF files, device
  <1>1. /\ opt \in Options /\ step \in 0 .. NStep /\ kills \in Nat
        /\ dev.moved \in Nat /\ Cardinality(dev.resumed) \in Nat
        /\ ckpt # NoFile => /\ ckpt.step \in 0 .. NStep /\ ckpt.bodies.moved \in Nat
                            /\ Cardinality(ckpt.bodies.resumed) \in Nat
                            /\ Cardinality(ckpt.bodies.resumed) <= kills
    BY CardinalityType DEF IInv, TypeOK, DeviceInv, FilesInv, FileOK, BodiesOK
  <1>2. CASE NewRun
    BY <1>1, <1>2 DEF NewRun, Initialise, AheadInv
  <1>3. CASE Resume
    <2>1. /\ FileOK(ckpt, opt, kills) /\ ckpt # NoFile /\ Cardinality(ckpt.bodies.resumed) < kills
      BY <1>3 DEF IInv, FilesInv, FileOK, AheadInv, Resume, Initialise
    <2>2. dev'.moved = ckpt.bodies.moved /\ (ckpt.step = NStep => dev' = ckpt.bodies)
      BY <1>1, <1>3, <2>1, ResumedBodies DEF Resume, Initialise
    <2>3. QED
      BY <1>1, <1>3, <2>1, <2>2 DEF Resume, Initialise, AheadInv, Live, Uncounted
  <1>4. CASE RunPreStep
    BY <1>1, <1>4 DEF RunPreStep, IInv, AheadInv, DeviceInv, Live, Uncounted
  <1>5. CASE CheckKernelErrorCode
    BY <1>1, <1>5 DEF CheckKernelErrorCode, IInv, AheadInv, DeviceInv, Live, Uncounted
  <1>6. CASE EndLoop
    BY <1>1, <1>6 DEF EndLoop, IInv, AheadInv, DeviceInv, Live, Uncounted
  <1>7. CASE StepSystemCL
    <2>1. dev'.moved = dev.moved + 1
      BY <1>7, DeviceMoved
    <2>2. QED
      BY <1>1, <1>7, <2>1 DEF StepSystemCL, IInv, AheadInv, DeviceInv, Live, Uncounted
  <1>8. CASE UpdateDisplayedBodies
    BY <1>1, <1>8 DEF UpdateDisplayedBodies, IInv, AheadInv, DeviceInv, Live, Uncounted
  <1>9. CASE CheckpointCL
    BY <1>1, <1>9 DEF CheckpointCL, IInv, AheadInv, DeviceInv, Live, Uncounted
  <1>10. CASE NextStep
    BY <1>1, <1>10 DEF NextStep, IInv, AheadInv, DeviceInv, Live, Uncounted
  <1>11. CASE FreezeState
    BY <1>1, <1>11 DEF FreezeState, IInv, AheadInv, DeviceInv, Live, Uncounted
  <1>12. CASE RenameTmp
    <2>1. tmp = [step |-> step, bodies |-> dev]
      BY <1>1, <1>12 DEF RenameTmp, IInv, FilesInv, DeviceInv, Live
    <2>2. ckpt' # NoFile /\ ckpt'.step = step /\ ckpt'.bodies = dev
      BY <1>1, <1>12, <2>1, WrittenFile DEF RenameTmp
    <2>3. QED
      BY <1>1, <1>12, <2>2 DEF RenameTmp, AheadInv, Live, Uncounted
  <1>13. CASE FinalBodies
    BY <1>1, <1>13 DEF FinalBodies, IInv, AheadInv, DeviceInv, Live, Uncounted
  <1>14. CASE FinalWritten
    BY <1>1, <1>14 DEF FinalWritten, IInv, AheadInv, DeviceInv, Live, Uncounted
  <1>15. CASE ReportResults
    BY <1>1, <1>15 DEF ReportResults, IInv, AheadInv, DeviceInv, Live, Uncounted
  <1>16. CASE RemoveCheckpoint
    BY <1>16 DEF RemoveCheckpoint, AheadInv
  <1>17. CASE OperationFails
    BY <1>1, <1>17 DEF OperationFails, IInv, AheadInv, DeviceInv, Live, Uncounted
  <1>18. CASE Kill
    BY <1>1, <1>18 DEF Kill, IInv, AheadInv, DeviceInv, Live, Uncounted
  <1>19. CASE UNCHANGED vars
    BY <1>1, <1>19 DEF vars, IInv, AheadInv, DeviceInv, Live, Uncounted
  <1>20. QED
    BY <1>2, <1>3, <1>4, <1>5, <1>6, <1>7, <1>8, <1>9, <1>10, <1>11, <1>12, <1>13, <1>14, <1>15,
       <1>16, <1>17, <1>18, <1>19 DEF Next, Advance

\* The bodies have their type because the invariant bounds their moves.
LEMMA TypeStep ==
    ASSUME IInv, [Next]_vars, DeviceInv', FilesInv'
    PROVE  TypeOK'
  <1> USE DEF files, device
  <1> DEFINE Control ==
        /\ opt \in Options /\ step \in 0 .. NStep /\ kills \in 0 .. MaxKills /\ dirty \in BOOLEAN
        /\ pc \in {"start", "prestep", "loop", "step", "display", "checkpoint", "freeze", "rename",
                   "written", "end", "report", "remove", "giveup", "done", "failed"}
        /\ acc \in [at : Moves \cup {-1}, lmc : BOOLEAN, bad : BOOLEAN]
        /\ code \in {"ok", "incest", "fault"}
  <1>1. Control
    BY DEF IInv, TypeOK
  <1>2. opt' = opt /\ kills' \in 0 .. MaxKills
    BY <1>1 DEF Next, Advance, vars, NewRun, Resume, Initialise, RunPreStep, CheckKernelErrorCode, EndLoop,
         StepSystemCL, UpdateDisplayedBodies, CheckpointCL, NextStep, FreezeState, RenameTmp, FinalBodies,
         FinalWritten, ReportResults, RemoveCheckpoint, OperationFails, Kill
  <1>3. opt' \in Options
    BY <1>1, <1>2
  <1>4. host' \in Bodies /\ dev' \in Bodies
    BY <1>2, <1>3, BodiesTyped DEF DeviceInv
  <1>5. tmp' \in Saved /\ ckpt' \in Saved /\ out' \in Saved
    BY <1>2, <1>3, FileTyped DEF FilesInv
  <1>6. ASSUME NewRun PROVE Control'
    BY <1>1, <1>6, NoAccType, ZeroStep DEF NewRun, Initialise
  <1>7. ASSUME Resume PROVE Control'
    <2>1. ckpt.step \in 0 .. NStep
      BY <1>7 DEF Resume, IInv, FilesInv, FileOK
    <2>2. QED
      BY <1>1, <1>7, <2>1, NoAccType DEF Resume, Initialise
  <1>8. ASSUME RunPreStep PROVE Control'
    <2>1. PICK o \in KernelOutcomes : code' = o[1] /\ acc' = [at |-> dev.moved, lmc |-> FALSE, bad |-> o[2]]
      BY <1>8 DEF RunPreStep
    <2>2. dev.moved \in Moves
      BY DEF IInv, TypeOK, Bodies
    <2>3. o[1] \in {"ok", "incest", "fault"} /\ o[2] \in BOOLEAN
      BY <1>1, OutcomeKinds
    <2>4. QED
      BY <1>1, <1>8, <2>1, <2>2, <2>3 DEF RunPreStep
  <1>9. ASSUME CheckKernelErrorCode PROVE Control'
    BY <1>1, <1>9 DEF CheckKernelErrorCode
  <1>10. ASSUME EndLoop PROVE Control'
    BY <1>1, <1>10 DEF EndLoop
  <1>11. ASSUME StepSystemCL PROVE Control'
    <2>1. PICK bad \in BOOLEAN :
            /\ <<code', bad>> \in KernelOutcomes
            /\ acc' = [at |-> IF opt.lmc THEN dev.moved + 1 ELSE dev.moved, lmc |-> opt.lmc, bad |-> bad]
            /\ dev'.moved = dev.moved + 1
      BY <1>11, DeviceMoved
    <2>2. code' \in {"ok", "incest", "fault"}
      BY <1>1, <2>1 DEF KernelOutcomes
    <2>3. dev.moved \in Moves /\ dev.moved + 1 \in Moves
      BY <1>4, <2>1 DEF IInv, TypeOK, Bodies
    <2>4. opt.lmc \in BOOLEAN
      BY <1>1, OptionFields
    <2>5. acc' \in [at : Moves \cup {-1}, lmc : BOOLEAN, bad : BOOLEAN]
      BY <2>1, <2>3, <2>4
    <2>6. QED
      BY <1>1, <1>11, <2>2, <2>5 DEF StepSystemCL
  <1>12. ASSUME UpdateDisplayedBodies PROVE Control'
    BY <1>1, <1>12 DEF UpdateDisplayedBodies, MarshalBodies
  <1>13. ASSUME CheckpointCL PROVE Control'
    BY <1>1, <1>13 DEF CheckpointCL, MarshalBodies
  <1>14. ASSUME NextStep PROVE Control'
    BY <1>1, <1>14 DEF NextStep
  <1>15. ASSUME FreezeState PROVE Control'
    BY <1>1, <1>15 DEF FreezeState
  <1>16. ASSUME RenameTmp PROVE Control'
    BY <1>1, <1>16 DEF RenameTmp
  <1>17. ASSUME FinalBodies PROVE Control'
    BY <1>1, <1>17 DEF FinalBodies, MarshalBodies
  <1>18. ASSUME FinalWritten PROVE Control'
    BY <1>1, <1>18 DEF FinalWritten
  <1>19. ASSUME ReportResults PROVE Control'
    BY <1>1, <1>19 DEF ReportResults
  <1>20. ASSUME RemoveCheckpoint PROVE Control'
    BY <1>1, <1>20 DEF RemoveCheckpoint
  <1>21. ASSUME OperationFails PROVE Control'
    BY <1>1, <1>21 DEF OperationFails
  <1>22. ASSUME Kill PROVE Control'
    <2>1. kills' \in 0 .. MaxKills
      BY <1>1, <1>22 DEF Kill
    <2>2. QED
      BY <1>1, <1>22, <2>1, NoAccType, ZeroStep DEF Kill
  <1>23. ASSUME UNCHANGED vars PROVE Control'
    BY <1>1, <1>23 DEF vars
  <1>24. Control'
    BY <1>6, <1>7, <1>8, <1>9, <1>10, <1>11, <1>12, <1>13, <1>14, <1>15, <1>16, <1>17, <1>18, <1>19,
       <1>20, <1>21, <1>22, <1>23 DEF Next, Advance
  <1>25. QED
    BY <1>24, <1>4, <1>5 DEF TypeOK

LEMMA InitHolds == Init => IInv
  <1> SUFFICES ASSUME Init PROVE IInv
    OBVIOUS
  <1>1. opt \in Options /\ kills = 0 /\ dev = Bodies0 /\ host = Bodies0 /\ tmp = NoFile /\ ckpt = NoFile /\ out = NoFile
    BY DEF Init
  <1>2. BodiesOK(Bodies0, opt, kills)
    BY <1>1, NewBodiesOK
  <1>3. Bodies0 \in Bodies
    BY <1>1, <1>2, BodiesTyped
  <1>4. TypeOK
    BY <1>1, <1>3, NoAccType, ZeroStep DEF Init, TypeOK, Saved
  <1>5. DeviceInv
    BY <1>1, <1>2 DEF Init, DeviceInv, Live
  <1>6. AccInv /\ FaultInv
    BY DEF Init, AccInv, FaultInv, Live, NoAcc
  <1>7. FilesInv /\ AheadInv
    BY <1>1 DEF Init, FilesInv, FileOK, AheadInv
  <1>8. QED
    BY <1>4, <1>5, <1>6, <1>7 DEF IInv

LEMMA NextKeeps == IInv /\ [Next]_vars => IInv'
  BY DeviceStep, AccStep, FaultStep, FilesStep, AheadStep, TypeStep DEF IInv

-----------------------------------------------------------------------------
(* The theorems.                                                            *)

\* The whole invariant: what bodies, files and accelerations are at every
\* point of the run.
THEOREM Invariant == Spec => []IInv
  BY InitHolds, NextKeeps, PTL DEF Spec

\* Types, with the bound on the moves: one more than the steps for every kill.
THEOREM TypeCorrect == Spec => []TypeOK
  <1>1. IInv => TypeOK
    BY DEF IInv
  <1>2. QED
    BY <1>1, Invariant, PTL

\* nbMainLoopCL makes every step once, and once more for every resume, and
\* nbMarshalBodies never skips a copy that is needed.
THEOREM StepsAreAccounted == Spec => []StepsAccounted
  <1>1. IInv => StepsAccounted
    <2> SUFFICES ASSUME IInv PROVE StepsAccounted
      OBVIOUS
    <2>1. step \in 0 .. NStep /\ dirty \in BOOLEAN /\ dev.moved \in Nat /\ Cardinality(dev.resumed) \in Nat
      BY CardinalityType DEF IInv, TypeOK, DeviceInv, BodiesOK
    <2>2. pc \in {"freeze", "report"} => host = dev
      BY <2>1 DEF IInv, DeviceInv, Live
    <2>3. pc \in {"prestep", "loop", "step", "end", "report"} => dev.moved = step + Cardinality(dev.resumed)
      BY <2>1 DEF IInv, DeviceInv, Live, Uncounted
    <2>4. out # NoFile => out.bodies.moved = NStep + Cardinality(out.bodies.resumed)
      <3>1. out # NoFile => /\ out.step = NStep /\ BodiesOK(out.bodies, opt, kills)
                            /\ out.bodies.moved = out.step + Cardinality(out.bodies.resumed)
                                                  + (IF out.step < NStep THEN 1 ELSE 0)
        BY DEF IInv, FilesInv, FileOK
      <3>2. QED
        BY <3>1, CardinalityType
    <2>5. QED
      BY <2>2, <2>3, <2>4 DEF StepsAccounted
  <1>2. QED
    BY <1>1, Invariant, PTL

\* The velocity corrections that are missing from the report, and the moves
\* without the LMC, are those of the resumes and of the two ends of the run.
THEOREM KicksAreAccounted == Spec => []KicksAccounted
  <1>1. IInv => KicksAccounted
    <2> SUFFICES ASSUME IInv, out # NoFile
                 PROVE  LET b == out.bodies
                        IN  /\ b.owed = IF opt.lmc THEN {} ELSE {b.moved} \cup (b.resumed \ {0})
                            /\ opt.lmc => b.bare = {1} \cup {n + 1 : n \in b.resumed}
      BY DEF KicksAccounted
    <2> DEFINE b == out.bodies
    <2>1. BodiesOK(b, opt, kills) /\ HasMoved(b) /\ KicksOK(b, opt)
      BY DEF IInv, FilesInv, FileOK, BodiesOK
    <2>2. b.moved \in Nat /\ b.moved >= 1 /\ b.resumed \subseteq 1 .. b.moved /\ b.moved \notin b.resumed
      BY <2>1 DEF BodiesOK, HasMoved
    <2> HIDE DEF b
    <2>3. ({b.moved} \ {0}) \cup b.resumed = {b.moved} \cup (b.resumed \ {0})
      BY <2>2
    <2>4. {1} \cap 1 .. b.moved = {1} /\ {r \in b.resumed : r < b.moved} = b.resumed
      BY <2>2
    <2>5. opt.lmc \in BOOLEAN
      BY OptionFields DEF IInv, TypeOK
    <2>6. b.owed = IF opt.lmc THEN {} ELSE {b.moved} \cup (b.resumed \ {0})
      BY <2>1, <2>3, <2>5 DEF KicksOK
    <2>7. opt.lmc => b.bare = {1} \cup {n + 1 : n \in b.resumed}
      BY <2>1, <2>4 DEF KicksOK
    <2>8. QED
      BY <2>6, <2>7 DEF b
  <1>2. QED
    BY <1>1, Invariant, PTL

\* Where incest is not allowed, a fault of the kernels ends in the report only
\* from the last step or from one whose checkpoint was resumed.
THEOREM FaultsAreNoticed == Spec => []FaultsNoticed
  <1>1. IInv => FaultsNoticed
    BY DEF IInv, FilesInv, FileOK, FaultsOK, FaultsNoticed
  <1>2. QED
    BY <1>1, Invariant, PTL

\* No step of the run loses what a checkpoint holds, but the removal at its end.
THEOREM ProgressIsKept == Spec => ProgressKept
  <1> DEFINE Kept == ckpt # NoFile /\ ckpt' # ckpt =>
                       \/ ckpt' = NoFile /\ pc' \in {"done", "failed"}
                       \/ ckpt'.bodies.moved > ckpt.bodies.moved
                       \/ ckpt'.bodies.moved = ckpt.bodies.moved /\ ckpt'.step > ckpt.step
  <1>1. ASSUME IInv, [Next]_vars PROVE Kept
    <2>1. CASE RenameTmp
      <3> SUFFICES ASSUME ckpt # NoFile, ckpt' # ckpt
                   PROVE  \/ ckpt'.bodies.moved > ckpt.bodies.moved
                          \/ ckpt'.bodies.moved = ckpt.bodies.moved /\ ckpt'.step > ckpt.step
        OBVIOUS
      <3>1. step \in 0 .. NStep /\ dev.moved \in Nat /\ ckpt.step \in 0 .. NStep /\ ckpt.bodies.moved \in Nat
        BY <1>1 DEF IInv, TypeOK, DeviceInv, FilesInv, FileOK, BodiesOK
      <3>2. tmp = [step |-> step, bodies |-> dev]
        BY <1>1, <2>1 DEF RenameTmp, IInv, FilesInv, DeviceInv, Live
      <3>3. ckpt' = [step |-> step, bodies |-> dev] /\ ckpt'.step = step /\ ckpt'.bodies = dev
        BY <2>1, <3>1, <3>2, WrittenFile DEF RenameTmp
      <3>4. CASE step < NStep
        BY <1>1, <2>1, <3>1, <3>3, <3>4 DEF RenameTmp, IInv, AheadInv, Live, Uncounted
      <3>5. CASE step = NStep
        <4>1. ckpt = [step |-> ckpt.step, bodies |-> ckpt.bodies]
          BY <1>1 DEF IInv, FilesInv, FileOK
        <4>2. dev.moved >= ckpt.bodies.moved /\ (ckpt.step < NStep \/ ckpt.bodies = dev)
          BY <1>1, <2>1, <3>5 DEF RenameTmp, IInv, AheadInv, Live
        <4>3. ckpt.step < NStep
          BY <3>1, <3>3, <3>5, <4>1, <4>2
        <4>4. QED
          BY <3>1, <3>3, <3>5, <4>2, <4>3
      <3>6. QED
        BY <3>1, <3>4, <3>5
    <2>2. CASE RemoveCheckpoint
      BY <2>2 DEF RemoveCheckpoint
    <2>3. CASE ckpt' = ckpt
      BY <2>3
    <2>4. QED
      BY <1>1, <2>1, <2>2, <2>3 DEF Next, Advance, vars, files, NewRun, Resume, Initialise, RunPreStep,
         CheckKernelErrorCode, EndLoop, StepSystemCL, UpdateDisplayedBodies, CheckpointCL, NextStep,
         FreezeState, FinalBodies, FinalWritten, ReportResults, OperationFails, Kill
  <1>2. IInv /\ [Next]_vars => [Kept]_vars
    BY <1>1
  <1>3. QED
    BY <1>2, Invariant, PTL DEF Spec, ProgressKept

=============================================================================
