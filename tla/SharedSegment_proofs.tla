----------------------- MODULE SharedSegment_proofs -----------------------
(***************************************************************************)
(* Proofs that SharedSegment keeps its inductive invariant IInv, and so    *)
(* its safety properties, for any number of simulations, process ids,      *)
(* names, segments and calibration runs.                                   *)
(***************************************************************************)
EXTENDS SharedSegment, TLAPS

USE SegmentAssumption

-----------------------------------------------------------------------------
(* What the steps of a simulation change.                                   *)

Others(s) == sim' \in [Sim -> Processes] /\ \A t \in Sim : t # s => sim'[t] = sim[t]

\* sim[s] goes to pc with the segment fd open, and is otherwise as it was.
GoesTo(s, pc, fd) ==
    /\ Others(s)
    /\ sim'[s].pc = pc /\ sim'[s].fd = fd
    /\ sim'[s].pid = sim[s].pid /\ sim'[s].n = sim[s].n
    /\ sim'[s].scene = sim[s].scene /\ sim'[s].run = sim[s].run

\* It goes on to the next name, or runs without a scene.
GoesOn(s) ==
    /\ Others(s)
    /\ sim'[s].pc \in {"open", "run"}
    /\ sim'[s].pid = sim[s].pid /\ sim'[s].scene = sim[s].scene /\ sim'[s].run = sim[s].run

\* It is gone.
Goes(s) ==
    /\ Others(s)
    /\ sim'[s].pc = "dead" /\ sim'[s].scene = NoSeg /\ sim'[s].run = 0

LEMMA ProcessFields ==
    ASSUME TypeOK, NEW s \in Sim
    PROVE  /\ sim[s] \in Processes /\ sim[s].n \in Instance /\ sim[s].n \in Nat
           /\ sim[s].run \in Nat /\ sim[s].pid \in Pid \cup {0}
           /\ sim[s].fd \in Seg \cup {NoSeg} /\ sim[s].scene \in Seg \cup {NoSeg}
           /\ Creating(s) /\ sim[s].pc # "open" => sim[s].fd \in Seg
           /\ Running(s) => sim[s].scene \in Seg
  <1>1. sim[s] \in Processes
    BY DEF TypeOK
  <1>2. /\ sim[s].n \in Instance /\ sim[s].run \in Nat /\ sim[s].pid \in Pid \cup {0}
        /\ sim[s].fd \in Seg \cup {NoSeg} /\ sim[s].scene \in Seg \cup {NoSeg}
    BY <1>1 DEF Processes
  <1>3. sim[s].n \in Nat
    BY <1>2 DEF Instance
  <1>4. Creating(s) /\ sim[s].pc # "open" => sim[s].fd \in Seg
    BY DEF TypeOK
  <1>5. Running(s) => sim[s].scene \in Seg
    BY <1>2 DEF Running
  <1>6. QED
    BY <1>1, <1>2, <1>3, <1>4, <1>5

LEMMA SimType == TypeOK => sim \in [Sim -> Processes]
  BY DEF TypeOK

\* A step that stores into one process.
LEMMA OthersKept ==
    ASSUME TypeOK, NEW s \in Sim, NEW q \in Processes, sim' = [sim EXCEPT ![s] = q]
    PROVE  Others(s) /\ sim'[s] = q
  BY SimType DEF Others

LEMMA HeaderFields ==
    ASSUME TypeOK, NEW x \in Seg
    PROVE  /\ header[x] \in Headers /\ header[x].nbody \in Nat /\ header[x].sceneSize \in Nat
           /\ header[x].shmemName \in Instance \cup {NoName} /\ size[x] \in Nat
           /\ header[x].owner \in Pid \cup {0}
  BY DEF TypeOK, Headers

\* What the updates of a process that set more than one field make of it.
LEMMA Started ==
    ASSUME NEW q \in Processes, NEW p \in Pid
    PROVE  LET r == [q EXCEPT !.pc = "open", !.pid = p, !.run = 1]
           IN  r \in Processes /\ r.pc = "open" /\ r.scene = q.scene /\ r.run = 1 /\ r.pid = p
  BY DEF Processes

LEMMA Restarted ==
    ASSUME NEW q \in Processes, NEW k \in Nat
    PROVE  LET r == [q EXCEPT !.pc = "open", !.n = 0, !.scene = NoSeg, !.run = k]
           IN  r \in Processes /\ r.pc = "open" /\ r.scene = NoSeg /\ r.run = k /\ r.pid = q.pid
  <1>1. 0 \in Instance
    BY DEF Instance
  <1>2. QED
    BY <1>1 DEF Processes

LEMMA TriesNext ==
    ASSUME NEW q \in Processes, NEW n \in Instance
    PROVE  LET r == [q EXCEPT !.pc = "open", !.n = n, !.fd = NoSeg]
           IN  r \in Processes /\ r.pc = "open" /\ r.scene = q.scene /\ r.run = q.run /\ r.pid = q.pid
  BY DEF Processes

LEMMA BeginEffect ==
    ASSUME TypeOK, NEW s \in Sim, Begin(s)
    PROVE  /\ Others(s) /\ UNCHANGED <<dir, size, header, used, vis>>
           /\ sim'[s].pc = "open" /\ sim'[s].scene = NoSeg /\ sim'[s].run <= Runs[s]
           /\ \/ sim[s].pc = "new" /\ sim'[s].pid \in Pid /\ \A t \in Sim : Alive(t) => sim[t].pid # sim'[s].pid
              \/ sim[s].pc = "run" /\ sim'[s].pid = sim[s].pid
           /\ mishaps' = mishaps \cup (IF \E t \in Sim : Creating(t) THEN {"overlap"} ELSE {})
  <1>1. UNCHANGED <<dir, size, header, used, vis>>
    BY DEF Begin, files
  <1>2. mishaps' = mishaps \cup (IF \E t \in Sim : Creating(t) THEN {"overlap"} ELSE {})
    BY DEF Begin, Mishaps
  <1>3. sim[s] \in Processes /\ Runs[s] \in Nat \ {0} /\ 0 \in Instance
    <2>1. sim[s] \in Processes
      BY ProcessFields
    <2>2. Runs[s] \in Nat \ {0} /\ MaxInstances \in Nat \ {0}
      OBVIOUS
    <2>3. 0 \in Instance
      BY <2>2 DEF Instance
    <2>4. QED
      BY <2>1, <2>2, <2>3
  <1>4. ASSUME NEW p \in Pid, sim[s].pc = "new", \A t \in Sim : Alive(t) => sim[t].pid # p,
               sim' = [sim EXCEPT ![s].pc = "open", ![s].pid = p, ![s].run = 1]
        PROVE  /\ Others(s) /\ sim'[s].pc = "open" /\ sim'[s].scene = NoSeg /\ sim'[s].run <= Runs[s]
               /\ sim'[s].pid \in Pid /\ \A t \in Sim : Alive(t) => sim[t].pid # sim'[s].pid
    <2>1. sim[s].scene = NoSeg
      BY <1>4 DEF TypeOK
    <2> DEFINE q == [sim[s] EXCEPT !.pc = "open", !.pid = p, !.run = 1]
    <2>2. sim' = [sim EXCEPT ![s] = q]
      BY <1>4, SimType
    <2>3. q \in Processes /\ q.pc = "open" /\ q.scene = sim[s].scene /\ q.run = 1 /\ q.pid = p
      BY <1>3, Started
    <2> HIDE DEF q
    <2>4. Others(s) /\ sim'[s] = q
      BY <2>2, <2>3, OthersKept
    <2>5. sim'[s].run <= Runs[s]
      BY <1>3, <1>4, <2>2, <2>3, <2>4
    <2>6. QED
      BY <1>4, <2>1, <2>3, <2>4, <2>5
  <1>5. ASSUME sim[s].pc = "run", sim[s].run < Runs[s],
               sim' = [sim EXCEPT ![s].pc = "open", ![s].n = 0, ![s].scene = NoSeg, ![s].run = @ + 1]
        PROVE  /\ Others(s) /\ sim'[s].pc = "open" /\ sim'[s].scene = NoSeg /\ sim'[s].run <= Runs[s]
               /\ sim'[s].pid = sim[s].pid
    <2> DEFINE q == [sim[s] EXCEPT !.pc = "open", !.n = 0, !.scene = NoSeg, !.run = sim[s].run + 1]
    <2>1. sim' = [sim EXCEPT ![s] = q]
      BY <1>5, SimType
    <2>2. sim[s].run \in Nat /\ sim[s].run + 1 \in Nat
      <3>1. sim[s].run \in Nat
        BY ProcessFields
      <3>2. QED
        BY <3>1
    <2>3. q \in Processes /\ q.pc = "open" /\ q.scene = NoSeg /\ q.run = sim[s].run + 1 /\ q.pid = sim[s].pid
      BY <1>3, <2>2, Restarted
    <2> HIDE DEF q
    <2>4. Others(s) /\ sim'[s] = q
      BY <2>1, <2>3, OthersKept
    <2>5. sim'[s].run <= Runs[s]
      BY <1>3, <1>5, <2>2, <2>3, <2>4
    <2>6. QED
      BY <1>5, <2>1, <2>3, <2>4, <2>5
  <1>6. QED
    BY <1>1, <1>2, <1>4, <1>5 DEF Begin

LEMMA OpenEffect ==
    ASSUME TypeOK, NEW s \in Sim, Open(s)
    PROVE  \E x \in Seg :
             /\ GoesTo(s, "stat", x) /\ UNCHANGED <<size, header, vis, mishaps>>
             /\ \/ dir[sim[s].n] = x /\ x \in used /\ UNCHANGED <<dir, used>>
                \/ /\ dir[sim[s].n] = NoSeg /\ x \notin used
                   /\ dir' = [dir EXCEPT ![sim[s].n] = x] /\ used' = used \cup {x}
  <1>1. sim[s].n \in Instance /\ sim[s].pc = "open" /\ used \subseteq Seg /\ dir \in [Instance -> used \cup {NoSeg}]
    BY ProcessFields DEF Open, TypeOK
  <1>2. ASSUME NEW x \in Seg, sim' = [sim EXCEPT ![s].pc = "stat", ![s].fd = x]
        PROVE  GoesTo(s, "stat", x)
    <2> DEFINE q == [sim[s] EXCEPT !.pc = "stat", !.fd = x]
    <2>1. sim[s] \in Processes
      BY ProcessFields
    <2>2. sim' = [sim EXCEPT ![s] = q]
      BY <1>2, SimType
    <2>3. /\ q \in Processes /\ q.pc = "stat" /\ q.fd = x /\ q.pid = sim[s].pid /\ q.n = sim[s].n
          /\ q.scene = sim[s].scene /\ q.run = sim[s].run
      BY <2>1 DEF Processes
    <2> HIDE DEF q
    <2>4. QED
      BY <2>2, <2>3, OthersKept DEF GoesTo
  <1>3. CASE dir[sim[s].n] # NoSeg
    <2>1. dir[sim[s].n] \in Seg /\ dir[sim[s].n] \in used
      BY <1>1, <1>3
    <2>2. /\ sim' = [sim EXCEPT ![s].pc = "stat", ![s].fd = dir[sim[s].n]]
          /\ UNCHANGED <<dir, used>> /\ UNCHANGED <<size, header, vis, mishaps>>
      BY <1>3 DEF Open
    <2>3. QED
      BY <1>2, <2>1, <2>2
  <1>4. CASE dir[sim[s].n] = NoSeg
    <2>1. PICK x \in Seg \ used :
            /\ dir' = [dir EXCEPT ![sim[s].n] = x] /\ used' = used \cup {x}
            /\ sim' = [sim EXCEPT ![s].pc = "stat", ![s].fd = x]
      BY <1>4 DEF Open
    <2>2. GoesTo(s, "stat", x) /\ x \in Seg /\ x \notin used
      BY <1>2, <2>1
    <2>3. UNCHANGED <<size, header, vis, mishaps>>
      BY DEF Open
    <2>4. QED
      BY <1>4, <2>1, <2>2, <2>3
  <1>5. QED
    BY <1>3, <1>4

LEMMA RefusedEffect ==
    ASSUME TypeOK, NEW s \in Sim, Refused(s)
    PROVE  GoesOn(s)
  <1>1. sim[s] \in Processes /\ sim[s].n \in Nat /\ MaxInstances \in Nat
    BY ProcessFields
  <1>2. CASE sim[s].n + 1 < MaxInstances
    <2>1. sim' = [sim EXCEPT ![s] = [sim[s] EXCEPT !.pc = "open", !.n = sim[s].n + 1, !.fd = NoSeg]]
      BY <1>2 DEF Refused
    <2>2. sim[s].n + 1 \in Instance
      BY <1>1, <1>2 DEF Instance
    <2> DEFINE q == [sim[s] EXCEPT !.pc = "open", !.n = sim[s].n + 1, !.fd = NoSeg]
    <2>3. q \in Processes /\ q.pc = "open" /\ q.pid = sim[s].pid /\ q.scene = sim[s].scene /\ q.run = sim[s].run
      BY <1>1, <2>2, TriesNext
    <2>4. sim' = [sim EXCEPT ![s] = q]
      BY <2>1
    <2> HIDE DEF q
    <2>5. QED
      BY <2>3, <2>4, OthersKept DEF GoesOn
  <1>3. CASE ~(sim[s].n + 1 < MaxInstances)
    <2>1. sim' = [sim EXCEPT ![s] = [sim[s] EXCEPT !.pc = "run", !.fd = NoSeg]]
      BY <1>3 DEF Refused
    <2> DEFINE q == [sim[s] EXCEPT !.pc = "run", !.fd = NoSeg]
    <2>2. q \in Processes /\ q.pc = "run" /\ q.pid = sim[s].pid /\ q.scene = sim[s].scene /\ q.run = sim[s].run
      BY <1>1 DEF Processes
    <2>3. sim' = [sim EXCEPT ![s] = q]
      BY <2>1
    <2> HIDE DEF q
    <2>4. QED
      BY <2>2, <2>3, OthersKept DEF GoesOn
  <1>4. QED
    BY <1>2, <1>3

LEMMA PcEffect ==
    ASSUME TypeOK, NEW s \in Sim,
           NEW p \in {"peek", "owned", "resize", "wipe", "size", "own", "name", "prepare", "report"},
           sim' = [sim EXCEPT ![s].pc = p]
    PROVE  GoesTo(s, p, sim[s].fd)
  <1> DEFINE q == [sim[s] EXCEPT !.pc = p]
  <1>1. sim[s] \in Processes
    BY ProcessFields
  <1>2. sim' = [sim EXCEPT ![s] = q]
    BY SimType
  <1>3. /\ q \in Processes /\ q.pc = p /\ q.fd = sim[s].fd /\ q.pid = sim[s].pid /\ q.n = sim[s].n
        /\ q.scene = sim[s].scene /\ q.run = sim[s].run
    BY <1>1 DEF Processes
  <1> HIDE DEF q
  <1>4. QED
    BY <1>2, <1>3, OthersKept DEF GoesTo

LEMMA DeadEffect ==
    ASSUME TypeOK, NEW s \in Sim, sim' = [sim EXCEPT ![s] = Process("dead")]
    PROVE  Goes(s)
  <1>1. Process("dead") \in Processes
    BY DEF Process, Processes, Instance
  <1>2. Process("dead").pc = "dead" /\ Process("dead").scene = NoSeg /\ Process("dead").run = 0
    BY DEF Process
  <1>3. QED
    BY <1>1, <1>2 DEF TypeOK, Goes, Others

\* The names that are left lead where they led.
Fewer ==
    /\ dir' \in [Instance -> used \cup {NoSeg}]
    /\ \A m \in Instance : dir'[m] = dir[m] \/ dir'[m] = NoSeg

LEMMA UnlinkEffect ==
    ASSUME TypeOK, NEW n \in Instance, Unlink(n)
    PROVE  Fewer /\ dir'[n] = NoSeg
  BY DEF TypeOK, Unlink, Fewer

\* The header of x is h.
Header1(x, h) ==
    /\ header' \in [Seg -> Headers] /\ header'[x] = h
    /\ \A y \in Seg : y # x => header'[y] = header[y]

LEMMA OpenFailsEffect ==
    ASSUME TypeOK, NEW s \in Sim, OpenFails(s)
    PROVE  /\ sim[s].pc = "open" /\ GoesOn(s) /\ UNCHANGED <<dir, size, header, used, vis>>
           /\ mishaps' = mishaps \cup {"refused"}
  BY RefusedEffect DEF OpenFails, Mishaps, files

LEMMA StatEffect ==
    ASSUME TypeOK, NEW s \in Sim, Stat(s)
    PROVE  /\ sim[s].pc = "stat" /\ UNCHANGED <<dir, size, header, used, vis>>
           /\ \/ size[sim[s].fd] < 1 /\ GoesTo(s, "resize", sim[s].fd) /\ mishaps' = mishaps
              \/ GoesTo(s, "peek", sim[s].fd) /\ mishaps' = mishaps
              \/ GoesTo(s, "owned", sim[s].fd) /\ mishaps' = mishaps \cup {"refused"}
  <1>1. sim[s].pc = "stat" /\ UNCHANGED <<dir, size, header, used, vis>>
    BY DEF Stat, files
  <1>2. \/ size[sim[s].fd] < 1 /\ sim' = [sim EXCEPT ![s].pc = "resize"] /\ mishaps' = mishaps
        \/ sim' = [sim EXCEPT ![s].pc = "peek"] /\ mishaps' = mishaps
        \/ sim' = [sim EXCEPT ![s].pc = "owned"] /\ mishaps' = mishaps \cup {"refused"}
    BY DEF Stat, SizeOfScene, Mishaps
  <1>3. QED
    BY <1>1, <1>2, PcEffect

LEMMA PeekEffect ==
    ASSUME TypeOK, NEW s \in Sim, SegmentIsOwned(s)
    PROVE  /\ sim[s].pc = "peek" /\ UNCHANGED <<dir, size, header, used, vis>>
           /\ \/ GoesTo(s, "owned", sim[s].fd) /\ mishaps' = mishaps
              \/ ~mwProcessIsAlive(header[sim[s].fd].owner) /\ GoesTo(s, "resize", sim[s].fd) /\ mishaps' = mishaps
              \/ GoesTo(s, "resize", sim[s].fd) /\ mishaps' = mishaps \cup {"blind"}
  <1>1. sim[s].pc = "peek" /\ UNCHANGED <<dir, size, header, used, vis>>
    BY DEF SegmentIsOwned, files
  <1>2. \/ sim' = [sim EXCEPT ![s].pc = "owned"] /\ mishaps' = mishaps
        \/ /\ ~mwProcessIsAlive(header[sim[s].fd].owner)
           /\ sim' = [sim EXCEPT ![s].pc = "resize"] /\ mishaps' = mishaps
        \/ sim' = [sim EXCEPT ![s].pc = "resize"] /\ mishaps' = mishaps \cup {"blind"}
    BY DEF SegmentIsOwned, Mishaps
  <1>3. QED
    BY <1>1, <1>2, PcEffect

\* PassOver and MapFails remove the name.
LEMMA PassEffect ==
    ASSUME TypeOK, NEW s \in Sim, PassOver(s) \/ MapFails(s)
    PROVE  /\ sim[s].pc \in {"owned", "resize", "wipe"} /\ GoesOn(s) /\ Fewer /\ dir'[sim[s].n] = NoSeg
           /\ UNCHANGED <<size, header, used, vis, mishaps>>
  <1>1. sim[s].n \in Instance
    BY ProcessFields
  <1>2. QED
    BY <1>1, UnlinkEffect, RefusedEffect DEF PassOver, MapFails

LEMMA MapEffect ==
    ASSUME TypeOK, NEW s \in Sim, MapSharedSegment(s)
    PROVE  /\ sim[s].pc = "resize" /\ GoesTo(s, "wipe", sim[s].fd)
           /\ size' \in [Seg -> Nat] /\ size'[sim[s].fd] = nbFindShmemSize(Geometry[s])
           /\ \A y \in Seg : y # sim[s].fd => size'[y] = size[y]
           /\ UNCHANGED <<dir, header, used, vis, mishaps>>
  <1>1. sim[s].pc = "resize" /\ UNCHANGED <<dir, header, used, vis, mishaps>>
    BY DEF MapSharedSegment
  <1>2. GoesTo(s, "wipe", sim[s].fd)
    BY PcEffect DEF MapSharedSegment
  <1>3. sim[s].fd \in Seg
    BY <1>1, ProcessFields DEF Creating
  <1>4. Geometry[s] \in Nat /\ nbFindShmemSize(Geometry[s]) \in Nat
    BY DEF nbFindShmemSize
  <1>5. QED
    BY <1>1, <1>2, <1>3, <1>4 DEF MapSharedSegment, TypeOK

LEMMA StoreEffect ==
    ASSUME TypeOK, NEW s \in Sim, NEW from \in {"wipe", "size", "own", "name"},
           NEW to \in {"size", "own", "name", "prepare"}, NEW h \in Headers, Store(s, from, to, h)
    PROVE  /\ sim[s].pc = from /\ GoesTo(s, to, sim[s].fd) /\ Header1(sim[s].fd, h)
           /\ UNCHANGED <<dir, size, used, vis, mishaps>>
  <1>1. sim[s].pc = from /\ UNCHANGED <<dir, size, used, vis, mishaps>>
    BY DEF Store
  <1>2. GoesTo(s, to, sim[s].fd)
    BY PcEffect DEF Store
  <1>3. sim[s].fd \in Seg
    BY <1>1, ProcessFields DEF Creating
  <1>4. QED
    BY <1>1, <1>2, <1>3 DEF Store, TypeOK, Header1

\* What each store puts into the header.
LEMMA StoresEffect ==
    ASSUME TypeOK, NEW s \in Sim, Wipe(s) \/ StoreSize(s) \/ StoreOwner(s) \/ StoreName(s)
    PROVE  /\ UNCHANGED <<dir, size, used, vis, mishaps>>
           /\ \E h \in Headers, to \in {"size", "own", "name", "prepare"} :
                /\ GoesTo(s, to, sim[s].fd) /\ Header1(sim[s].fd, h)
                /\ \/ sim[s].pc = "wipe" /\ to = "size" /\ h = Zero
                   \/ /\ sim[s].pc = "size" /\ to = "own" /\ h.queue = Header(s).queue
                      /\ h.sceneSize = nbFindShmemSize(Geometry[s])
                      /\ h.owner = Header(s).owner /\ h.shmemName = Header(s).shmemName
                   \/ /\ sim[s].pc = "own" /\ to = "name" /\ h.queue = Header(s).queue
                      /\ h.sceneSize = Header(s).sceneSize /\ h.owner = sim[s].pid
                   \/ /\ sim[s].pc = "name" /\ to = "prepare" /\ h.queue = Header(s).queue
                      /\ h.sceneSize = Header(s).sceneSize /\ h.owner = Header(s).owner
                      /\ h.shmemName = sim[s].n
  <1>1. Geometry[s] \in Nat /\ nbFindShmemSize(Geometry[s]) \in Nat
    BY DEF nbFindShmemSize
  <1>2. sim[s].pid \in Pid \cup {0} /\ sim[s].n \in Instance
    BY ProcessFields
  <1>3. ASSUME sim[s].pc \in {"wipe", "size", "own", "name"}
        PROVE  Header(s) \in Headers
    <2>1. sim[s].fd \in Seg
      BY <1>3, ProcessFields DEF Creating
    <2>2. QED
      BY <2>1, HeaderFields DEF Header
  <1>4. CASE Wipe(s)
    <2>1. Zero \in Headers
      BY DEF Zero, Headers, NoName
    <2>2. QED
      BY <1>4, <2>1, StoreEffect DEF Wipe, Store
  <1>5. CASE StoreSize(s)
    <2>1. Header(s) \in Headers
      BY <1>3, <1>5 DEF StoreSize, Store
    <2> DEFINE h == [Header(s) EXCEPT !.sceneSize = nbFindShmemSize(Geometry[s])]
    <2>2. /\ h \in Headers /\ h.queue = Header(s).queue /\ h.sceneSize = nbFindShmemSize(Geometry[s])
          /\ h.owner = Header(s).owner /\ h.shmemName = Header(s).shmemName
      BY <1>1, <2>1 DEF Headers
    <2>3. Store(s, "size", "own", h)
      BY <1>5 DEF StoreSize
    <2> HIDE DEF h
    <2>4. /\ sim[s].pc = "size" /\ GoesTo(s, "own", sim[s].fd) /\ Header1(sim[s].fd, h)
          /\ UNCHANGED <<dir, size, used, vis, mishaps>>
      BY <2>2, <2>3, StoreEffect
    <2>5. QED
      BY <2>2, <2>4
  <1>6. CASE StoreOwner(s)
    <2>1. Header(s) \in Headers
      BY <1>3, <1>6 DEF StoreOwner, Store
    <2> DEFINE h == [Header(s) EXCEPT !.owner = sim[s].pid]
    <2>2. /\ h \in Headers /\ h.queue = Header(s).queue /\ h.sceneSize = Header(s).sceneSize
          /\ h.owner = sim[s].pid
      BY <1>2, <2>1 DEF Headers
    <2>3. Store(s, "own", "name", h)
      BY <1>6 DEF StoreOwner
    <2> HIDE DEF h
    <2>4. /\ sim[s].pc = "own" /\ GoesTo(s, "name", sim[s].fd) /\ Header1(sim[s].fd, h)
          /\ UNCHANGED <<dir, size, used, vis, mishaps>>
      BY <2>2, <2>3, StoreEffect
    <2>5. QED
      BY <2>2, <2>4
  <1>7. CASE StoreName(s)
    <2>1. Header(s) \in Headers
      BY <1>3, <1>7 DEF StoreName, Store
    <2> DEFINE h == [Header(s) EXCEPT !.shmemName = sim[s].n]
    <2>2. /\ h \in Headers /\ h.queue = Header(s).queue /\ h.sceneSize = Header(s).sceneSize
          /\ h.owner = Header(s).owner /\ h.shmemName = sim[s].n
      BY <1>2, <2>1 DEF Headers
    <2>3. Store(s, "name", "prepare", h)
      BY <1>7 DEF StoreName
    <2> HIDE DEF h
    <2>4. /\ sim[s].pc = "name" /\ GoesTo(s, "prepare", sim[s].fd) /\ Header1(sim[s].fd, h)
          /\ UNCHANGED <<dir, size, used, vis, mishaps>>
      BY <2>2, <2>3, StoreEffect
    <2>5. QED
      BY <2>2, <2>4
  <1>8. QED
    BY <1>4, <1>5, <1>6, <1>7

LEMMA PrepareEffect ==
    ASSUME TypeOK, NEW s \in Sim, PrepareScene(s)
    PROVE  /\ sim[s].pc = "prepare" /\ Others(s) /\ UNCHANGED <<dir, size, used, vis, mishaps>>
           /\ sim'[s].pc = "run" /\ sim'[s].scene = sim[s].fd /\ sim'[s].pid = sim[s].pid
           /\ sim'[s].n = sim[s].n /\ sim'[s].run = sim[s].run
           /\ \E h \in Headers :
                /\ Header1(sim[s].fd, h) /\ h.owner = Header(s).owner /\ h.sceneSize = Header(s).sceneSize
                /\ h.shmemName = Header(s).shmemName /\ h.nbody = Geometry[s]
                /\ h.queue = Header(s).queue \cup {s}
  <1>1. sim[s].pc = "prepare" /\ UNCHANGED <<dir, size, used, vis, mishaps>>
    BY DEF PrepareScene
  <1>2. sim[s].fd \in Seg /\ sim[s] \in Processes /\ Geometry[s] \in Nat
    BY <1>1, ProcessFields DEF Creating
  <1>3. Header(s) \in Headers
    BY <1>2, HeaderFields DEF Header
  <1> DEFINE q == [sim[s] EXCEPT !.pc = "run", !.scene = sim[s].fd, !.fd = NoSeg]
             h == [Header(s) EXCEPT !.nbody = Geometry[s], !.queue = Header(s).queue \cup {s}]
  <1>4. sim' = [sim EXCEPT ![s] = q]
    BY SimType DEF PrepareScene
  <1>5. q \in Processes
    BY <1>2 DEF Processes
  <1>6. /\ q.pc = "run" /\ q.scene = sim[s].fd /\ q.pid = sim[s].pid /\ q.n = sim[s].n
        /\ q.run = sim[s].run
    BY <1>2 DEF Processes
  <1>7. header \in [Seg -> Headers] /\ header' = [header EXCEPT ![sim[s].fd] = h]
    BY <1>2 DEF PrepareScene, TypeOK, Header
  <1>8. Header(s).queue \in SUBSET Sim
    BY <1>3 DEF Headers
  <1>9. /\ h \in Headers /\ h.owner = Header(s).owner /\ h.sceneSize = Header(s).sceneSize
        /\ h.shmemName = Header(s).shmemName /\ h.nbody = Geometry[s]
        /\ h.queue = Header(s).queue \cup {s}
    BY <1>2, <1>3, <1>8 DEF Headers
  <1> HIDE DEF q, h
  <1>10. Others(s) /\ sim'[s] = q
    BY <1>4, <1>5, OthersKept
  <1>11. Header1(sim[s].fd, h)
    BY <1>2, <1>7, <1>9 DEF Header1
  <1>12. QED
    BY <1>1, <1>6, <1>9, <1>10, <1>11

LEMMA CompleteEffect ==
    ASSUME TypeOK, NEW s \in Sim, Complete(s)
    PROVE  /\ sim[s].pc = "run" /\ GoesTo(s, "report", sim[s].fd)
           /\ UNCHANGED <<dir, size, used, vis, mishaps>>
           /\ \/ sim[s].scene = NoSeg /\ header' = header
              \/ /\ Running(s) /\ sim[s].scene \in Seg
                 /\ \E h \in Headers : /\ Header1(sim[s].scene, h) /\ h.owner = 0
                                       /\ h.shmemName = header[sim[s].scene].shmemName
  <1>1. sim[s].pc = "run" /\ UNCHANGED <<dir, size, used, vis, mishaps>>
    BY DEF Complete
  <1>2. GoesTo(s, "report", sim[s].fd)
    BY PcEffect DEF Complete
  <1>3. CASE sim[s].scene = NoSeg
    BY <1>1, <1>2, <1>3 DEF Complete
  <1>4. CASE sim[s].scene # NoSeg
    <2>1. sim[s].scene \in Seg /\ Running(s)
      BY <1>1, <1>4, ProcessFields DEF Running
    <2>2. header[sim[s].scene] \in Headers
      BY <2>1, HeaderFields
    <2> DEFINE h == [header[sim[s].scene] EXCEPT !.owner = 0]
    <2>3. h \in Headers /\ h.owner = 0 /\ h.shmemName = header[sim[s].scene].shmemName
      BY <2>2 DEF Headers
    <2>4. header \in [Seg -> Headers] /\ header' = [header EXCEPT ![sim[s].scene] = h]
      BY <1>4, <2>1 DEF Complete, TypeOK
    <2> HIDE DEF h
    <2>5. Header1(sim[s].scene, h)
      BY <2>1, <2>3, <2>4 DEF Header1
    <2>6. QED
      BY <1>1, <1>2, <2>1, <2>3, <2>5
  <1>5. QED
    BY <1>3, <1>4

LEMMA DetachEffect ==
    ASSUME TypeOK, NEW s \in Sim, Detach(s)
    PROVE  /\ sim[s].pc = "report" /\ Goes(s) /\ Fewer /\ UNCHANGED <<size, header, used, vis, mishaps>>
           /\ sim[s].scene # NoSeg /\ header[sim[s].scene].shmemName \in Instance
                => dir'[header[sim[s].scene].shmemName] = NoSeg
  <1>1. sim[s].pc = "report" /\ UNCHANGED <<size, header, used, vis, mishaps>>
    BY DEF Detach
  <1>2. Goes(s)
    BY DeadEffect DEF Detach
  <1>3. CASE sim[s].scene # NoSeg /\ header[sim[s].scene].shmemName \in Instance
    <2>1. Unlink(header[sim[s].scene].shmemName)
      BY <1>3 DEF Detach
    <2>2. QED
      BY <1>1, <1>2, <1>3, <2>1, UnlinkEffect
  <1>4. CASE ~(sim[s].scene # NoSeg /\ header[sim[s].scene].shmemName \in Instance)
    <2>1. dir' = dir
      BY <1>4 DEF Detach
    <2>2. QED
      BY <1>1, <1>2, <1>4, <2>1 DEF Fewer, TypeOK
  <1>5. QED
    BY <1>3, <1>4

LEMMA KillEffect ==
    ASSUME TypeOK, NEW s \in Sim, Kill(s)
    PROVE  /\ Alive(s) /\ Goes(s) /\ UNCHANGED <<dir, size, header, used, vis>>
           /\ mishaps' = mishaps \cup {"killed"}
  BY DeadEffect DEF Kill, Mishaps, files

\* The visualizer only removes names; when it attaches, it has mapped all of
\* the scene of the simulation it is let in to.
LEMMA VisEffect ==
    ASSUME TypeOK, Connect
    PROVE  /\ Fewer /\ UNCHANGED <<size, header, used, sim, mishaps>>
           /\ vis' \in Visualizers /\ (vis'.pc # "off" => vis'.fd \in used)
           /\ vis'.pc = "attached" /\ vis'.of \in Sim =>
                /\ Running(vis'.of) /\ vis'.fd \in Seg /\ sim[vis'.of].scene = vis'.fd
                /\ vis'.mapped >= nbFindShmemSize(header[vis'.fd].nbody)
  <1>1. /\ vis \in Visualizers /\ dir \in [Instance -> used \cup {NoSeg}] /\ used \subseteq Seg
        /\ vis.pc # "off" => vis.fd \in used
    BY DEF TypeOK
  <1>2. vis.n \in Instance /\ Off \in Visualizers /\ Off.pc = "off"
    BY <1>1 DEF Visualizers, Off, Instance
  <1>3. dir' = dir => Fewer
    BY <1>1 DEF Fewer
  <1>4. Unlink(vis.n) => Fewer
    BY <1>2, UnlinkEffect
  <1>5. CASE VisOpen
    <2>1. PICK n \in Instance : dir[n] # NoSeg /\ vis' = [vis EXCEPT !.pc = "map", !.n = n, !.fd = dir[n]]
      BY <1>5 DEF VisOpen
    <2>2. dir[n] \in used /\ dir[n] \in Seg
      BY <1>1, <2>1
    <2>3. vis' \in Visualizers /\ vis'.pc = "map" /\ vis'.fd = dir[n]
      BY <1>1, <2>1, <2>2 DEF Visualizers
    <2>4. UNCHANGED <<dir, size, header, used, sim, mishaps>>
      BY <1>5 DEF VisOpen, files
    <2>5. QED
      BY <1>3, <2>2, <2>3, <2>4
  <1>6. CASE VisMap
    <2>1. UNCHANGED <<size, header, used, sim, mishaps>> /\ vis.pc = "map" /\ vis.fd \in used
      BY <1>1, <1>6 DEF VisMap
    <2>2. CASE size[vis.fd] = 0
      BY <1>2, <1>4, <1>6, <2>1, <2>2 DEF VisMap
    <2>3. CASE size[vis.fd] # 0
      <3>1. vis' = [vis EXCEPT !.pc = "load", !.mapped = size[vis.fd]] /\ dir' = dir
        BY <1>6, <2>3 DEF VisMap
      <3>2. size[vis.fd] \in Nat
        BY <1>1, <2>1, HeaderFields
      <3>3. vis' \in Visualizers /\ vis'.pc = "load" /\ vis'.fd = vis.fd
        BY <1>1, <3>1, <3>2 DEF Visualizers
      <3>4. QED
        BY <1>3, <2>1, <3>1, <3>3
    <2>4. QED
      BY <2>2, <2>3
  <1>7. CASE VisLoad
    <2>1. UNCHANGED <<dir, size, header, used, sim, mishaps>> /\ vis.pc = "load" /\ vis.fd \in used
      BY <1>1, <1>7 DEF VisLoad, files
    <2>2. header[vis.fd].sceneSize \in Nat
      BY <1>1, <2>1, HeaderFields
    <2>3. vis' = [vis EXCEPT !.pc = "test", !.want = header[vis.fd].sceneSize]
      BY <1>7 DEF VisLoad
    <2>4. vis' \in Visualizers /\ vis'.pc = "test" /\ vis'.fd = vis.fd
      BY <1>1, <2>2, <2>3 DEF Visualizers
    <2>5. QED
      BY <1>3, <2>1, <2>4
  <1>8. CASE VisTest
    <2> DEFINE calc == nbFindShmemSize(header[vis.fd].nbody)
               owner == {s \in Sim : Running(s) /\ sim[s].scene = vis.fd}
               of == IF owner = {} THEN NoSeg ELSE CHOOSE s \in owner : TRUE
               fails == vis.mapped < vis.want \/ vis.mapped < calc \/ calc # vis.want
    <2>1. UNCHANGED <<size, header, used, sim, mishaps>> /\ vis.pc = "test" /\ vis.fd \in used
      BY <1>1, <1>8 DEF VisTest
    <2>2. CASE fails
      <3>1. Unlink(vis.n) /\ vis' = Off
        BY <1>8, <2>2 DEF VisTest
      <3>2. QED
        BY <1>2, <1>4, <2>1, <3>1
    <2>3. CASE ~fails
      <3>1. vis' = [vis EXCEPT !.pc = "attached", !.of = of] /\ dir' = dir
        BY <1>8, <2>3 DEF VisTest
      <3>2. of = NoSeg \/ of \in owner
        OBVIOUS
      <3>3. of \in Sim => Running(of) /\ sim[of].scene = vis.fd
        BY <3>2
      <3>4. of \in Sim \cup {NoSeg}
        BY <3>2
      <3>5. ~(vis.mapped < calc)
        BY <2>3
      <3>6. vis.mapped \in Nat /\ calc \in Nat
        <4>1. header[vis.fd].nbody \in Nat
          BY <1>1, <2>1, HeaderFields
        <4>2. calc \in Nat
          BY <4>1 DEF nbFindShmemSize
        <4>3. QED
          BY <1>1, <4>2 DEF Visualizers
      <3> HIDE DEF of, owner
      <3>7. /\ vis' \in Visualizers /\ vis'.pc = "attached" /\ vis'.fd = vis.fd /\ vis'.of = of
            /\ vis'.mapped = vis.mapped
        BY <1>1, <3>1, <3>4 DEF Visualizers
      <3>8. vis.mapped >= calc
        BY <3>5, <3>6
      <3>9. QED
        BY <1>1, <1>3, <2>1, <3>1, <3>3, <3>7, <3>8
    <2>4. QED
      BY <2>2, <2>3
  <1>9. CASE VisQuit
    <2>1. UNCHANGED <<dir, size, header, used, sim, mishaps>> /\ vis' = Off
      BY <1>9 DEF VisQuit, files
    <2>2. QED
      BY <1>2, <1>3, <2>1
  <1>10. QED
    BY <1>5, <1>6, <1>7, <1>8, <1>9 DEF Connect

-----------------------------------------------------------------------------
(* Type correctness.                                                        *)

\* A process is where the program may be with it.
ProcessOK(q, s, segs) ==
    /\ q.run <= Runs[s] /\ q.scene \in segs \cup {NoSeg}
    /\ q.pc \in {"new", "open", "stat", "peek", "owned", "resize", "wipe", "size", "own", "name", "prepare"}
         => q.scene = NoSeg
    /\ q.pc \in {"stat", "peek", "owned", "resize", "wipe", "size", "own", "name", "prepare"} => q.fd \in segs

LEMMA ProcessIsOK ==
    ASSUME TypeOK
    PROVE  \A t \in Sim : ProcessOK(sim[t], t, used)
  BY DEF TypeOK, ProcessOK, Creating

LEMMA ProcessesTyped ==
    ASSUME TypeOK, NEW s \in Sim, Others(s), used \subseteq used', ProcessOK(sim'[s], s, used')
    PROVE  /\ sim' \in [Sim -> Processes]
           /\ \A t \in Sim : /\ sim'[t].run <= Runs[t] /\ sim'[t].scene \in used' \cup {NoSeg}
                             /\ (Creating(t) \/ sim[t].pc = "new" => sim[t].scene = NoSeg)'
                             /\ (Creating(t) /\ sim[t].pc # "open" => sim[t].fd \in used)'
  <1>1. \A t \in Sim : ProcessOK(sim[t], t, used)
    BY ProcessIsOK
  <1>2. \A t \in Sim : ProcessOK(sim'[t], t, used')
    BY <1>1 DEF Others, ProcessOK
  <1>3. QED
    BY <1>2 DEF Others, ProcessOK, Creating

LEMMA TypeStep ==
    ASSUME TypeOK, [Next]_vars
    PROVE  TypeOK'
  <1> USE DEF Mishap
  <1>1. /\ used \subseteq Seg /\ mishaps \subseteq Mishap /\ dir \in [Instance -> used \cup {NoSeg}]
        /\ size \in [Seg -> Nat] /\ header \in [Seg -> Headers] /\ vis \in Visualizers
        /\ vis.pc # "off" => vis.fd \in used
    BY DEF TypeOK
  <1>2. ASSUME NEW s \in Sim, Create(s) \/ Complete(s) \/ Detach(s) \/ Kill(s)
        PROVE  TypeOK'
    <2>1. ProcessOK(sim[s], s, used) /\ 0 <= Runs[s]
      BY ProcessIsOK
    <2>2. CASE Begin(s)
      <3>1. ProcessOK(sim'[s], s, used) /\ Others(s)
        BY <2>2, BeginEffect DEF ProcessOK
      <3>2. UNCHANGED <<dir, size, header, used, vis>> /\ mishaps' \subseteq Mishap
        BY <1>1, <2>2, BeginEffect
      <3>3. QED
        BY <1>1, <3>1, <3>2, ProcessesTyped DEF TypeOK
    <2>3. CASE Open(s)
      <3>1. PICK x \in Seg :
              /\ GoesTo(s, "stat", x) /\ UNCHANGED <<size, header, vis, mishaps>>
              /\ \/ dir[sim[s].n] = x /\ x \in used /\ UNCHANGED <<dir, used>>
                 \/ /\ dir[sim[s].n] = NoSeg /\ x \notin used
                    /\ dir' = [dir EXCEPT ![sim[s].n] = x] /\ used' = used \cup {x}
        BY <2>3, OpenEffect
      <3>2. used \subseteq used' /\ used' \subseteq Seg /\ x \in used' /\ dir' \in [Instance -> used' \cup {NoSeg}]
        BY <1>1, <3>1
      <3>3. ProcessOK(sim'[s], s, used') /\ Others(s)
        BY <2>1, <2>3, <3>1, <3>2 DEF ProcessOK, GoesTo, Open
      <3>4. QED
        BY <1>1, <3>1, <3>2, <3>3, ProcessesTyped DEF TypeOK
    <2>4. CASE OpenFails(s)
      <3>1. ProcessOK(sim'[s], s, used) /\ Others(s)
        BY <2>1, <2>4, OpenFailsEffect DEF ProcessOK, GoesOn
      <3>2. UNCHANGED <<dir, size, header, used, vis>> /\ mishaps' \subseteq Mishap
        BY <1>1, <2>4, OpenFailsEffect
      <3>3. QED
        BY <1>1, <3>1, <3>2, ProcessesTyped DEF TypeOK
    <2>5. CASE Stat(s) \/ SegmentIsOwned(s)
      <3>1. UNCHANGED <<dir, size, header, used, vis>> /\ mishaps' \subseteq Mishap
        BY <1>1, <2>5, StatEffect, PeekEffect
      <3>2. sim[s].pc \in {"stat", "peek"} /\ \E pc \in {"resize", "peek", "owned"} : GoesTo(s, pc, sim[s].fd)
        BY <2>5, StatEffect, PeekEffect
      <3>3. ProcessOK(sim'[s], s, used) /\ Others(s)
        BY <2>1, <3>2 DEF ProcessOK, GoesTo
      <3>4. QED
        BY <1>1, <3>1, <3>3, ProcessesTyped DEF TypeOK
    <2>6. CASE PassOver(s) \/ MapFails(s)
      <3>1. sim[s].pc \in {"owned", "resize", "wipe"} /\ GoesOn(s) /\ Fewer /\ UNCHANGED <<size, header, used, vis, mishaps>>
        BY <2>6, PassEffect
      <3>2. ProcessOK(sim'[s], s, used) /\ Others(s)
        BY <2>1, <3>1 DEF ProcessOK, GoesOn
      <3>3. QED
        BY <1>1, <3>1, <3>2, ProcessesTyped DEF TypeOK, Fewer
    <2>7. CASE MapSharedSegment(s)
      <3>1. /\ sim[s].pc = "resize" /\ GoesTo(s, "wipe", sim[s].fd) /\ size' \in [Seg -> Nat]
            /\ UNCHANGED <<dir, header, used, vis, mishaps>>
        BY <2>7, MapEffect
      <3>2. ProcessOK(sim'[s], s, used) /\ Others(s)
        BY <2>1, <3>1 DEF ProcessOK, GoesTo
      <3>3. QED
        BY <1>1, <3>1, <3>2, ProcessesTyped DEF TypeOK
    <2>8. CASE Wipe(s) \/ StoreSize(s) \/ StoreOwner(s) \/ StoreName(s)
      <3>1. PICK h \in Headers, to \in {"size", "own", "name", "prepare"} :
              GoesTo(s, to, sim[s].fd) /\ Header1(sim[s].fd, h) /\ sim[s].pc \in {"wipe", "size", "own", "name"}
        BY <2>8, StoresEffect
      <3>2. UNCHANGED <<dir, size, used, vis, mishaps>> /\ header' \in [Seg -> Headers]
        BY <2>8, <3>1, StoresEffect DEF Header1
      <3>3. ProcessOK(sim'[s], s, used) /\ Others(s)
        BY <2>1, <3>1 DEF ProcessOK, GoesTo
      <3>4. QED
        BY <1>1, <3>2, <3>3, ProcessesTyped DEF TypeOK
    <2>9. CASE PrepareScene(s)
      <3>1. UNCHANGED <<dir, size, used, vis, mishaps>> /\ header' \in [Seg -> Headers]
        BY <2>9, PrepareEffect DEF Header1
      <3>2. ProcessOK(sim'[s], s, used) /\ Others(s)
        BY <2>1, <2>9, PrepareEffect DEF ProcessOK
      <3>3. QED
        BY <1>1, <3>1, <3>2, ProcessesTyped DEF TypeOK
    <2>10. CASE Complete(s)
      <3>1. UNCHANGED <<dir, size, used, vis, mishaps>> /\ header' \in [Seg -> Headers]
        BY <1>1, <2>10, CompleteEffect DEF Header1
      <3>2. ProcessOK(sim'[s], s, used) /\ Others(s)
        BY <2>1, <2>10, CompleteEffect DEF ProcessOK, GoesTo
      <3>3. QED
        BY <1>1, <3>1, <3>2, ProcessesTyped DEF TypeOK
    <2>11. CASE Detach(s)
      <3>1. Goes(s) /\ Fewer /\ UNCHANGED <<size, header, used, vis, mishaps>>
        BY <2>11, DetachEffect
      <3>2. ProcessOK(sim'[s], s, used) /\ Others(s)
        BY <2>1, <3>1 DEF ProcessOK, Goes
      <3>3. QED
        BY <1>1, <3>1, <3>2, ProcessesTyped DEF TypeOK, Fewer
    <2>12. CASE Kill(s)
      <3>1. Goes(s) /\ UNCHANGED <<dir, size, header, used, vis>> /\ mishaps' \subseteq Mishap
        BY <1>1, <2>12, KillEffect
      <3>2. ProcessOK(sim'[s], s, used) /\ Others(s)
        BY <2>1, <3>1 DEF ProcessOK, Goes
      <3>3. QED
        BY <1>1, <3>1, <3>2, ProcessesTyped DEF TypeOK
    <2>13. QED
      BY <1>2, <2>2, <2>3, <2>4, <2>5, <2>6, <2>7, <2>8, <2>9, <2>10, <2>11, <2>12 DEF Create
  <1>3. CASE Connect
    BY <1>1, <1>3, VisEffect DEF TypeOK, Creating, Fewer
  <1>4. CASE UNCHANGED vars
    BY <1>4 DEF TypeOK, vars, Creating
  <1>5. QED
    BY <1>2, <1>3, <1>4 DEF Next

-----------------------------------------------------------------------------
(* Living simulations have pids of their own.                               *)

LEMMA PidsKept ==
    ASSUME PidInv, \A t \in Sim : sim'[t].pc \notin {"new", "dead"} => Alive(t) /\ sim'[t].pid = sim[t].pid
    PROVE  PidInv'
  BY DEF PidInv, Alive

LEMMA PidStep ==
    ASSUME TypeOK, PidInv, [Next]_vars
    PROVE  PidInv'
  <1>1. ASSUME NEW s \in Sim, Create(s) \/ Complete(s) \/ Detach(s) \/ Kill(s)
        PROVE  PidInv'
    <2>1. CASE Begin(s)
      <3>1. /\ Others(s) /\ sim'[s].pc = "open"
            /\ \/ /\ sim[s].pc = "new" /\ sim'[s].pid \in Pid
                  /\ \A t \in Sim : Alive(t) => sim[t].pid # sim'[s].pid
               \/ sim[s].pc = "run" /\ sim'[s].pid = sim[s].pid
        BY <2>1, BeginEffect
      <3>2. CASE sim[s].pc = "run" /\ sim'[s].pid = sim[s].pid
        BY <3>1, <3>2, PidsKept DEF Others, Alive
      <3>3. CASE sim[s].pc = "new" /\ sim'[s].pid \in Pid /\ \A t \in Sim : Alive(t) => sim[t].pid # sim'[s].pid
        BY <3>1, <3>3 DEF PidInv, Others, Alive
      <3>4. QED
        BY <3>1, <3>2, <3>3
    <2>2. CASE Open(s)
      BY <2>2, OpenEffect, PidsKept DEF GoesTo, Others, Alive, Open
    <2>3. CASE OpenFails(s)
      BY <2>3, OpenFailsEffect, PidsKept DEF GoesOn, Others, Alive
    <2>4. CASE Stat(s)
      BY <2>4, StatEffect, PidsKept DEF GoesTo, Others, Alive
    <2>5. CASE SegmentIsOwned(s)
      BY <2>5, PeekEffect, PidsKept DEF GoesTo, Others, Alive
    <2>6. CASE PassOver(s) \/ MapFails(s)
      BY <2>6, PassEffect, PidsKept DEF GoesOn, Others, Alive
    <2>7. CASE MapSharedSegment(s)
      BY <2>7, MapEffect, PidsKept DEF GoesTo, Others, Alive
    <2>8. CASE Wipe(s) \/ StoreSize(s) \/ StoreOwner(s) \/ StoreName(s)
      BY <2>8, StoresEffect, PidsKept DEF GoesTo, Others, Alive
    <2>9. CASE PrepareScene(s)
      BY <2>9, PrepareEffect, PidsKept DEF Others, Alive
    <2>10. CASE Complete(s)
      BY <2>10, CompleteEffect, PidsKept DEF GoesTo, Others, Alive
    <2>11. CASE Detach(s)
      BY <2>11, DetachEffect, PidsKept DEF Goes, Others, Alive
    <2>12. CASE Kill(s)
      BY <2>12, KillEffect, PidsKept DEF Goes, Others, Alive
    <2>13. QED
      BY <1>1, <2>1, <2>2, <2>3, <2>4, <2>5, <2>6, <2>7, <2>8, <2>9, <2>10, <2>11, <2>12 DEF Create
  <1>2. CASE Connect
    BY <1>2, VisEffect DEF PidInv, Alive
  <1>3. CASE UNCHANGED vars
    BY <1>3 DEF PidInv, Alive, vars
  <1>4. QED
    BY <1>1, <1>2, <1>3 DEF Next

-----------------------------------------------------------------------------
(* A segment has one name.                                                  *)

\* The process q has the segment x open, or runs with it.
Holds(q, x) ==
    \/ /\ q.pc \in {"stat", "peek", "owned", "resize", "wipe", "size", "own", "name", "prepare"}
       /\ q.fd = x
    \/ q.pc = "run" /\ q.scene = x

LEMMA NameHolds ==
    ASSUME TypeOK
    PROVE  NameInv <=>
             /\ \A m, n \in Instance : dir[m] = dir[n] /\ dir[m] # NoSeg => m = n
             /\ \A t \in Sim, m \in Instance :
                  dir[m] # NoSeg /\ Holds(sim[t], dir[m]) => m = sim[t].n
  <1>1. \A t \in Sim : Creating(t) /\ sim[t].pc # "open" => sim[t].fd # NoSeg
    BY DEF TypeOK
  <1>2. QED
    BY <1>1 DEF NameInv, Holds, Creating, Running

LEMMA NamesKept ==
    ASSUME TypeOK, TypeOK', NameInv, Fewer, NEW s \in Sim, Others(s),
           \A x \in Seg : Holds(sim'[s], x) => Holds(sim[s], x) /\ sim'[s].n = sim[s].n
    PROVE  NameInv'
  <1>1. /\ \A m, n \in Instance : dir[m] = dir[n] /\ dir[m] # NoSeg => m = n
        /\ \A t \in Sim, m \in Instance : dir[m] # NoSeg /\ Holds(sim[t], dir[m]) => m = sim[t].n
    BY NameHolds
  <1>2. \A m \in Instance : dir'[m] = dir[m] \/ dir'[m] = NoSeg
    BY DEF Fewer
  <1>3. \A m \in Instance : dir[m] # NoSeg => dir[m] \in Seg
    BY DEF TypeOK
  <1>4. ASSUME NEW t \in Sim, NEW m \in Instance, dir'[m] # NoSeg, Holds(sim'[t], dir'[m])
        PROVE  m = sim'[t].n
    <2>1. dir'[m] = dir[m] /\ dir[m] # NoSeg /\ dir[m] \in Seg
      BY <1>2, <1>3, <1>4
    <2>2. Holds(sim[t], dir[m]) /\ sim'[t].n = sim[t].n
      BY <1>4, <2>1 DEF Others
    <2>3. QED
      BY <1>1, <2>1, <2>2
  <1>5. \A t \in Sim : (Creating(t) /\ sim[t].pc # "open" => sim[t].fd # NoSeg)'
    BY DEF TypeOK
  <1>6. \A m, n \in Instance : dir'[m] = dir'[n] /\ dir'[m] # NoSeg => m = n
    BY <1>1, <1>2
  <1>7. QED
    BY <1>4, <1>5, <1>6 DEF NameInv, Creating, Running, Holds

LEMMA NameStep ==
    ASSUME TypeOK, TypeOK', NameInv, [Next]_vars
    PROVE  NameInv'
  <1>1. dir' = dir => Fewer
    BY DEF Fewer, TypeOK
  <1>2. ASSUME NEW s \in Sim, Create(s) \/ Complete(s) \/ Detach(s) \/ Kill(s)
        PROVE  NameInv'
    <2>1. CASE Begin(s)
      BY <1>1, <2>1, BeginEffect, NamesKept DEF Holds
    <2>2. CASE Open(s)
      <3>1. PICK x \in Seg :
              /\ GoesTo(s, "stat", x)
              /\ \/ dir[sim[s].n] = x /\ x \in used /\ UNCHANGED <<dir, used>>
                 \/ /\ dir[sim[s].n] = NoSeg /\ x \notin used
                    /\ dir' = [dir EXCEPT ![sim[s].n] = x] /\ used' = used \cup {x}
        BY <2>2, OpenEffect
      <3>2. sim[s].n \in Instance /\ dir \in [Instance -> used \cup {NoSeg}] /\ x # NoSeg
        BY ProcessFields DEF TypeOK
      <3>3. /\ \A m, n \in Instance : dir[m] = dir[n] /\ dir[m] # NoSeg => m = n
            /\ \A t \in Sim, m \in Instance : dir[m] # NoSeg /\ Holds(sim[t], dir[m]) => m = sim[t].n
        BY NameHolds
      <3>4. /\ dir'[sim[s].n] = x
            /\ \A m \in Instance : m # sim[s].n => dir'[m] = dir[m] /\ dir[m] # x
        BY <3>1, <3>2, <3>3
      <3>5. \A m, n \in Instance : dir'[m] = dir'[n] /\ dir'[m] # NoSeg => m = n
        BY <3>3, <3>4
      <3>6. \A t \in Sim : (Creating(t) /\ sim[t].pc # "open" => sim[t].fd # NoSeg)'
        BY DEF TypeOK
      <3>7. \A t \in Sim : t # s /\ Holds(sim[t], x) => dir[sim[s].n] = x
        <4>1. ASSUME NEW t \in Sim, Holds(sim[t], x), x \notin used
              PROVE  FALSE
          BY <3>2, <4>1, ProcessIsOK DEF Holds, ProcessOK
        <4>2. QED
          BY <3>1, <4>1
      <3>8. ASSUME NEW t \in Sim, NEW m \in Instance, dir'[m] # NoSeg, Holds(sim'[t], dir'[m])
            PROVE  m = sim'[t].n
        <4>1. CASE t = s
          BY <3>1, <3>4, <3>8, <4>1 DEF GoesTo, Holds
        <4>2. CASE t # s
          <5>1. sim'[t] = sim[t]
            BY <3>1, <4>2 DEF GoesTo, Others
          <5>2. CASE m = sim[s].n
            BY <3>2, <3>3, <3>4, <3>7, <3>8, <4>2, <5>1, <5>2
          <5>3. CASE m # sim[s].n
            BY <3>3, <3>4, <3>8, <5>1, <5>3
          <5>4. QED
            BY <5>2, <5>3
        <4>3. QED
          BY <4>1, <4>2
      <3>9. QED
        BY <3>5, <3>6, <3>8 DEF NameInv, Creating, Running, Holds
    <2>3. CASE OpenFails(s)
      <3>1. Fewer /\ GoesOn(s) /\ sim[s].scene = NoSeg
        BY <1>1, <2>3, OpenFailsEffect, ProcessIsOK DEF ProcessOK
      <3>2. QED
        BY <3>1, NamesKept DEF GoesOn, Holds
    <2>4. CASE Stat(s)
      BY <1>1, <2>4, StatEffect, NamesKept DEF GoesTo, Holds
    <2>5. CASE SegmentIsOwned(s)
      BY <1>1, <2>5, PeekEffect, NamesKept DEF GoesTo, Holds
    <2>6. CASE PassOver(s) \/ MapFails(s)
      <3>1. Fewer /\ GoesOn(s) /\ sim[s].scene = NoSeg
        BY <2>6, PassEffect, ProcessIsOK DEF ProcessOK
      <3>2. QED
        BY <3>1, NamesKept DEF GoesOn, Holds
    <2>7. CASE MapSharedSegment(s)
      BY <1>1, <2>7, MapEffect, NamesKept DEF GoesTo, Holds
    <2>8. CASE Wipe(s) \/ StoreSize(s) \/ StoreOwner(s) \/ StoreName(s)
      BY <1>1, <2>8, StoresEffect, NamesKept DEF GoesTo, Holds
    <2>9. CASE PrepareScene(s)
      BY <1>1, <2>9, PrepareEffect, NamesKept DEF Holds
    <2>10. CASE Complete(s)
      BY <1>1, <2>10, CompleteEffect, NamesKept DEF GoesTo, Holds
    <2>11. CASE Detach(s)
      BY <2>11, DetachEffect, NamesKept DEF Goes, Holds
    <2>12. CASE Kill(s)
      BY <1>1, <2>12, KillEffect, NamesKept DEF Goes, Holds
    <2>13. QED
      BY <1>2, <2>1, <2>2, <2>3, <2>4, <2>5, <2>6, <2>7, <2>8, <2>9, <2>10, <2>11, <2>12 DEF Create
  <1>3. CASE Connect
    <2>1. \A t \in Sim : Creating(t) /\ sim[t].pc # "open" => sim[t].fd # NoSeg
      BY DEF TypeOK
    <2>2. sim' = sim /\ \A m \in Instance : dir'[m] = dir[m] \/ dir'[m] = NoSeg
      BY <1>3, VisEffect DEF Fewer
    <2>3. \A m, n \in Instance : dir'[m] = dir'[n] /\ dir'[m] # NoSeg => m = n
      BY <2>2 DEF NameInv
    <2>4. \A s \in Sim, m \in Instance :
            /\ Creating(s) /\ sim[s].pc # "open" /\ dir'[m] = sim[s].fd => m = sim[s].n
            /\ Running(s) /\ dir'[m] = sim[s].scene => m = sim[s].n
      BY <2>1, <2>2 DEF NameInv, Running
    <2>5. QED
      BY <2>2, <2>3, <2>4 DEF NameInv, Creating, Running
  <1>4. CASE UNCHANGED vars
    BY <1>4 DEF NameInv, Creating, Running, vars
  <1>5. QED
    BY <1>2, <1>3, <1>4 DEF Next

-----------------------------------------------------------------------------
(* One simulation creates at a time, and it takes what nobody runs with.    *)

LEMMA MishapsKept ==
    ASSUME TypeOK, [Next]_vars
    PROVE  mishaps \subseteq mishaps'
  <1>1. ASSUME NEW s \in Sim, Create(s) \/ Complete(s) \/ Detach(s) \/ Kill(s)
        PROVE  mishaps \subseteq mishaps'
    BY <1>1, BeginEffect DEF Create, Mishaps, Open, OpenFails, Stat, SegmentIsOwned, PassOver, MapSharedSegment,
         MapFails, Wipe, StoreSize, StoreOwner, StoreName, Store, PrepareScene, Complete, Detach, Kill
  <1>2. CASE Connect
    BY <1>2, VisEffect
  <1>3. CASE UNCHANGED vars
    BY <1>3 DEF vars
  <1>4. QED
    BY <1>1, <1>2, <1>3 DEF Next

LEMMA CalmBefore ==
    ASSUME TypeOK, [Next]_vars, Calm'
    PROVE  Calm
  BY MishapsKept DEF Calm

\* What CreateInv says when nothing has gone wrong.
OneCreates == \A s, t \in Sim : Creating(s) /\ Creating(t) => s = t
TakenIsFree(s) == Filling(s) /\ \A t \in Sim : Running(t) => sim[t].scene # sim[s].fd

LEMMA CreateParts == CreateInv <=> (Calm => OneCreates /\ \A s \in Sim : Taking(s) => TakenIsFree(s))
  BY DEF CreateInv, OneCreates, TakenIsFree

\* A step of the simulation that creates.
LEMMA CreateAlone ==
    ASSUME NEW s \in Sim, Others(s), \A t \in Sim : t # s => ~Creating(t),
           Taking(s)' => /\ Filling(s)'
                         /\ \A t \in Sim : t # s /\ Running(t) => sim[t].scene # sim'[s].fd
    PROVE  OneCreates' /\ \A t \in Sim : (Taking(t) => TakenIsFree(t))'
  <1>1. \A t \in Sim : t # s => ~Creating(t)' /\ ~Taking(t)' /\ (Running(t)' <=> Running(t)) /\ sim'[t] = sim[t]
    BY DEF Others, Creating, Taking, Running
  <1>2. OneCreates'
    BY <1>1 DEF OneCreates
  <1>3. Taking(s)' => ~Running(s)'
    BY DEF Taking, Running
  <1>4. Taking(s)' => TakenIsFree(s)'
    BY <1>1, <1>3 DEF TakenIsFree
  <1>5. QED
    BY <1>1, <1>2, <1>4

\* A step of a simulation that does not create, nor will.
LEMMA CreateElsewhere ==
    ASSUME TypeOK, OneCreates, \A t \in Sim : Taking(t) => TakenIsFree(t), NEW s \in Sim, Others(s),
           sim'[s].pc \in {"report", "dead"}, size' = size,
           \A t \in Sim : Taking(t) /\ t # s => header'[sim[t].fd] = header[sim[t].fd]
    PROVE  OneCreates' /\ \A t \in Sim : (Taking(t) => TakenIsFree(t))'
  <1>1. ~Creating(s)' /\ ~Taking(s)' /\ ~Running(s)'
    BY DEF Creating, Taking, Running
  <1>2. \A t \in Sim : t # s => /\ sim'[t] = sim[t] /\ (Creating(t)' <=> Creating(t))
                                /\ (Taking(t)' <=> Taking(t)) /\ (Running(t)' <=> Running(t))
    BY DEF Others, Creating, Taking, Running
  <1>3. OneCreates'
    BY <1>1, <1>2 DEF OneCreates
  <1>4. ASSUME NEW t \in Sim, Taking(t)'
        PROVE  TakenIsFree(t)'
    <2>1. t # s /\ Taking(t) /\ sim'[t] = sim[t] /\ header'[sim[t].fd] = header[sim[t].fd]
      BY <1>1, <1>2, <1>4
    <2>2. Filling(t)'
      BY <2>1 DEF TakenIsFree, Filling
    <2>3. \A u \in Sim : Running(u)' => sim'[u].scene # sim'[t].fd
      BY <1>1, <1>2, <2>1 DEF TakenIsFree
    <2>4. QED
      BY <2>2, <2>3 DEF TakenIsFree
  <1>5. QED
    BY <1>3, <1>4

LEMMA CreateStep ==
    ASSUME TypeOK, PidInv, CreateInv, SceneIsMine, [Next]_vars
    PROVE  CreateInv'
  <1> SUFFICES ASSUME Calm'
               PROVE  OneCreates' /\ \A t \in Sim : (Taking(t) => TakenIsFree(t))'
    BY DEF CreateInv, OneCreates, TakenIsFree
  <1>1. Calm /\ OneCreates /\ \A t \in Sim : Taking(t) => TakenIsFree(t)
    BY CalmBefore, CreateParts
  <1>2. ASSUME NEW s \in Sim, Create(s) \/ Complete(s) \/ Detach(s) \/ Kill(s)
        PROVE  OneCreates' /\ \A t \in Sim : (Taking(t) => TakenIsFree(t))'
    <2>1. Creating(s) => \A t \in Sim : t # s => ~Creating(t)
      BY <1>1 DEF OneCreates
    <2>2. Taking(s) => Filling(s) /\ \A t \in Sim : Running(t) => sim[t].scene # sim[s].fd
      BY <1>1 DEF TakenIsFree
    <2>3. CASE Begin(s)
      <3>1. \A t \in Sim : ~Creating(t)
        BY <2>3, BeginEffect DEF Calm
      <3>2. Others(s) /\ ~Taking(s)'
        BY <2>3, BeginEffect DEF Taking
      <3>3. QED
        BY <3>1, <3>2, CreateAlone
    <2>4. CASE Open(s) \/ OpenFails(s)
      <3>1. Others(s) /\ ~Taking(s)' /\ Creating(s)
        BY <2>4, OpenEffect, OpenFailsEffect DEF Taking, Creating, GoesTo, GoesOn, Open
      <3>2. QED
        BY <2>1, <3>1, CreateAlone
    <2>5. CASE Stat(s) \/ SegmentIsOwned(s)
      <3>1. /\ sim[s].pc \in {"stat", "peek"} /\ Creating(s)
            /\ \E pc \in {"resize", "peek", "owned"} : GoesTo(s, pc, sim[s].fd)
        BY <2>5, StatEffect, PeekEffect DEF Creating
      <3>2. Filling(s)' /\ Others(s) /\ sim'[s].fd = sim[s].fd
        BY <3>1 DEF Filling, GoesTo
      <3>3. ASSUME Taking(s)', NEW t \in Sim, Running(t), sim[t].scene = sim[s].fd
            PROVE  FALSE
        <4>1. /\ size[sim[s].fd] = nbFindShmemSize(Geometry[t]) /\ Geometry[t] \in Nat
              /\ header[sim[s].fd].owner = sim[t].pid
          BY <1>1, <3>3 DEF SceneIsMine
        <4>2. ~(size[sim[s].fd] < 1)
          BY <4>1 DEF nbFindShmemSize
        <4>3. mwProcessIsAlive(header[sim[s].fd].owner)
          BY <3>3, <4>1 DEF mwProcessIsAlive, PidInv, Alive, Running
        <4>4. sim'[s].pc = "resize"
          BY <3>1, <3>3 DEF Taking, GoesTo
        <4>5. "blind" \notin mishaps'
          BY DEF Calm
        <4>6. CASE Stat(s)
          BY <4>2, <4>4, <4>6, StatEffect DEF GoesTo
        <4>7. CASE SegmentIsOwned(s)
          BY <4>3, <4>4, <4>5, <4>7, PeekEffect DEF GoesTo
        <4>8. QED
          BY <2>5, <4>6, <4>7
      <3>4. QED
        BY <2>1, <3>1, <3>2, <3>3, CreateAlone
    <2>6. CASE PassOver(s) \/ MapFails(s)
      <3>1. Others(s) /\ ~Taking(s)' /\ Creating(s)
        BY <2>6, PassEffect DEF Taking, Creating, GoesOn
      <3>2. QED
        BY <2>1, <3>1, CreateAlone
    <2>7. CASE MapSharedSegment(s)
      <3>1. Others(s) /\ Creating(s) /\ Taking(s) /\ sim'[s].fd = sim[s].fd
        BY <2>7, MapEffect DEF Taking, Creating, GoesTo
      <3>2. Filling(s)'
        BY <2>7, MapEffect DEF Filling, GoesTo
      <3>3. QED
        BY <2>1, <2>2, <3>1, <3>2, CreateAlone
    <2>8. CASE Wipe(s) \/ StoreSize(s) \/ StoreOwner(s) \/ StoreName(s)
      <3>1. PICK h \in Headers, to \in {"size", "own", "name", "prepare"} :
              /\ GoesTo(s, to, sim[s].fd) /\ Header1(sim[s].fd, h)
              /\ \/ sim[s].pc = "wipe" /\ to = "size" /\ h = Zero
                 \/ /\ sim[s].pc = "size" /\ to = "own" /\ h.queue = Header(s).queue
                    /\ h.sceneSize = nbFindShmemSize(Geometry[s])
                    /\ h.owner = Header(s).owner /\ h.shmemName = Header(s).shmemName
                 \/ /\ sim[s].pc = "own" /\ to = "name" /\ h.queue = Header(s).queue
                    /\ h.sceneSize = Header(s).sceneSize /\ h.owner = sim[s].pid
                 \/ /\ sim[s].pc = "name" /\ to = "prepare" /\ h.queue = Header(s).queue
                    /\ h.sceneSize = Header(s).sceneSize /\ h.owner = Header(s).owner
                    /\ h.shmemName = sim[s].n
        BY <2>8, StoresEffect
      <3>2. Others(s) /\ Creating(s) /\ Taking(s) /\ sim'[s].fd = sim[s].fd /\ size' = size
        BY <2>8, <3>1, StoresEffect DEF Taking, Creating, GoesTo
      <3>3. Zero.queue = {}
        BY DEF Zero
      <3>4. Filling(s)
        BY <2>2, <3>2
      <3>5. Filling(s)'
        BY <3>1, <3>2, <3>3, <3>4 DEF Filling, GoesTo, Header1, Header
      <3>6. QED
        BY <2>1, <2>2, <3>2, <3>5, CreateAlone
    <2>9. CASE PrepareScene(s)
      <3>1. Others(s) /\ Creating(s) /\ ~Taking(s)'
        BY <2>9, PrepareEffect DEF Taking, Creating
      <3>2. QED
        BY <2>1, <3>1, CreateAlone
    <2>10. CASE Complete(s)
      <3>1. Others(s) /\ sim'[s].pc = "report" /\ size' = size
        BY <2>10, CompleteEffect DEF GoesTo
      <3>2. ASSUME NEW t \in Sim, Taking(t)
            PROVE  header'[sim[t].fd] = header[sim[t].fd]
        <4>1. sim[t].fd \in Seg
          BY <3>2, ProcessFields DEF Taking, Creating
        <4>2. Running(s) => sim[s].scene # sim[t].fd
          BY <1>1, <3>2 DEF TakenIsFree
        <4>3. QED
          BY <2>10, <4>1, <4>2, CompleteEffect DEF Header1
      <3>3. QED
        BY <1>1, <3>1, <3>2, CreateElsewhere
    <2>11. CASE Detach(s) \/ Kill(s)
      <3>1. Others(s) /\ sim'[s].pc = "dead" /\ UNCHANGED <<size, header>>
        BY <2>11, DetachEffect, KillEffect DEF Goes
      <3>2. QED
        BY <1>1, <3>1, CreateElsewhere
    <2>12. QED
      BY <1>2, <2>3, <2>4, <2>5, <2>6, <2>7, <2>8, <2>9, <2>10, <2>11 DEF Create
  <1>3. CASE Connect \/ UNCHANGED vars
    <2>1. UNCHANGED <<size, header, sim>>
      BY <1>3, VisEffect DEF vars
    <2>2. QED
      BY <1>1, <2>1 DEF OneCreates, TakenIsFree, Creating, Taking, Filling, Running
  <1>4. QED
    BY <1>2, <1>3 DEF Next

-----------------------------------------------------------------------------
(* The scene of a running simulation is its own.                            *)

Mine(s) ==
    LET x == sim[s].scene
    IN  /\ size[x] = nbFindShmemSize(Geometry[s])
        /\ header[x].sceneSize = size[x] /\ header[x].nbody = Geometry[s]
        /\ header[x].owner = sim[s].pid /\ header[x].shmemName = sim[s].n
        /\ header[x].queue \subseteq {s}

LEMMA SceneParts == SceneIsMine <=> (Calm => \A s \in Sim : Running(s) => Mine(s))
  BY DEF SceneIsMine, Mine

\* A step of s that leaves the scenes of the others alone.
LEMMA ScenesKept ==
    ASSUME \A t \in Sim : Running(t) => Mine(t), NEW s \in Sim, Others(s), Running(s)' => Mine(s)',
           \A t \in Sim : t # s /\ Running(t) => /\ size'[sim[t].scene] = size[sim[t].scene]
                                                 /\ header'[sim[t].scene] = header[sim[t].scene]
    PROVE  \A t \in Sim : (Running(t) => Mine(t))'
  <1>1. ASSUME NEW t \in Sim, t # s, Running(t)'
        PROVE  Mine(t)'
    <2>1. sim'[t] = sim[t] /\ Running(t)
      BY <1>1 DEF Others, Running
    <2> DEFINE x == sim[t].scene
    <2>2. size'[x] = size[x] /\ header'[x] = header[x]
      BY <1>1, <2>1
    <2>3. sim'[t].scene = x /\ Mine(t)
      BY <2>1
    <2>4. QED
      BY <2>1, <2>2, <2>3 DEF Mine
  <1>2. QED
    BY <1>1

LEMMA SceneStep ==
    ASSUME TypeOK, PidInv, CreateInv, SceneIsMine, [Next]_vars
    PROVE  SceneIsMine'
  <1> SUFFICES ASSUME Calm'
               PROVE  \A t \in Sim : (Running(t) => Mine(t))'
    BY DEF SceneIsMine, Mine
  <1>1. /\ Calm /\ OneCreates /\ \A t \in Sim : Taking(t) => TakenIsFree(t)
        /\ \A t \in Sim : Running(t) => Mine(t)
    BY CalmBefore, CreateParts, SceneParts
  <1>2. ASSUME NEW s \in Sim, Create(s) \/ Complete(s) \/ Detach(s) \/ Kill(s)
        PROVE  \A t \in Sim : (Running(t) => Mine(t))'
    <2>1. Taking(s) => /\ Filling(s) /\ sim[s].fd \in Seg
                       /\ \A t \in Sim : Running(t) => sim[t].scene # sim[s].fd
      BY <1>1, ProcessFields DEF TakenIsFree, Taking, Creating
    <2>2. \A t \in Sim : Running(t) => sim[t].scene \in Seg
      BY ProcessFields
    <2>3. ProcessOK(sim[s], s, used)
      BY ProcessIsOK
    <2>4. CASE Begin(s)
      BY <1>1, <2>4, BeginEffect, ScenesKept DEF Running
    <2>5. CASE Open(s)
      BY <1>1, <2>5, OpenEffect, ScenesKept DEF Running, GoesTo
    <2>6. CASE OpenFails(s)
      BY <1>1, <2>3, <2>6, OpenFailsEffect, ScenesKept DEF Running, GoesOn, ProcessOK
    <2>7. CASE Stat(s)
      BY <1>1, <2>7, StatEffect, ScenesKept DEF Running, GoesTo
    <2>8. CASE SegmentIsOwned(s)
      BY <1>1, <2>8, PeekEffect, ScenesKept DEF Running, GoesTo
    <2>9. CASE PassOver(s) \/ MapFails(s)
      BY <1>1, <2>3, <2>9, PassEffect, ScenesKept DEF Running, GoesOn, ProcessOK
    <2>10. CASE MapSharedSegment(s)
      <3>1. Taking(s) /\ Others(s) /\ ~Running(s)'
        BY <2>10, MapEffect DEF Taking, GoesTo, Running
      <3>2. \A t \in Sim : Running(t) => /\ size'[sim[t].scene] = size[sim[t].scene]
                                         /\ header'[sim[t].scene] = header[sim[t].scene]
        BY <2>1, <2>2, <2>10, <3>1, MapEffect
      <3>3. QED
        BY <1>1, <3>1, <3>2, ScenesKept
    <2>11. CASE Wipe(s) \/ StoreSize(s) \/ StoreOwner(s) \/ StoreName(s)
      <3>1. PICK h \in Headers, to \in {"size", "own", "name", "prepare"} :
              GoesTo(s, to, sim[s].fd) /\ Header1(sim[s].fd, h) /\ sim[s].pc \in {"wipe", "size", "own", "name"}
        BY <2>11, StoresEffect
      <3>2. Taking(s) /\ Others(s) /\ ~Running(s)' /\ size' = size
        BY <2>11, <3>1, StoresEffect DEF Taking, GoesTo, Running
      <3>3. \A t \in Sim : Running(t) => header'[sim[t].scene] = header[sim[t].scene]
        BY <2>1, <2>2, <3>1, <3>2 DEF Header1
      <3>4. QED
        BY <1>1, <3>2, <3>3, ScenesKept
    <2>12. CASE PrepareScene(s)
      <3>1. PICK h \in Headers :
              /\ Header1(sim[s].fd, h) /\ h.owner = Header(s).owner /\ h.sceneSize = Header(s).sceneSize
              /\ h.shmemName = Header(s).shmemName /\ h.nbody = Geometry[s]
              /\ h.queue = Header(s).queue \cup {s}
        BY <2>12, PrepareEffect
      <3>2. /\ sim[s].pc = "prepare" /\ Others(s) /\ size' = size /\ sim'[s].scene = sim[s].fd
            /\ sim'[s].pid = sim[s].pid /\ sim'[s].n = sim[s].n
        BY <2>12, PrepareEffect
      <3>3. Taking(s)
        BY <3>2 DEF Taking
      <3>4. \A t \in Sim : Running(t) => header'[sim[t].scene] = header[sim[t].scene]
        BY <2>1, <2>2, <3>1, <3>3 DEF Header1
      <3>5. Mine(s)'
        BY <2>1, <3>1, <3>2, <3>3 DEF Mine, Filling, Header, Header1
      <3>6. QED
        BY <1>1, <3>2, <3>4, <3>5, ScenesKept
    <2>13. CASE Complete(s)
      <3>1. Others(s) /\ ~Running(s)' /\ size' = size
        BY <2>13, CompleteEffect DEF GoesTo, Running
      <3>2. ASSUME NEW t \in Sim, t # s, Running(t)
            PROVE  header'[sim[t].scene] = header[sim[t].scene]
        <4>1. Running(s) => sim[s].scene # sim[t].scene
          <5>1. Running(s) => Mine(s) /\ Mine(t) /\ Alive(s) /\ Alive(t)
            BY <1>1, <3>2 DEF Alive, Running
          <5>2. Running(s) => sim[s].pid # sim[t].pid
            BY <3>2, <5>1 DEF PidInv
          <5>3. QED
            BY <5>1, <5>2 DEF Mine
        <4>2. QED
          BY <2>2, <2>13, <3>2, <4>1, CompleteEffect DEF Header1
      <3>3. QED
        BY <1>1, <3>1, <3>2, ScenesKept
    <2>14. CASE Detach(s)
      BY <1>1, <2>14, DetachEffect, ScenesKept DEF Goes, Running
    <2>15. CASE Kill(s)
      BY <1>1, <2>15, KillEffect, ScenesKept DEF Goes, Running
    <2>16. QED
      BY <1>2, <2>4, <2>5, <2>6, <2>7, <2>8, <2>9, <2>10, <2>11, <2>12, <2>13, <2>14, <2>15 DEF Create
  <1>3. CASE Connect \/ UNCHANGED vars
    <2>1. UNCHANGED <<size, header, sim>>
      BY <1>3, VisEffect DEF vars
    <2>2. QED
      BY <1>1, <2>1 DEF Mine, Running
  <1>4. QED
    BY <1>2, <1>3 DEF Next

-----------------------------------------------------------------------------
(* What the visualizer has mapped.                                          *)

LEMMA MapStep ==
    ASSUME TypeOK, SceneIsMine, MapInv, [Next]_vars
    PROVE  MapInv'
  <1> SUFFICES ASSUME Calm', vis'.pc = "attached", vis'.of \in Sim
               PROVE  vis'.mapped >= nbFindShmemSize(Geometry[vis'.of])
    BY DEF MapInv
  <1>1. Calm
    BY CalmBefore
  <1>2. CASE Connect
    <2>1. /\ Running(vis'.of) /\ sim[vis'.of].scene = vis'.fd
          /\ vis'.mapped >= nbFindShmemSize(header[vis'.fd].nbody)
      BY <1>2, VisEffect
    <2>2. header[vis'.fd].nbody = Geometry[vis'.of]
      BY <1>1, <2>1 DEF SceneIsMine
    <2>3. QED
      BY <2>1, <2>2
  <1>3. CASE vis' = vis
    BY <1>1, <1>3 DEF MapInv
  <1>4. ASSUME NEW s \in Sim, Create(s) \/ Complete(s) \/ Detach(s) \/ Kill(s)
        PROVE  vis' = vis
    BY <1>4 DEF Create, Begin, Open, OpenFails, Stat, SegmentIsOwned, PassOver, MapSharedSegment, MapFails,
         Wipe, StoreSize, StoreOwner, StoreName, Store, PrepareScene, Complete, Detach, Kill
  <1>5. QED
    BY <1>2, <1>3, <1>4 DEF Next, vars

-----------------------------------------------------------------------------
(* A name of a segment without an owner is about to be removed, or the      *)
(* segment to be owned.                                                     *)

Waits(q, x) == q.pc \in {"stat", "peek", "owned", "resize", "wipe", "size", "own"} /\ q.fd = x
Leaves(q, x, n) == q.pc = "report" /\ q.scene = x /\ header[x].shmemName = n

LEMMA OwnerParts ==
    OwnerInv <=> (mishaps = {} => \A n \in Instance : dir[n] # NoSeg /\ header[dir[n]].owner = 0 =>
                    \E t \in Sim : Waits(sim[t], dir[n]) \/ Leaves(sim[t], dir[n], n))
  BY DEF OwnerInv, Waits, Leaves

LEMMA OwnerStep ==
    ASSUME TypeOK, PidInv, NameInv, CreateInv, SceneIsMine, OwnerInv, [Next]_vars
    PROVE  OwnerInv'
  <1> SUFFICES ASSUME mishaps' = {}, NEW n \in Instance, dir'[n] # NoSeg, header'[dir'[n]].owner = 0
               PROVE  \E t \in Sim : Waits(sim'[t], dir'[n]) \/ Leaves(sim[t], dir[n], n)'
    BY DEF OwnerInv, Waits, Leaves
  <1> DEFINE Kept == \E t \in Sim : Waits(sim'[t], dir'[n]) \/ Leaves(sim[t], dir[n], n)'
  <1>1. mishaps = {} /\ Calm
    BY MishapsKept DEF Calm
  <1>2. dir[n] # NoSeg /\ header[dir[n]].owner = 0 =>
          \E t \in Sim : Waits(sim[t], dir[n]) \/ Leaves(sim[t], dir[n], n)
    BY <1>1, OwnerParts
  <1>3. dir \in [Instance -> used \cup {NoSeg}] /\ used \subseteq Seg /\ (dir[n] # NoSeg => dir[n] \in Seg)
    BY DEF TypeOK
  \* Nothing has happened to the segment, and the process it waits for still comes.
  <1>4. ASSUME NEW s \in Sim, Others(s), dir'[n] = dir[n], header'[dir[n]] = header[dir[n]],
               Waits(sim[s], dir[n]) => Waits(sim'[s], dir[n]), sim[s].pc # "report"
        PROVE  Kept
    <2>1. PICK t \in Sim : Waits(sim[t], dir[n]) \/ Leaves(sim[t], dir[n], n)
      BY <1>2, <1>4
    <2>2. CASE t = s
      BY <1>4, <2>1, <2>2 DEF Leaves
    <2>3. CASE t # s
      <3>1. sim'[t] = sim[t]
        BY <1>4, <2>3 DEF Others
      <3>2. QED
        BY <1>4, <2>1, <3>1 DEF Leaves
    <2>4. QED
      BY <2>2, <2>3
  <1>5. ASSUME NEW s \in Sim, Create(s) \/ Complete(s) \/ Detach(s) \/ Kill(s)
        PROVE  Kept
    <2>1. Creating(s) /\ sim[s].pc # "open" => sim[s].fd \in Seg /\ sim[s].fd # NoSeg
      BY ProcessFields
    <2>2. CASE Begin(s)
      <3>1. Others(s) /\ dir' = dir /\ header' = header /\ sim[s].pc \in {"new", "run"}
        BY <2>2, BeginEffect
      <3>2. QED
        BY <1>4, <3>1 DEF Waits
    <2>3. CASE Open(s)
      <3>1. PICK x \in Seg :
              /\ GoesTo(s, "stat", x) /\ header' = header
              /\ \/ dir[sim[s].n] = x /\ x \in used /\ UNCHANGED <<dir, used>>
                 \/ /\ dir[sim[s].n] = NoSeg /\ x \notin used
                    /\ dir' = [dir EXCEPT ![sim[s].n] = x] /\ used' = used \cup {x}
        BY <2>3, OpenEffect
      <3>2. sim[s].n \in Instance /\ sim[s].pc = "open"
        BY <2>3, ProcessFields DEF Open
      <3>3. dir'[sim[s].n] = x
        BY <1>3, <3>1, <3>2
      <3>4. CASE n = sim[s].n
        BY <3>1, <3>3, <3>4 DEF Waits, GoesTo
      <3>5. CASE n # sim[s].n
        <4>1. dir'[n] = dir[n]
          BY <1>3, <3>1, <3>2, <3>5
        <4>2. QED
          BY <1>4, <3>1, <3>2, <4>1 DEF GoesTo, Waits
      <3>6. QED
        BY <3>4, <3>5
    <2>4. CASE OpenFails(s) \/ Kill(s)
      BY <2>4, OpenFailsEffect, KillEffect
    <2>5. CASE Stat(s) \/ SegmentIsOwned(s)
      <3>1. /\ sim[s].pc \in {"stat", "peek"} /\ dir' = dir /\ header' = header
            /\ \E pc \in {"resize", "peek", "owned"} : GoesTo(s, pc, sim[s].fd)
        BY <2>5, StatEffect, PeekEffect
      <3>2. Others(s) /\ (Waits(sim[s], dir[n]) => Waits(sim'[s], dir[n]))
        BY <3>1 DEF GoesTo, Waits
      <3>3. QED
        BY <1>4, <3>1, <3>2
    <2>6. CASE PassOver(s) \/ MapFails(s)
      <3>1. /\ sim[s].pc \in {"owned", "resize", "wipe"} /\ Others(s) /\ header' = header
            /\ dir'[sim[s].n] = NoSeg /\ dir'[n] = dir[n]
        BY <2>6, PassEffect DEF GoesOn, Fewer
      <3>2. ~Waits(sim[s], dir[n])
        BY <3>1 DEF Waits, NameInv, Creating
      <3>3. QED
        BY <1>4, <3>1, <3>2
    <2>7. CASE MapSharedSegment(s)
      <3>1. sim[s].pc = "resize" /\ GoesTo(s, "wipe", sim[s].fd) /\ dir' = dir /\ header' = header
        BY <2>7, MapEffect
      <3>2. QED
        BY <1>4, <3>1 DEF GoesTo, Waits
    <2>8. CASE Wipe(s) \/ StoreSize(s) \/ StoreOwner(s) \/ StoreName(s)
      <3>1. dir' = dir
        BY <2>8, StoresEffect
      <3>2. PICK h \in Headers, to \in {"size", "own", "name", "prepare"} :
              /\ GoesTo(s, to, sim[s].fd) /\ Header1(sim[s].fd, h)
              /\ \/ sim[s].pc = "wipe" /\ to = "size"
                 \/ sim[s].pc = "size" /\ to = "own"
                 \/ sim[s].pc = "own" /\ to = "name" /\ h.owner = sim[s].pid
                 \/ sim[s].pc = "name" /\ to = "prepare" /\ h.owner = Header(s).owner
        BY <2>8, StoresEffect
      <3>3. sim[s].pc \in {"wipe", "size", "own", "name"} /\ Creating(s) /\ Taking(s) /\ Alive(s)
        BY <3>2 DEF Creating, Taking, Alive
      <3>4. Filling(s) /\ sim[s].pid # 0
        BY <1>1, <3>3 DEF CreateInv, PidInv
      <3>5. CASE dir[n] # sim[s].fd
        <4>1. header'[dir[n]] = header[dir[n]]
          BY <1>3, <3>1, <3>2, <3>5 DEF Header1
        <4>2. QED
          BY <1>4, <3>1, <3>2, <3>3, <3>5, <4>1 DEF GoesTo, Waits
      <3>6. CASE dir[n] = sim[s].fd
        <4>1. h.owner = 0
          BY <3>1, <3>2, <3>6 DEF Header1
        <4>2. to \in {"size", "own"}
          BY <3>2, <3>4, <4>1 DEF Filling, Header
        <4>3. QED
          BY <3>1, <3>2, <3>6, <4>2 DEF GoesTo, Waits
      <3>7. QED
        BY <3>5, <3>6
    <2>9. CASE PrepareScene(s)
      <3>1. sim[s].pc = "prepare" /\ Others(s) /\ dir' = dir
        BY <2>9, PrepareEffect
      <3>2. PICK h \in Headers : Header1(sim[s].fd, h) /\ h.owner = Header(s).owner
        BY <2>9, PrepareEffect
      <3>3. Creating(s) /\ Taking(s) /\ Alive(s)
        BY <3>1 DEF Creating, Taking, Alive
      <3>4. Filling(s) /\ sim[s].pid # 0
        BY <1>1, <3>3 DEF CreateInv, PidInv
      <3>5. h.owner # 0
        BY <3>1, <3>2, <3>4 DEF Filling, Header
      <3>6. dir[n] # sim[s].fd
        BY <3>1, <3>2, <3>5 DEF Header1
      <3>7. header'[dir[n]] = header[dir[n]]
        BY <1>3, <3>1, <3>2, <3>6 DEF Header1
      <3>8. QED
        BY <1>4, <3>1, <3>7 DEF Waits
    <2>10. CASE Complete(s)
      <3>1. sim[s].pc = "run" /\ GoesTo(s, "report", sim[s].fd) /\ dir' = dir
        BY <2>10, CompleteEffect
      <3>2. CASE header'[dir[n]] = header[dir[n]]
        BY <1>4, <3>1, <3>2 DEF GoesTo, Waits
      <3>3. CASE header'[dir[n]] # header[dir[n]]
        <4>1. PICK h \in Headers : /\ Running(s) /\ Header1(sim[s].scene, h)
                                   /\ h.shmemName = header[sim[s].scene].shmemName
          BY <2>10, <3>3, CompleteEffect
        <4>2. dir[n] = sim[s].scene
          BY <1>3, <3>1, <3>3, <4>1 DEF Header1
        <4>3. n = sim[s].n /\ header[sim[s].scene].shmemName = sim[s].n
          BY <1>1, <4>1, <4>2 DEF NameInv, SceneIsMine
        <4>4. Leaves(sim[s], dir[n], n)'
          BY <3>1, <4>1, <4>2, <4>3 DEF Leaves, GoesTo, Header1
        <4>5. QED
          BY <4>4
      <3>4. QED
        BY <3>2, <3>3
    <2>11. CASE Detach(s)
      <3>1. /\ sim[s].pc = "report" /\ Others(s) /\ header' = header /\ dir'[n] = dir[n]
            /\ sim[s].scene # NoSeg /\ header[sim[s].scene].shmemName \in Instance
                 => dir'[header[sim[s].scene].shmemName] = NoSeg
        BY <2>11, DetachEffect DEF Goes, Fewer
      <3>2. PICK t \in Sim : Waits(sim[t], dir[n]) \/ Leaves(sim[t], dir[n], n)
        BY <1>2, <3>1
      <3>3. t # s
        BY <3>1, <3>2 DEF Waits, Leaves
      <3>4. sim'[t] = sim[t]
        BY <3>1, <3>3 DEF Others
      <3>5. QED
        BY <3>1, <3>2, <3>4 DEF Leaves
    <2>12. QED
      BY <1>5, <2>2, <2>3, <2>4, <2>5, <2>6, <2>7, <2>8, <2>9, <2>10, <2>11 DEF Create
  <1>6. CASE Connect \/ UNCHANGED vars
    <2>1. sim' = sim /\ header' = header /\ dir'[n] = dir[n]
      BY <1>6, VisEffect DEF vars, Fewer
    <2>2. QED
      BY <1>2, <2>1 DEF Leaves
  <1>7. QED
    BY <1>5, <1>6 DEF Next

-----------------------------------------------------------------------------
(* The theorems.                                                            *)

LEMMA InitHolds == Init => IInv
  <1> SUFFICES ASSUME Init PROVE IInv
    OBVIOUS
  <1>1. \A s \in Sim : sim[s] = Process("new")
    BY DEF Init
  <1>2. Process("new") \in Processes /\ Process("new").pc = "new" /\ Process("new").scene = NoSeg
        /\ Process("new").run = 0
    BY DEF Process, Processes, Instance
  <1>3. Zero \in Headers /\ Off \in Visualizers /\ Off.pc = "off"
    BY DEF Zero, Headers, NoName, Off, Visualizers, Instance
  <1>4. \A s \in Sim : ~Creating(s) /\ ~Running(s) /\ ~Alive(s) /\ ~Taking(s)
    BY <1>1, <1>2 DEF Creating, Running, Alive, Taking
  <1>5. TypeOK
    <2>1. sim \in [Sim -> Processes] /\ \A s \in Sim : 0 <= Runs[s]
      BY <1>2 DEF Init
    <2>2. QED
      BY <1>1, <1>2, <1>3, <1>4, <2>1 DEF Init, TypeOK, Mishap
  <1>6. PidInv /\ CreateInv /\ SceneIsMine
    BY <1>4 DEF PidInv, CreateInv, SceneIsMine
  <1>7. NameInv /\ OwnerInv
    BY <1>4 DEF NameInv, OwnerInv, Init
  <1>8. MapInv
    BY <1>3 DEF MapInv, Init
  <1>9. QED
    BY <1>5, <1>6, <1>7, <1>8 DEF IInv

LEMMA NextKeeps == IInv /\ [Next]_vars => IInv'
  <1> SUFFICES ASSUME IInv, [Next]_vars PROVE IInv'
    OBVIOUS
  <1>1. TypeOK /\ PidInv /\ NameInv /\ CreateInv /\ SceneIsMine /\ MapInv /\ OwnerInv
    BY DEF IInv
  <1>2. TypeOK'
    BY <1>1, TypeStep
  <1>3. PidInv' /\ NameInv'
    BY <1>1, <1>2, PidStep, NameStep
  <1>4. CreateInv' /\ SceneIsMine'
    BY <1>1, CreateStep, SceneStep
  <1>5. MapInv' /\ OwnerInv'
    BY <1>1, MapStep, OwnerStep
  <1>6. QED
    BY <1>2, <1>3, <1>4, <1>5 DEF IInv

(* The inductive invariant: pids tell living simulations apart, a segment   *)
(* has one name, one simulation fills a scene at a time and nobody else     *)
(* runs with it, and an ownerless segment with a name is about to be owned  *)
(* or to lose the name.                                                     *)
THEOREM Invariant == Spec => []IInv
  <1>1. Init => IInv
    BY InitHolds
  <1>2. IInv /\ [Next]_vars => IInv'
    BY NextKeeps
  <1>3. QED
    BY <1>1, <1>2, PTL DEF Spec

(* Every name, descriptor and scene leads to a segment that was created.    *)
THEOREM TypeCorrect == Spec => []TypeOK
  <1>1. IInv => TypeOK
    BY DEF IInv
  <1>2. QED
    BY <1>1, Invariant, PTL

(* As long as simulations do not create scenes at one time, and every       *)
(* header can be mapped, nbSegmentIsOwned never lets a simulation take the  *)
(* scene of another that still runs, however often pids are reused and      *)
(* simulations are killed: the scene has the size, owner, name and queue    *)
(* its simulation gave it.                                                  *)
THEOREM ScenesAreOwned == Spec => []SceneIsMine
  <1>1. IInv => SceneIsMine
    BY DEF IInv
  <1>2. QED
    BY <1>1, Invariant, PTL

(* A visualizer that nbglConnectSharedScene let in has all of the scene of  *)
(* a running simulation mapped, although the segment may be resized between *)
(* its fstat, its mmap and its look at the header.                          *)
THEOREM ScenesAreMapped == Spec => []MappedWhole
  <1>1. IInv => MappedWhole
    <2> SUFFICES ASSUME IInv, Calm, vis.pc = "attached", vis.of \in Sim, Running(vis.of),
                        sim[vis.of].scene = vis.fd
                 PROVE  vis.mapped >= nbFindShmemSize(header[vis.fd].nbody)
      BY DEF MappedWhole
    <2>1. vis.mapped >= nbFindShmemSize(Geometry[vis.of])
      BY DEF IInv, MapInv
    <2>2. header[vis.fd].nbody = Geometry[vis.of]
      BY DEF IInv, SceneIsMine
    <2>3. QED
      BY <2>1, <2>2
  <1>2. QED
    BY <1>1, Invariant, PTL

(* When all simulations have ended by themselves, no scene that             *)
(* nbReportSimulationComplete disowned has kept its name.                   *)
THEOREM DisownedAreRemoved == Spec => []DisownedRemoved
  <1>1. IInv => DisownedRemoved
    BY DEF IInv, OwnerInv, DisownedRemoved
  <1>2. QED
    BY <1>1, Invariant, PTL

=============================================================================
