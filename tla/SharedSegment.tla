---------------------------- MODULE SharedSegment ----------------------------
(***************************************************************************)
(* How simulations create the shared memory segment of their scene         *)
(* (nbody_shmem.c) and how a visualizer finds one (graphics_main.c), with  *)
(* the POSIX functions.                                                    *)
(*                                                                         *)
(* Segments have names /milkyway_nbody_<n>, which outlive the processes.   *)
(* A simulation tries the names in order and takes the first segment that  *)
(* no living process owns; who owns it is a pid in the segment's header.   *)
(* Every system call, and every store to the header that others test, is   *)
(* a step.  Pids are reused.                                               *)
(***************************************************************************)
EXTENDS Integers, FiniteSets

CONSTANTS
  Sim,          \* processes that simulate, numbered in the order they start
  Pid,          \* the process ids there are
  MaxInstances, \* MAX_INSTANCES
  Geometry,     \* Geometry[s]: the size of s's scene beyond the bare header
  Runs,         \* Runs[s]: the evolutions in s, calibrationRuns + 1
  Tolerated,    \* the mishaps that may happen: see Mishap
  Seg,          \* segments the system may create, in this order
  NoSeg

ASSUME SegmentAssumption ==
  /\ MaxInstances \in Nat \ {0} /\ Runs \in [Sim -> Nat \ {0}]
  /\ Sim \subseteq Nat /\ Pid \subseteq Nat \ {0} /\ Seg \subseteq Nat /\ Geometry \in [Sim -> Nat]
  /\ NoSeg \notin Seg \cup Sim

Instance == 0 .. MaxInstances - 1

(* nbFindShmemSize for a number of bodies; an empty segment has size 0, and *)
(* the bare header, sizeof(scene_t), has size 1.                            *)
nbFindShmemSize(g) == g + 1
SizeOfScene == 1

VARIABLES
  dir,        \* dir[n]: the segment with name n, or NoSeg
  size,       \* size[x]: st_size of segment x
  header,     \* header[x]: the words of its scene_t
  used,       \* segments that were created so far
  sim,        \* sim[s]: the simulation process s
  vis,        \* the visualizer
  mishaps     \* what has gone wrong outside this code so far (history)

vars == <<dir, size, header, used, sim, vis, mishaps>>

Mishap == {"overlap",  \* two simulations were creating scenes at one time
           "blind",    \* a header could not be mapped to see its owner
           "refused",  \* shm_open or fstat failed
           "killed"}   \* a simulation was killed
Mishaps(new) == mishaps' = mishaps \cup new /\ new \subseteq Tolerated

(* A header after memset.  shmemName is the instance it is made from, and   *)
(* queue the simulations whose snapshots are in the queue.                  *)
NoName == -1
Zero == [owner |-> 0, sceneSize |-> 0, nbody |-> 0, shmemName |-> NoName, queue |-> {}]

Process(pc) == [pc |-> pc, pid |-> 0, n |-> 0, fd |-> NoSeg, scene |-> NoSeg, run |-> 0]
Off == [pc |-> "off", n |-> 0, fd |-> NoSeg, mapped |-> 0, want |-> 0, of |-> NoSeg]

Init ==
  /\ dir = [n \in Instance |-> NoSeg] /\ used = {}
  /\ size = [x \in Seg |-> 0] /\ header = [x \in Seg |-> Zero]
  /\ sim = [s \in Sim |-> Process("new")] /\ vis = Off
  /\ mishaps = {}

Creating(s) == sim[s].pc \in {"open", "stat", "peek", "owned", "resize", "wipe", "size", "own", "name", "prepare"}
Running(s)  == sim[s].pc = "run" /\ sim[s].scene # NoSeg
Alive(s)    == sim[s].pc \notin {"new", "dead"}

(* mwProcessIsAlive: the question is about the pid, not the process.        *)
mwProcessIsAlive(p) == p # 0 /\ \E s \in Sim : Alive(s) /\ sim[s].pid = p

files == <<dir, size, header, used>>

-----------------------------------------------------------------------------
(* The simulation.                                                          *)

(* nbCreateSharedScene begins, in the first or in a later run of nbMain,    *)
(* which forgets the scene of the run before.                               *)
Begin(s) ==
  /\ \/ /\ sim[s].pc = "new" /\ \A t \in Sim : t < s => sim[t].pc # "new"
        /\ \E p \in Pid : /\ \A t \in Sim : Alive(t) => sim[t].pid # p
                          /\ sim' = [sim EXCEPT ![s].pc = "open", ![s].pid = p, ![s].run = 1]
     \/ /\ sim[s].pc = "run" /\ sim[s].run < Runs[s]
        /\ sim' = [sim EXCEPT ![s].pc = "open", ![s].n = 0, ![s].scene = NoSeg, ![s].run = @ + 1]
  /\ Mishaps(IF \E t \in Sim : Creating(t) THEN {"overlap"} ELSE {})
  /\ UNCHANGED <<files, vis>>

(* The next name, or none is left and the simulation runs on without a new  *)
(* scene.                                                                   *)
Refused(s) ==
  LET p == sim[s]
  IN  sim' = [sim EXCEPT ![s] =
        IF p.n + 1 < MaxInstances THEN [p EXCEPT !.pc = "open", !.n = p.n + 1, !.fd = NoSeg]
                                  ELSE [p EXCEPT !.pc = "run", !.fd = NoSeg]]

Unlink(n) == dir' = [dir EXCEPT ![n] = NoSeg]

(* shm_open with O_CREAT.                                                   *)
Open(s) ==
  /\ sim[s].pc = "open"
  /\ LET n == sim[s].n
     IN  \/ /\ dir[n] # NoSeg
            /\ sim' = [sim EXCEPT ![s].pc = "stat", ![s].fd = dir[n]]
            /\ UNCHANGED <<dir, used>>
         \/ /\ dir[n] = NoSeg
            /\ \E x \in Seg \ used :
                 /\ \A y \in Seg \ used : x <= y
                 /\ dir' = [dir EXCEPT ![n] = x] /\ used' = used \cup {x}
                 /\ sim' = [sim EXCEPT ![s].pc = "stat", ![s].fd = x]
  /\ UNCHANGED <<size, header, vis, mishaps>>

OpenFails(s) ==
  /\ sim[s].pc = "open" /\ Refused(s)
  /\ Mishaps({"refused"})
  /\ UNCHANGED <<files, vis>>

(* nbSegmentIsOwned: fstat, which is taken for an owner when it fails.      *)
Stat(s) ==
  /\ sim[s].pc = "stat"
  /\ \/ /\ sim' = [sim EXCEPT ![s].pc = IF size[sim[s].fd] < SizeOfScene THEN "resize" ELSE "peek"]
        /\ UNCHANGED mishaps
     \/ /\ sim' = [sim EXCEPT ![s].pc = "owned"]
        /\ Mishaps({"refused"})
  /\ UNCHANGED <<files, vis>>

(* Mutant: a segment is free as soon as its owner is another process.       *)
OwnedOnlyByMe(s) ==
  /\ sim[s].pc = "peek"
  /\ sim' = [sim EXCEPT ![s].pc = IF header[sim[s].fd].owner = sim[s].pid THEN "owned" ELSE "resize"]
  /\ UNCHANGED <<files, vis, mishaps>>

(* The load of ownerPID; when the header cannot be mapped the segment is    *)
(* taken for free.                                                          *)
SegmentIsOwned(s) ==
  /\ sim[s].pc = "peek"
  /\ \/ /\ sim' = [sim EXCEPT ![s].pc = IF mwProcessIsAlive(header[sim[s].fd].owner)
                                        THEN "owned" ELSE "resize"]
        /\ UNCHANGED mishaps
     \/ /\ sim' = [sim EXCEPT ![s].pc = "resize"]
        /\ Mishaps({"blind"})
  /\ UNCHANGED <<files, vis>>

(* The name of a segment that is owned is removed, not only passed over.    *)
PassOver(s) ==
  /\ sim[s].pc = "owned"
  /\ Unlink(sim[s].n) /\ Refused(s)
  /\ UNCHANGED <<size, header, used, vis, mishaps>>

(* The ftruncate of nbMapSharedSegment; its mmap goes with the memset.      *)
MapSharedSegment(s) ==
  /\ sim[s].pc = "resize"
  /\ size' = [size EXCEPT ![sim[s].fd] = nbFindShmemSize(Geometry[s])]
  /\ sim' = [sim EXCEPT ![s].pc = "wipe"]
  /\ UNCHANGED <<dir, header, used, vis, mishaps>>

(* ftruncate failed, or it succeeded and mmap failed.                       *)
MapFails(s) ==
  /\ sim[s].pc \in {"resize", "wipe"}
  /\ Unlink(sim[s].n) /\ Refused(s)
  /\ UNCHANGED <<size, header, used, vis, mishaps>>

Store(s, from, to, h) ==
  /\ sim[s].pc = from
  /\ header' = [header EXCEPT ![sim[s].fd] = h]
  /\ sim' = [sim EXCEPT ![s].pc = to]
  /\ UNCHANGED <<dir, size, used, vis, mishaps>>

Header(s) == header[sim[s].fd]

(* memset of the header, which also empties the queue.                      *)
Wipe(s) == Store(s, "wipe", "size", Zero)

StoreSize(s) == Store(s, "size", "own", [Header(s) EXCEPT !.sceneSize = nbFindShmemSize(Geometry[s])])

StoreOwner(s) == Store(s, "own", "name", [Header(s) EXCEPT !.owner = sim[s].pid])

StoreName(s) == Store(s, "name", "prepare", [Header(s) EXCEPT !.shmemName = sim[s].n])

(* nbPrepareSceneFromState; from here on snapshots are pushed.              *)
PrepareScene(s) ==
  /\ sim[s].pc = "prepare"
  /\ header' = [header EXCEPT ![sim[s].fd].nbody = Geometry[s],
                              ![sim[s].fd].queue = @ \cup {s}]
  /\ sim' = [sim EXCEPT ![s].pc = "run", ![s].scene = sim[s].fd, ![s].fd = NoSeg]
  /\ UNCHANGED <<dir, size, used, vis, mishaps>>

(* nbReportSimulationComplete disowns the scene.                            *)
Complete(s) ==
  /\ sim[s].pc = "run" /\ sim[s].run = Runs[s]
  /\ header' = IF sim[s].scene = NoSeg THEN header ELSE [header EXCEPT ![sim[s].scene].owner = 0]
  /\ sim' = [sim EXCEPT ![s].pc = "report"]
  /\ UNCHANGED <<dir, size, used, vis, mishaps>>

(* Mutant: the scene is unmapped and its name stays.                        *)
DetachUnmaps(s) ==
  /\ sim[s].pc = "report"
  /\ sim' = [sim EXCEPT ![s] = Process("dead")]
  /\ UNCHANGED <<files, vis, mishaps>>

(* nbDetachSharedScene removes the name that is in the scene's header, and  *)
(* the process ends.                                                        *)
Detach(s) ==
  /\ sim[s].pc = "report"
  /\ LET x == sim[s].scene
     IN  IF x # NoSeg /\ header[x].shmemName \in Instance
           THEN Unlink(header[x].shmemName) ELSE UNCHANGED dir
  /\ sim' = [sim EXCEPT ![s] = Process("dead")]
  /\ UNCHANGED <<size, header, used, vis, mishaps>>

Kill(s) ==
  /\ Alive(s)
  /\ sim' = [sim EXCEPT ![s] = Process("dead")]
  /\ Mishaps({"killed"})
  /\ UNCHANGED <<files, vis>>

-----------------------------------------------------------------------------
(* The visualizer: nbglConnectSharedScene.                                  *)

VisOpen ==
  /\ vis.pc = "off"
  /\ \E n \in Instance : /\ dir[n] # NoSeg
                         /\ vis' = [vis EXCEPT !.pc = "map", !.n = n, !.fd = dir[n]]
  /\ UNCHANGED <<files, sim, mishaps>>

(* fstat and mmap; a mapping of no bytes fails, and the name is removed.    *)
VisMap ==
  /\ vis.pc = "map"
  /\ IF size[vis.fd] = 0
       THEN Unlink(vis.n) /\ vis' = Off
       ELSE vis' = [vis EXCEPT !.pc = "load", !.mapped = size[vis.fd]] /\ UNCHANGED dir
  /\ UNCHANGED <<size, header, used, sim, mishaps>>

VisLoad ==
  /\ vis.pc = "load"
  /\ vis' = [vis EXCEPT !.pc = "test", !.want = header[vis.fd].sceneSize]
  /\ UNCHANGED <<files, sim, mishaps>>

(* Mutant: the header is compared with itself, not with the mapping.        *)
VisTestHeader ==
  /\ vis.pc = "test"
  /\ LET calc == nbFindShmemSize(header[vis.fd].nbody)
         owner == {s \in Sim : Running(s) /\ sim[s].scene = vis.fd}
     IN  IF calc # vis.want
           THEN Unlink(vis.n) /\ vis' = Off
           ELSE /\ vis' = [vis EXCEPT !.pc = "attached",
                                      !.of = IF owner = {} THEN NoSeg ELSE CHOOSE s \in owner : TRUE]
                /\ UNCHANGED dir
  /\ UNCHANGED <<size, header, used, sim, mishaps>>

(* The sizes are compared; the segment is attached to, or its name removed. *)
VisTest ==
  /\ vis.pc = "test"
  /\ LET calc == nbFindShmemSize(header[vis.fd].nbody)
         owner == {s \in Sim : Running(s) /\ sim[s].scene = vis.fd}
     IN  IF vis.mapped < vis.want \/ vis.mapped < calc \/ calc # vis.want
           THEN Unlink(vis.n) /\ vis' = Off
           ELSE /\ vis' = [vis EXCEPT !.pc = "attached",
                                      !.of = IF owner = {} THEN NoSeg ELSE CHOOSE s \in owner : TRUE]
                /\ UNCHANGED dir
  /\ UNCHANGED <<size, header, used, sim, mishaps>>

VisQuit ==
  /\ vis.pc = "attached"
  /\ vis' = Off
  /\ UNCHANGED <<files, sim, mishaps>>
-----------------------------------------------------------------------------
Create(s) ==
  \/ Begin(s) \/ Open(s) \/ OpenFails(s) \/ Stat(s) \/ SegmentIsOwned(s) \/ PassOver(s)
  \/ MapSharedSegment(s) \/ MapFails(s) \/ Wipe(s) \/ StoreSize(s) \/ StoreOwner(s)
  \/ StoreName(s) \/ PrepareScene(s)

Connect == VisOpen \/ VisMap \/ VisLoad \/ VisTest \/ VisQuit

Next ==
  \/ \E s \in Sim : Create(s) \/ Complete(s) \/ Detach(s) \/ Kill(s)
  \/ Connect

Spec == Init /\ [][Next]_vars

-----------------------------------------------------------------------------
(* Properties.                                                              *)

Processes == [pc : {"new", "open", "stat", "peek", "owned", "resize", "wipe", "size", "own", "name",
                    "prepare", "run", "report", "dead"},
              pid : Pid \cup {0}, n : Instance, fd : Seg \cup {NoSeg}, scene : Seg \cup {NoSeg}, run : Nat]
Headers == [owner : Pid \cup {0}, sceneSize : Nat, nbody : Nat, shmemName : Instance \cup {NoName},
            queue : SUBSET Sim]
Visualizers == [pc : {"off", "map", "load", "test", "attached"}, n : Instance, fd : Seg \cup {NoSeg},
                mapped : Nat, want : Nat, of : Sim \cup {NoSeg}]

(* Names, descriptors and scenes lead to segments that exist, and every     *)
(* field has its type.                                                      *)
TypeOK ==
  /\ used \subseteq Seg /\ mishaps \subseteq Mishap /\ dir \in [Instance -> used \cup {NoSeg}]
  /\ size \in [Seg -> Nat] /\ header \in [Seg -> Headers]
  /\ sim \in [Sim -> Processes] /\ vis \in Visualizers
  /\ \A s \in Sim : /\ sim[s].run <= Runs[s] /\ sim[s].scene \in used \cup {NoSeg}
                    /\ Creating(s) \/ sim[s].pc = "new" => sim[s].scene = NoSeg
                    /\ Creating(s) /\ sim[s].pc # "open" => sim[s].fd \in used
  /\ vis.pc # "off" => vis.fd \in used

(* Nothing has blinded a simulation to the owner of a segment.              *)
Calm == mishaps \cap {"overlap", "blind"} = {}

(* The scene of a running simulation is its own: it has the size its bodies *)
(* need, its header names the simulation as the owner, and no other has     *)
(* pushed snapshots into its queue.  A segment that was left over, or that  *)
(* its owner has given up, may be taken; one in use may not.                *)
SceneIsMine ==
  Calm =>
    \A s \in Sim : Running(s) =>
      LET x == sim[s].scene
      IN  /\ size[x] = nbFindShmemSize(Geometry[s])
          /\ header[x].sceneSize = size[x] /\ header[x].nbody = Geometry[s]
          /\ header[x].owner = sim[s].pid /\ header[x].shmemName = sim[s].n
          /\ header[x].queue \subseteq {s}

(* A visualizer that was let in to the scene of a simulation that still     *)
(* runs has all of it mapped, although the segment may have changed its     *)
(* size between its fstat and its look at the header.                       *)
MappedWhole ==
  Calm /\ vis.pc = "attached" /\ vis.of \in Sim =>
    (Running(vis.of) /\ sim[vis.of].scene = vis.fd =>
       vis.mapped >= nbFindShmemSize(header[vis.fd].nbody))

(* When all simulations have ended by themselves and nothing went wrong,    *)
(* the names that are left are those of scenes that a later calibration run *)
(* of their owner forgot: a scene that nbReportSimulationComplete has       *)
(* disowned keeps no name.                                                  *)
DisownedRemoved ==
  mishaps = {} /\ (\A s \in Sim : sim[s].pc = "dead") =>
    \A n \in Instance : dir[n] # NoSeg => header[dir[n]].owner # 0

-----------------------------------------------------------------------------
(* The inductive invariant behind the safety properties.                    *)

(* mwProcessIsAlive tells living simulations apart.                         *)
PidInv ==
  /\ \A s \in Sim : Alive(s) => sim[s].pid # 0
  /\ \A s, t \in Sim : Alive(s) /\ Alive(t) /\ sim[s].pid = sim[t].pid => s = t

(* A segment has one name at most, the one it was opened by.                *)
NameInv ==
  /\ \A m, n \in Instance : dir[m] = dir[n] /\ dir[m] # NoSeg => m = n
  /\ \A s \in Sim, m \in Instance :
       /\ Creating(s) /\ sim[s].pc # "open" /\ dir[m] = sim[s].fd => m = sim[s].n
       /\ Running(s) /\ dir[m] = sim[s].scene => m = sim[s].n

(* The simulation has taken the segment, and how far its header is.         *)
Taking(s) == sim[s].pc \in {"resize", "wipe", "size", "own", "name", "prepare"}
Filling(s) ==
  LET p == sim[s]
      h == header[p.fd]
  IN  /\ p.pc \in {"wipe", "size", "own", "name", "prepare"} => size[p.fd] = nbFindShmemSize(Geometry[s])
      /\ p.pc \in {"size", "own", "name", "prepare"} => h.queue = {}
      /\ p.pc \in {"own", "name", "prepare"} => h.sceneSize = nbFindShmemSize(Geometry[s])
      /\ p.pc \in {"name", "prepare"} => h.owner = p.pid
      /\ p.pc = "prepare" => h.shmemName = p.n

(* One simulation creates a scene at a time, in a segment that no other     *)
(* runs with.                                                               *)
CreateInv == Calm =>
  /\ \A s, t \in Sim : Creating(s) /\ Creating(t) => s = t
  /\ \A s \in Sim : Taking(s) => /\ Filling(s)
                                 /\ \A t \in Sim : Running(t) => sim[t].scene # sim[s].fd

(* What the visualizer has mapped is enough for the simulation it was let   *)
(* in to, which keeps its number of bodies.                                 *)
MapInv ==
  Calm /\ vis.pc = "attached" /\ vis.of \in Sim => vis.mapped >= nbFindShmemSize(Geometry[vis.of])

(* A name of a segment without an owner is about to be removed, or the      *)
(* segment to be owned.                                                     *)
OwnerInv == mishaps = {} =>
  \A n \in Instance : dir[n] # NoSeg /\ header[dir[n]].owner = 0 =>
    \E s \in Sim :
      \/ sim[s].pc \in {"stat", "peek", "owned", "resize", "wipe", "size", "own"} /\ sim[s].fd = dir[n]
      \/ sim[s].pc = "report" /\ sim[s].scene = dir[n] /\ header[dir[n]].shmemName = n

IInv == TypeOK /\ PidInv /\ NameInv /\ CreateInv /\ SceneIsMine /\ MapInv /\ OwnerInv

=============================================================================
