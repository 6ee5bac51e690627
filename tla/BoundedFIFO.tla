---------------------------- MODULE BoundedFIFO ----------------------------
(***************************************************************************)
(* What the shared snapshot queue promises: a lossless first-in first-out  *)
(* channel of bounded capacity.  A snapshot is the step it is labelled     *)
(* with and how often its bodies had moved; what is put in has moved since *)
(* whatever is still in the queue, though its step may be the same.        *)
(***************************************************************************)
EXTENDS Integers, Sequences

CONSTANTS Capacity, Steps, Moves

VARIABLES
  q,     \* the snapshots in the queue, oldest first
  now,   \* the snapshot that would be taken now
  last   \* the snapshot taken out last

vars == <<q, now, last>>

Init == /\ q = <<>>
        /\ now.step \in Steps /\ now.moves \in Moves
        /\ last = [step |-> -1, moves |-> -1]

Tick == /\ now'.step \in Steps /\ now'.moves \in Moves
        /\ \/ now'.step > now.step /\ now'.moves >= now.moves
           \/ now'.step = now.step /\ now'.moves > now.moves
        /\ UNCHANGED <<q, last>>

Put == /\ Len(q) < Capacity
       /\ \A i \in 1 .. Len(q) : q[i].moves < now.moves /\ q[i].step <= now.step
       /\ q' = Append(q, now)
       /\ UNCHANGED <<now, last>>

Take == /\ q # <<>>
        /\ last' = Head(q) /\ q' = Tail(q)
        /\ UNCHANGED now

Next == Tick \/ Put \/ Take

Spec == Init /\ [][Next]_vars

=============================================================================
