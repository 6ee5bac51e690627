---------------------------- MODULE MCTreeKernels ----------------------------
(* Model-checking instances of TreeKernels.                                 *)
EXTENDS TreeKernels

Device(consistent, responsive, quads, lockstep, groups, lanes) ==
  [consistent |-> consistent, responsive |-> responsive, quad |-> quads, checks |-> ~quads,
   lockstep |-> lockstep, groups |-> groups, lanes |-> lanes]

(* Positions are multiples of a unit that can be halved at every level.     *)
Place(s) == [i \in Body |-> 64 * s[i + 1]]

MCPlacements == {Place(s) : s \in
  {<<8, 0, 6, 3>>,    \* a chain of cells with one child
   <<0, 8, 1, 2>>,    \* three levels of cells
   <<0, 7, 8, 8>>,    \* two at one point: too deep
   <<0, 6, 3, 9>>,    \* the last outside the box
   <<4, 4, 4, 4>>}}   \* all at one point: cells run out
MCModes ==
  {Device(TRUE, FALSE, TRUE, TRUE, 2, 1),    \* consistent memory, two groups
   Device(TRUE, TRUE, FALSE, TRUE, 1, 3),    \* in chunks, three lanes of a wavefront
   Device(FALSE, FALSE, TRUE, TRUE, 2, 1),   \* no consistent memory
   Device(FALSE, TRUE, FALSE, TRUE, 1, 2)}   \* the same in one group, which polls

=============================================================================
