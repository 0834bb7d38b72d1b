---------------------------- MODULE AddressSpace ----------------------------
(***************************************************************************)
(* What paging.h promises: once paging is on, a virtual page translates as *)
(* the last paging_map of that very page asked, or not at all; pages       *)
(* nobody maps or unmaps keep the translation they had.                    *)
(***************************************************************************)
CONSTANTS Virt, Identity, Fault

VARIABLES
  space,      \* virtual page -> translation, or Fault
  request     \* the last call: [op, virt, to], to being the translation asked

Off == [v \in Virt |-> Fault]

Init == space = Off /\ request.op = "none"

Enable ==
  /\ space = Off /\ UNCHANGED request
  /\ space' = [v \in Virt |-> IF v \in Identity THEN [frame |-> v, writable |-> 1, user |-> 0]
                              ELSE Fault]

(* A mapping may fail for want of memory only where there was none.        *)
Map ==
  /\ request'.op = "map"
  /\ \/ space' = [space EXCEPT ![request'.virt] = request'.to]
     \/ space[request'.virt] = Fault /\ UNCHANGED space

Unmap ==
  /\ request'.op = "unmap"
  /\ space' = [space EXCEPT ![request'.virt] = Fault]

Spec == Init /\ [][Enable \/ Map \/ Unmap]_<<space, request>>
=============================================================================
