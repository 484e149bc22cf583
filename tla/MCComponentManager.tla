------------------------- MODULE MCComponentManager -------------------------
(***************************************************************************)
(* Small instances of ComponentManager: two local ids and one remote id,   *)
(* bindings between local components and from the remote one, two plugins  *)
(* whose members have one type in common, two identities per object.       *)
(***************************************************************************)
EXTENDS ComponentManager, TLC

CONSTANTS idA, idB, idC, r1, r2, p1, p2, t1, t2, bool, percent

MCStateType == [p \in {p1, p2} |-> [s \in {"s"} |-> IF p = p1 THEN bool ELSE percent]]
MCActionType == [p \in {p1, p2} |-> [x \in {"x"} |-> IF p = p1 THEN bool ELSE None]]

Config(source, target) ==
  [sourceComponent |-> source, sourceState |-> "s",
   targetComponent |-> target, targetAction |-> "x"]

MCHosts == {<<Local, idA>>, <<Local, idB>>, <<r1, idC>>}
MCConfigs == {Config(idA, idB), Config(idC, idA)}

(* A cycle through the three ids, and one component bound to itself.       *)
CycleConfigs == {Config(idA, idB), Config(idB, idC), Config(idC, idA), Config(idA, idA)}

Symmetry == Permutations(Tags)
=============================================================================
