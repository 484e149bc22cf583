------------------------------- MODULE Wiring -------------------------------
(***************************************************************************)
(* What the component runtime promises to its users: components appear and *)
(* vanish, bindings are configured and removed, and at any time the        *)
(* bindings that carry values are those whose two ends are present, with a *)
(* state and an action of one type.                                        *)
(***************************************************************************)
CONSTANTS
  Ids,                     \* component ids
  Plugins,                 \* plugin ids
  Configs,                 \* binding configurations
  BindingErrors(_, _, _),  \* what is wrong with a configuration between two plugins
  None                     \* no component

VARIABLES
  present,     \* id -> plugin of the component present under that id
  configured,  \* binding configurations in force
  wired        \* those that carry values

wiringVars == <<present, configured, wired>>

Fits(c, there) ==
  /\ there[c.sourceComponent] # None
  /\ there[c.targetComponent] # None
  /\ c.sourceComponent # c.targetComponent
  /\ BindingErrors(c, there[c.sourceComponent], there[c.targetComponent]) = {}

Rewire == wired' = {c \in configured' : Fits(c, present')}

Init ==
  /\ present = [i \in Ids |-> None]
  /\ configured = {}
  /\ wired = {}

Appear(i, p) ==
  /\ present[i] = None
  /\ present' = [present EXCEPT ![i] = p]
  /\ UNCHANGED configured
  /\ Rewire

Vanish(S) ==
  /\ present' = [i \in Ids |-> IF i \in S THEN None ELSE present[i]]
  /\ UNCHANGED configured
  /\ Rewire

Configure(c) ==
  /\ c \notin configured
  /\ configured' = configured \cup {c}
  /\ UNCHANGED present
  /\ Rewire

Unconfigure(c) ==
  /\ c \in configured
  /\ configured' = configured \ {c}
  /\ UNCHANGED present
  /\ Rewire

(* A start brings all the local components and bindings at once.           *)
Start ==
  /\ configured = {}
  /\ configured' \in SUBSET Configs
  /\ present' \in [Ids -> Plugins \cup {None}]
  /\ \A i \in Ids : present[i] # None => present'[i] = present[i]
  /\ Rewire

(* A stop removes all the bindings and some or all of the components.      *)
Stop ==
  /\ configured' = {}
  /\ present' \in {[i \in Ids |-> IF i \in S THEN None ELSE present[i]] : S \in SUBSET Ids}
  /\ Rewire

Next ==
  \/ \E i \in Ids, p \in Plugins : Appear(i, p)
  \/ \E S \in SUBSET Ids : Vanish(S)
  \/ \E c \in Configs : Configure(c) \/ Unconfigure(c)
  \/ Start
  \/ Stop

Spec == Init /\ [][Next]_wiringVars
=============================================================================
