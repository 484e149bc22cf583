-------------------------- MODULE MCStudioProjects --------------------------
(***************************************************************************)
(* The collections of projects with the browsers that show them, and the   *)
(* deployment of a core project.  One of them moves in a behaviour         *)
(* (focus), the other stays in an initial state.                           *)
(*                                                                         *)
(* The collections: two browsers and two names.  Every session numbers its *)
(* notifiers from one; only the first browser shows the list, so that the  *)
(* identifiers of the two tabs collide or not, by the order in which the   *)
(* first one opens them.                                                   *)
(***************************************************************************)
EXTENDS StudioProjects

(***************************************************************************)
(* The deployment: two instances with a plugin each; the second keeps the  *)
(* bindings.                                                               *)
(***************************************************************************)
Plugins == {"g1", "g2"}
InstanceOf == [g1 |-> "i1", g2 |-> "i2"]
Catalog ==
  [g1a |-> [version |-> 1, config |-> [k |-> "int"], members |-> [s |-> [kind |-> "state", type |-> "bool"]]],
   g2a |-> [version |-> 1, config |-> <<>>, members |-> [a |-> [kind |-> "action", type |-> "bool"]]],
   g2b |-> [version |-> 2, config |-> <<>>, members |-> [a |-> [kind |-> "action", type |-> "num"]]]]
ConfigValues == [int |-> {0, 1}]
TemplateOrder == <<"t">>
M == INSTANCE CoreModel

Base ==
  [M!NewProject EXCEPT !.plugins = [g1 |-> [disp |-> "show", data |-> "g1a"], g2 |-> [disp |-> "show", data |-> "g2a"]],
                       !.usage = [g1 |-> <<>>, g2 |-> <<>>]]
Wire(src, st, dst, ac) == [src |-> src, st |-> st, dst |-> dst, ac |-> ac]

\* Two bound components, one per instance; one component; and a template in use
\* bound to an external component.
Pair ==
  LET p == M!SetComponent(M!SetComponent(Base, M!Root, <<"a">>, "g1").p, M!Root, <<"b">>, "g2").p
  IN  M!SetBinding(p, M!Root, Wire(<<"a">>, "s", <<"b">>, "a")).p
Single == M!SetComponent(Base, M!Root, <<"b">>, "g2").p
Templated ==
  LET x  == <<"#", "x">>
      p1 == M!SetComponent(M!SetTemplate(Base, "t").p, "t", x, "g1").p
      p2 == M!SetConfigExport(M!SetMemberExport(p1, "t", "e", x, "s").p, "t", "e", x, "k").p
      p3 == M!SetComponent(M!SetComponent(p2, M!Root, <<"a">>, "t").p, M!Root, <<"b">>, "g2").p
      p4 == [p3 EXCEPT !.views[M!Root].comps[<<"b">>].ext = TRUE]
  IN  M!SetBinding(p4, M!Root, Wire(<<"a">>, "e", <<"b">>, "a")).p

Runs(id, plugin, cfg) == [comps |-> (id :> [plugin |-> plugin, cfg |-> cfg]), binds |-> {}]
Empty == [comps |-> <<>>, binds |-> {}]
Blank == [i1 |-> Empty, i2 |-> Empty]
Old ==
  [i1 |-> Runs(<<"a">>, "g1", [k |-> 1]),
   i2 |-> [Runs(<<"z">>, "g2", <<>>) EXCEPT !.binds = {Wire(<<"a">>, "s", <<"z">>, "a")}]]
Elsewhere == [i1 |-> Runs(<<"b">>, "g1", [k |-> 0]), i2 |-> Empty]
World(g2, binders, running) ==
  [installed |-> [i1 |-> [g1 |-> "g1a"], i2 |-> [g2 |-> g2]], binders |-> binders, running |-> running]
Worlds ==
  {World("g2a", {"i2"}, Old), World("g2a", {"i2"}, Elsewhere), World("g2b", {"i2"}, Blank),
   World("g2a", {"i1", "i2"}, Blank)}

VARIABLES
  focus, project, world, online, stored, shown, deploy, files, writing, last, deploys, edits, faults

D == INSTANCE CoreDeploy WITH
       Users <- {"u1", "u2"}, Seeds <- {Pair, Single, Templated}, InstanceNames <- {"i1", "i2"},
       MaxDeploys <- 2, MaxEvents <- 1, proj <- project, seen <- shown

deployVars == <<project, world, online, stored, shown, deploy, files, writing, last, deploys, edits, faults>>

MCInit ==
  /\ focus \in {"projects", "deploy"} /\ Init /\ D!Init
  /\ focus # "deploy" => project = Single /\ world = World("g2b", {"i2"}, Blank)

MCNext ==
  \/ focus = "projects" /\ Next /\ UNCHANGED <<focus, deployVars>>
  \/ focus = "deploy" /\ D!Next /\ UNCHANGED <<focus, vars>>

MCSpec == MCInit /\ [][MCNext]_<<focus, vars, deployVars>>

-----------------------------------------------------------------------------
(* The types; once everything is polled and handled the collection in      *)
(* memory is the directory, whoever changed it; a browser that has nothing *)
(* left to receive shows that list, and the content of the project it has  *)
(* open; no notifier outlives its session (StudioProjects;                 *)
(* utils/fs-collection.ts, project-manager/store.ts, session-manager.ts,   *)
(* project-manager/opened-project.ts).                                     *)
CollectionShown ==
  focus = "projects" =>
    TypeOK /\ CollectionIsDirectory /\ ListShown /\ TabCurrent /\ NoGhostNotifier

(* The deployment: the types; one that succeeds leaves the instances with  *)
(* what the project says, in their stores too; one that fails can be tried *)
(* again; no component is on two instances; the files written can be       *)
(* loaded (CoreDeploy; project-manager/core/deploy.ts).                    *)
DeploySaved ==
  focus = "deploy" => D!TypeOK /\ D!DeploySaved /\ D!Retryable /\ D!NoDuplicateIds /\ D!FilesDeployable
=============================================================================
