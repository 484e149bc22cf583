----------------------------- MODULE CoreDeploy -----------------------------
(***************************************************************************)
(* Deploying a core project: the project is resolved (templates expanded), *)
(* validated against what is online, and compared with what runs.  The     *)
(* plan, a list of tasks, is shown to the user; when it is applied, each   *)
(* task is a remote call to an instance, and the instances that were       *)
(* touched are asked to save their store at the end.  A project is also    *)
(* deployed to store files, one per instance.                              *)
(*                                                                         *)
(* Several users deploy the same project, which is edited meanwhile; calls *)
(* fail, and instances restart from their store.  A user's plan is "clean" *)
(* as long as nothing else has changed the project or an instance since it *)
(* was prepared.                                                           *)
(***************************************************************************)
EXTENDS CoreModel

CONSTANTS
  Users,
  Seeds,          \* the projects that can be open
  Worlds,         \* what can be online: [installed, binders, running]
  InstanceNames,
  MaxDeploys,     \* bound: plans prepared
  MaxEvents       \* bound: edits of the project, calls that fail and restarts

VARIABLES
  proj,           \* the server's model of the project
  world,          \* the plugins installed and the instances with the bindings API
  online,         \* what each instance runs: components and bindings
  stored,         \* what each instance has in its store
  seen,           \* the components the studio's registry shows for each instance
  deploy,         \* each user's deployment
  files,          \* the store files written, by instance
  writing,        \* a deployment to files: a set of at most one
  last,           \* the last deployment that ended: a set of at most one
  deploys, edits, faults

vars == <<proj, world, online, stored, seen, deploy, files, writing, last, deploys, edits, faults>>

Nothing == [comps |-> <<>>, binds |-> {}]
Idle == [phase |-> "idle", tasks |-> <<>>, view |-> Nothing, touched |-> <<>>, saves |-> 0, clean |-> TRUE]

Init ==
  /\ proj \in Seeds
  /\ world \in Worlds
  /\ online = world.running /\ stored = online
  /\ seen = [i \in InstanceNames |-> online[i].comps]
  /\ deploy = [u \in Users |-> Idle]
  /\ files = [i \in InstanceNames |-> Nothing]
  /\ writing = {} /\ last = {}
  /\ deploys = 0 /\ edits = 0 /\ faults = 0

(***************************************************************************)
(* The resolved project.  A binding to a member of a template ends at the  *)
(* component, of the template or of one in it, that exports the member.    *)
(***************************************************************************)
RECURSIVE GetMemberData(_, _, _, _)
GetMemberData(p, def, name, m) ==
  IF def \notin Templates(p) THEN <<name, m>>
  ELSE LET x == p.views[def].xmem[m]
       IN  GetMemberData(p, Comps(p, def)[x[1]].def, Substitute(x[1], name), x[2])

RECURSIVE BuildBindings(_, _, _)
BuildBindings(p, v, owner) ==
  LET name(id) == Substitute(id, owner)
      half(id, m) == GetMemberData(p, Comps(p, v)[id].def, name(id), m)
      bind(from, to) == [src |-> from[1], st |-> from[2], dst |-> to[1], ac |-> to[2]]
      nested == {id \in DOMAIN Comps(p, v) : Comps(p, v)[id].def \in Templates(p)}
  IN  {bind(half(b.src, b.st), half(b.dst, b.ac)) : b \in p.views[v].binds}
        \cup UNION {BuildBindings(p, Comps(p, v)[id].def, name(id)) : id \in nested}

ResolveProject(p) ==
  LET all == Instances(p)
      named(n) == CHOOSE i \in all : i.name = n
  IN  [comps |-> [n \in {i.name : i \in all} |->
                    [plugin |-> named(n).plugin, cfg |-> named(n).cfg, ext |-> named(n).ext,
                     data |-> p.plugins[named(n).plugin].data]],
       binds |-> BuildBindings(p, Root, <<>>)]

InstOf(view, id) == InstanceOf[view.comps[id].plugin]
NonExternal(view) == {id \in DOMAIN view.comps : ~view.comps[id].ext}
NonExternalOn(view, i) == {id \in NonExternal(view) : InstOf(view, id) = i}
Config(view, id) == [plugin |-> view.comps[id].plugin, cfg |-> view.comps[id].cfg]

(***************************************************************************)
(* Validation against what is online.                                      *)
(***************************************************************************)
PluginChanged(view, id) ==
  LET g == view.comps[id].plugin
      here == world.installed[InstanceOf[g]]
  IN  \/ g \notin DOMAIN here
      \/ Catalog[here[g]].config # Catalog[view.comps[id].data].config
      \/ Catalog[here[g]].members # Catalog[view.comps[id].data].members

ExistsElsewhere(view, id) == \E i \in InstanceNames \ {InstOf(view, id)} : id \in DOMAIN seen[i]

\* An external component that is not online is only a warning.
BadExternal(view, id) ==
  \E i \in {i \in InstanceNames : id \in DOMAIN seen[i]} :
    LET g == seen[i][id].plugin
        there == Catalog[world.installed[i][g]]
        same == g = view.comps[id].plugin /\ there.version = Catalog[view.comps[id].data].version
    IN  ~same /\ there.members # Catalog[view.comps[id].data].members

BadBindingApi(view) == view.binds # {} /\ Cardinality(world.binders) # 1

BadConfig(view, id) ==
  LET types == Catalog[view.comps[id].data].config
      cfg == view.comps[id].cfg
  IN  DOMAIN cfg # DOMAIN types \/ \E k \in DOMAIN types : cfg[k] \notin ConfigValues[types[k]]

BindingMismatch(view, b) ==
  LET members(id) == Catalog[view.comps[id].data].members
  IN  \/ b.st \notin DOMAIN members(b.src) \/ b.ac \notin DOMAIN members(b.dst)
      \/ members(b.src)[b.st].type # members(b.dst)[b.ac].type

\* Errors of the project itself, which are errors for both deployments.
LogicErrors(view) ==
  (\E id \in NonExternal(view) : BadConfig(view, id)) \/ (\E b \in view.binds : BindingMismatch(view, b))

Validates(view) ==
  /\ ~LogicErrors(view) /\ ~BadBindingApi(view)
  /\ \A id \in NonExternal(view) : ~PluginChanged(view, id)
  /\ \A id \in DOMAIN view.comps : ~ExistsElsewhere(view, id)
  /\ \A id \in DOMAIN view.comps \ NonExternal(view) : ~BadExternal(view, id)

(***************************************************************************)
(* The plan: a task is <<instance, change, kind, object>>.                 *)
(***************************************************************************)
\* What the instance answers to a list call.
CoreListComponents(i) == online[i].comps

AreComponentsEqual(view, id, running) == Config(view, id) = running

Deploys(view) == {i \in InstanceNames : NonExternalOn(view, i) # {}}

PrepareToOnline(view) ==
  LET binder == CHOOSE i \in world.binders : TRUE
      bindings(S, change) == {<<binder, change, "binding", b>> : b \in S}
      components(i, S, change) == {<<i, change, "component", id>> : id \in S}
      extra(i) == DOMAIN CoreListComponents(i) \ NonExternalOn(view, i)
      new(i) == NonExternalOn(view, i) \ DOMAIN CoreListComponents(i)
      changed(i) == {id \in NonExternalOn(view, i) \cap DOMAIN CoreListComponents(i) :
                       ~AreComponentsEqual(view, id, CoreListComponents(i)[id])}
      ifBinds(S) == IF view.binds = {} THEN {} ELSE S
      all(F(_)) == UNION {F(i) : i \in Deploys(view)}
      removed(i) == components(i, extra(i) \cup changed(i), "delete")
      added(i) == components(i, new(i) \cup changed(i), "add")
  IN  Listed(ifBinds(bindings(online[binder].binds \ view.binds, "delete")))
        \o Listed(all(removed)) \o Listed(all(added))
        \o Listed(ifBinds(bindings(view.binds \ online[binder].binds, "add")))

(***************************************************************************)
(* A task at the instance: it refuses to add what it has, or what it has   *)
(* no plugin for, and to remove what it has not.                           *)
(***************************************************************************)
Refused(s, t, view) ==
  LET there == IF t[3] = "component" THEN DOMAIN s.comps ELSE s.binds
  IN  \/ (t[4] \in there) # (t[2] = "delete")
      \/ /\ t[2] = "add" /\ t[3] = "component"
         /\ view.comps[t[4]].plugin \notin DOMAIN world.installed[t[1]]

Served(s, t, view) ==
  CASE t[2] = "add" /\ t[3] = "component" -> [s EXCEPT !.comps = Put(@, t[4], Config(view, t[4]))]
    [] t[2] = "delete" /\ t[3] = "component" -> [s EXCEPT !.comps = Drop(@, {t[4]})]
    [] t[2] = "add" /\ t[3] = "binding" -> [s EXCEPT !.binds = @ \cup {t[4]}]
    [] t[2] = "delete" /\ t[3] = "binding" -> [s EXCEPT !.binds = @ \ {t[4]}]

(***************************************************************************)
(* The calls of a user.                                                    *)
(***************************************************************************)
\* The plans others hold no longer describe what there is.
Disturbed(u) == [w \in Users |-> IF w = u THEN deploy[w] ELSE [deploy[w] EXCEPT !.clean = FALSE]]

PrepareDeployToOnline(u) ==
  LET view == ResolveProject(proj)
      tasks == PrepareToOnline(view)
  IN  /\ deploy[u].phase = "idle" /\ deploys < MaxDeploys
      /\ Validates(view) /\ tasks # <<>>
      /\ deploy' = [deploy EXCEPT ![u] = [Idle EXCEPT !.phase = "planned", !.tasks = tasks]]
      /\ deploys' = deploys + 1
      /\ UNCHANGED <<proj, world, online, stored, seen, files, writing, last, edits, faults>>

Cancel(u) ==
  /\ deploy[u].phase = "planned"
  /\ deploy' = [deploy EXCEPT ![u] = Idle]
  /\ UNCHANGED <<proj, world, online, stored, seen, files, writing, last, deploys, edits, faults>>

\* The project is resolved again when the plan is applied.
ApplyDeployToOnline(u) ==
  /\ deploy[u].phase = "planned"
  /\ deploy' = [deploy EXCEPT ![u].phase = "applying", ![u].view = ResolveProject(proj)]
  /\ UNCHANGED <<proj, world, online, stored, seen, files, writing, last, deploys, edits, faults>>

\* A call that fails ends the deployment: no store is saved.
End(u, ok) ==
  /\ last' = {[ok |-> ok, clean |-> deploy[u].clean, view |-> deploy[u].view,
               touched |-> {deploy[u].touched[n] : n \in DOMAIN deploy[u].touched}]}
  /\ deploy' = [Disturbed(u) EXCEPT ![u] = Idle]

Touch(touched, i) == IF Contains(touched, i) THEN touched ELSE Append(touched, i)

\* createComponentConfig: the object to add is looked up in the resolved project.
Unresolved(view, t) == t[2] = "add" /\ t[3] = "component" /\ t[4] \notin DOMAIN view.comps

ExecuteOnlineTask(u) ==
  LET d == deploy[u]
      t == Head(d.tasks)
      i == t[1]
  IN  /\ d.phase = "applying" /\ d.tasks # <<>>
      /\ IF Unresolved(d.view, t) \/ Refused(online[i], t, d.view)
         THEN End(u, FALSE) /\ UNCHANGED online
         ELSE /\ online' = [online EXCEPT ![i] = Served(@, t, d.view)]
              /\ deploy' = [Disturbed(u) EXCEPT ![u].tasks = Tail(@), ![u].touched = Touch(@, i)]
              /\ last' = {}
      /\ UNCHANGED <<proj, world, stored, seen, files, writing, deploys, edits, faults>>

\* The call times out: it may have been served or not.
TaskTimesOut(u) ==
  LET d == deploy[u]
      t == Head(d.tasks)
      i == t[1]
  IN  /\ d.phase = "applying" /\ d.tasks # <<>> /\ edits + faults < MaxEvents
      /\ ~(Unresolved(d.view, t) \/ Refused(online[i], t, d.view))
      /\ online' \in {online, [online EXCEPT ![i] = Served(@, t, d.view)]}
      /\ End(u, FALSE) /\ faults' = faults + 1
      /\ UNCHANGED <<proj, world, stored, seen, files, writing, deploys, edits>>

SaveNothing(i) == UNCHANGED stored     \* mutant
Save(i) == stored' = [stored EXCEPT ![i] = online[i]]

\* The touched instances are saved one after the other.
StoreSave(u) ==
  LET d == deploy[u]
  IN  /\ d.phase = "applying" /\ d.tasks = <<>>
      /\ Save(d.touched[d.saves + 1])
      /\ IF d.saves + 1 = Len(d.touched)
         THEN End(u, TRUE)
         ELSE deploy' = [Disturbed(u) EXCEPT ![u].saves = @ + 1] /\ UNCHANGED last
      /\ UNCHANGED <<proj, world, online, seen, files, writing, deploys, edits, faults>>

SaveTimesOut(u) ==
  LET d == deploy[u]
  IN  /\ d.phase = "applying" /\ d.tasks = <<>>
      /\ edits + faults < MaxEvents /\ faults' = faults + 1
      /\ (Save(d.touched[d.saves + 1]) \/ UNCHANGED stored)
      /\ End(u, FALSE)
      /\ UNCHANGED <<proj, world, online, seen, files, writing, deploys, edits>>

(***************************************************************************)
(* Deployment to files.  With several instances the user says which one    *)
(* has the bindings; with one it is guessed when the plan is made.         *)
(***************************************************************************)
StoreItems(view, i, binders) ==
  [comps |-> [id \in NonExternalOn(view, i) |-> Config(view, id)],
   binds |-> IF i \in binders THEN view.binds ELSE {}]

FindBindingInstance(view) ==
  IF view.binds # {} /\ Cardinality(Deploys(view)) = 1 THEN Deploys(view) ELSE {}

PrepareDeployToFiles ==
  LET view == ResolveProject(proj)
      asked == IF view.binds # {} /\ FindBindingInstance(view) = {} THEN InstanceNames ELSE {}
  IN  /\ writing = {} /\ deploys < MaxDeploys /\ ~LogicErrors(view)
      /\ \E binder \in {{}} \cup {{i} : i \in asked} :
           /\ (asked = {}) = (binder = {})
           /\ writing' = {[base |-> view, binder |-> binder \cup FindBindingInstance(view),
                           todo |-> {}, applied |-> FALSE, clean |-> TRUE]}
      /\ deploys' = deploys + 1
      /\ UNCHANGED <<proj, world, online, stored, seen, deploy, files, last, edits, faults>>

\* Bindings that have appeared since, with no instance to put them on, make the
\* call fail before it writes anything.
ApplyDeployToFiles ==
  \E w \in writing :
    LET view == ResolveProject(proj)
        used == Deploys(view) \cup (IF view.binds = {} THEN {} ELSE w.binder)
    IN  /\ ~w.applied
        /\ writing' = IF view.binds # {} /\ w.binder = {} THEN {}
                      ELSE {[w EXCEPT !.base = view, !.todo = used, !.applied = TRUE]}
        /\ UNCHANGED <<proj, world, online, stored, seen, deploy, files, last, deploys, edits, faults>>

SetFile ==
  \E w \in writing : \E i \in w.todo :
    /\ files' = [files EXCEPT ![i] = StoreItems(w.base, i, w.binder)]
    /\ writing' = {[w EXCEPT !.todo = @ \ {i}]}
    /\ UNCHANGED <<proj, world, online, stored, seen, deploy, last, deploys, edits, faults>>

(***************************************************************************)
(* Meanwhile.                                                              *)
(***************************************************************************)
\* A component of the project itself shares its config with the resolved view.
Shared(view, p) ==
  [view EXCEPT !.comps = [id \in DOMAIN @ |->
     IF id \in DOMAIN Comps(p, Root) /\ Comps(p, Root)[id].def = @[id].plugin
     THEN [@[id] EXCEPT !.cfg = Comps(p, Root)[id].cfg] ELSE @[id]]]

Edit(r) ==
  /\ edits + faults < MaxEvents /\ ~r.threw
  /\ proj' = r.p /\ edits' = edits + 1
  /\ deploy' = [u \in Users |-> [deploy[u] EXCEPT !.clean = FALSE, !.view = Shared(@, r.p)]]
  /\ last' = {}
  /\ writing' = {[w EXCEPT !.base = Shared(@, r.p), !.clean = ~w.applied] : w \in writing}
  /\ UNCHANGED <<world, online, stored, seen, files, deploys, faults>>

EditProject ==
  \/ \E id \in DOMAIN Comps(proj, Root) : \E k \in DOMAIN Comps(proj, Root)[id].cfg :
       \E x \in ConfigValues[ConfigTypeOf(proj, Comps(proj, Root)[id].def, k)] :
         Edit(ConfigureComponent(proj, Root, id, k, x))
  \/ \E b \in proj.views[Root].binds : Edit(ClearBinding(proj, Root, b))
  \/ \E id \in DOMAIN Comps(proj, Root) : Edit(ClearComponents(proj, Root, <<id>>))
  \/ \E i \in InstanceNames : \E id \in DOMAIN online[i].comps, g \in DOMAIN proj.plugins :
       Edit(SetComponent(proj, Root, id, g))

Restart(i) ==
  /\ edits + faults < MaxEvents /\ faults' = faults + 1
  /\ online' = [online EXCEPT ![i] = stored[i]]
  /\ deploy' = [u \in Users |-> [deploy[u] EXCEPT !.clean = FALSE]]
  /\ last' = {}
  /\ UNCHANGED <<proj, world, stored, seen, files, writing, deploys, edits>>

\* The studio's registry follows the instance.
Observe(i) ==
  /\ seen[i] # online[i].comps
  /\ seen' = [seen EXCEPT ![i] = online[i].comps]
  /\ UNCHANGED <<proj, world, online, stored, deploy, files, writing, last, deploys, edits, faults>>

Next ==
  \/ \E u \in Users : \/ PrepareDeployToOnline(u) \/ Cancel(u) \/ ApplyDeployToOnline(u)
                       \/ ExecuteOnlineTask(u) \/ TaskTimesOut(u) \/ StoreSave(u) \/ SaveTimesOut(u)
  \/ PrepareDeployToFiles \/ ApplyDeployToFiles \/ SetFile
  \/ EditProject
  \/ \E i \in InstanceNames : Restart(i) \/ Observe(i)

Spec == Init /\ [][Next]_vars

-----------------------------------------------------------------------------
TypeOK ==
  /\ \A u \in Users : deploy[u].phase \in {"idle", "planned", "applying"}
  /\ \A i \in InstanceNames : \A id \in DOMAIN online[i].comps : InstanceOf[online[i].comps[id].plugin] = i
  /\ Cardinality(writing) <= 1 /\ Cardinality(last) <= 1
  /\ deploys <= MaxDeploys /\ edits + faults <= MaxEvents

\* The instances a resolved project is deployed on run what it says, and if it
\* has bindings so does the instance that keeps them.
Matches(view, running) ==
  /\ \A i \in Deploys(view) : running[i].comps = [id \in NonExternalOn(view, i) |-> Config(view, id)]
  /\ view.binds # {} => \A i \in world.binders : running[i].binds = view.binds

\* A deployment nothing interfered with succeeds, and afterwards the instances
\* run the project, and have stored it.
DeploySaved ==
  \A l \in last : l.clean =>
    /\ faults = 0 => l.ok
    /\ l.ok => Matches(l.view, online) /\ \A i \in l.touched : stored[i] = online[i]

\* Whatever happened before, stale plans, deployments cut short, restarts: when
\* the project validates, the plan that would be made now can be carried out to
\* the end, and the instances then run the project.
Retryable ==
  LET view == ResolveProject(proj)
      step(r, t) == [ok |-> r.ok /\ ~Unresolved(view, t) /\ ~Refused(r.running[t[1]], t, view),
                     running |-> [r.running EXCEPT ![t[1]] = Served(@, t, view)]]
      end == FoldLeft(step, [ok |-> TRUE, running |-> online], PrepareToOnline(view))
  IN  Validates(view) => end.ok /\ Matches(view, end.running)

\* No identifier is online on two instances, as long as no plan was applied to
\* another project than the one it was made for.
NoDuplicateIds ==
  edits = 0 => \A i, j \in InstanceNames : i # j => DOMAIN online[i].comps \cap DOMAIN online[j].comps = {}

\* The two deployments agree: instances that run the files that were written
\* have nothing left to deploy, if the bindings were put where they belong.
FilesDeployable ==
  \A w \in writing :
    (w.applied /\ w.clean /\ w.todo = {} /\ (w.base.binds # {} => w.binder = world.binders))
      => Matches(w.base, files)

=============================================================================
