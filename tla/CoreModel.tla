----------------------------- MODULE CoreModel -----------------------------
(***************************************************************************)
(* The studio's model of a core project: the object graph the server keeps *)
(* for an opened project (plugins, templates, components, bindings) and    *)
(* the edit operations of CoreOpenedProject on it.  Every operation is an  *)
(* operator that returns the project after the call, the notifications it  *)
(* sent, and whether it threw; a call that throws half way returns the     *)
(* project as it then is.                                                  *)
(*                                                                         *)
(* A view is the project itself (Root) or a template.  The object graph    *)
(* and the stored data are the same objects except for a component's       *)
(* definition: "def" is the definition object (followed through renames),  *)
(* "data" the identifier the file holds.                                   *)
(*                                                                         *)
(* A component identifier is a sequence of tokens, Placeholder standing    *)
(* for the characters {{id}}.                                              *)
(***************************************************************************)
EXTENDS Naturals, FiniteSets, Sequences, SequencesExt, TLC

CONSTANTS
  Plugins,          \* plugin identifiers
  InstanceOf,       \* [Plugins -> instance names]
  Catalog,          \* what a plugin's data can be: [version, config: name -> type,
                    \* members: name -> [kind, type]], by a name for it
  ConfigValues,     \* [config types -> their values], the least one the default
  TemplateOrder     \* the template identifiers in string order

Root == ""
Placeholder == "#"
Undefined == 1000     \* a property read that finds nothing
NoMember == [kind |-> "none", type |-> "none"]

(***************************************************************************)
(* The shape of the data.                                                  *)
(***************************************************************************)
EmptyView == [comps |-> <<>>, binds |-> {}, xcfg |-> <<>>, xmem |-> <<>>]

NewProject == [plugins |-> <<>>, views |-> (Root :> EmptyView), usage |-> <<>>]

Templates(p) == DOMAIN p.views \ {Root}
Definitions(p) == DOMAIN p.plugins \cup Templates(p)
Comps(p, v) == p.views[v].comps
Places(p) == UNION {{<<v, id>> : id \in DOMAIN Comps(p, v)} : v \in DOMAIN p.views}
CompAt(p, k) == Comps(p, k[1])[k[2]]

Drop(f, S) == [x \in DOMAIN f \ S |-> f[x]]
Put(f, x, y) == (x :> y) @@ f
Renamed(x, old, new) == IF x = old THEN new ELSE x

Done(p, out) == [p |-> p, out |-> out, threw |-> FALSE]
Threw(p, out) == [p |-> p, out |-> out, threw |-> TRUE]

(***************************************************************************)
(* The usage maps of plugins and templates: from a component's identifier  *)
(* to the view that owns it.  The key does not name the view.              *)
(***************************************************************************)
RegisterUsage(p, def, id, v) ==
  [p EXCEPT !.usage = Put(@, def, Put(IF def \in DOMAIN @ THEN @[def] ELSE <<>>, id, v))]

UnregisterUsage(p, def, id) == [p EXCEPT !.usage[def] = Drop(@, {id})]

Used(p, def) == DOMAIN p.usage[def] # {}

(***************************************************************************)
(* Members and config of a definition, through the exports of templates.   *)
(***************************************************************************)
PluginData(p, g) == Catalog[p.plugins[g].data]

RECURSIVE MemberOf(_, _, _)
MemberOf(p, def, m) ==
  IF def \in Templates(p)
  THEN IF m \in DOMAIN p.views[def].xmem
       THEN LET x == p.views[def].xmem[m]
            IN  MemberOf(p, Comps(p, def)[x[1]].def, x[2])
       ELSE NoMember
  ELSE LET members == PluginData(p, def).members
       IN  IF m \in DOMAIN members THEN members[m] ELSE NoMember

ConfigOf(p, def) ==
  IF def \in Templates(p) THEN DOMAIN p.views[def].xcfg ELSE DOMAIN PluginData(p, def).config

RECURSIVE ConfigTypeOf(_, _, _)
ConfigTypeOf(p, def, k) ==
  IF def \in Templates(p)
  THEN LET x == p.views[def].xcfg[k]
       IN  ConfigTypeOf(p, Comps(p, def)[x[1]].def, x[2])
  ELSE PluginData(p, def).config[k]

CreateConfigTemplateValue(p, def, k) == Min(ConfigValues[ConfigTypeOf(p, def, k)])
CreateConfigTemplate(p, def) == [k \in ConfigOf(p, def) |-> CreateConfigTemplateValue(p, def, k)]

(***************************************************************************)
(* Reachability: what R leads to from the elements of S.                   *)
(***************************************************************************)
RECURSIVE Reach(_, _)
Reach(R, S) ==
  LET next == {e[2] : e \in {e \in R : e[1] \in S}}
  IN  IF next \subseteq S THEN S ELSE Reach(R, S \cup next)

Beyond(R, x) == Reach(R, {e[2] : e \in {e \in R : e[1] = x}})

(***************************************************************************)
(* getRecursiveTemplateUsage: the templates that contain, directly or not, *)
(* a component of template t.  The recursion never ends (the call throws)  *)
(* when it meets a template that contains itself.                          *)
(***************************************************************************)
UsageEdges(p) ==
  {e \in Templates(p) \X Templates(p) : \E id \in DOMAIN p.usage[e[1]] : p.usage[e[1]][id] = e[2]}

RecursiveTemplateUsage(p, t) == Beyond(UsageEdges(p), t)

RecursionEnds(p, t) ==
  \A u \in RecursiveTemplateUsage(p, t) \cup {t} : u \notin RecursiveTemplateUsage(p, u)

(***************************************************************************)
(* The components a project instantiates: the chain of identifiers from    *)
(* the project, the name the component gets, its plugin and its config.    *)
(***************************************************************************)
Substitute(id, owner) ==
  IF \E i \in DOMAIN id : id[i] = Placeholder
  THEN LET i == CHOOSE i \in DOMAIN id : /\ id[i] = Placeholder
                                         /\ \A j \in 1 .. i - 1 : id[j] # Placeholder
       IN  SubSeq(id, 1, i - 1) \o owner \o SubSeq(id, i + 1, Len(id))
  ELSE id

NestingEdges(p) ==
  {e \in (DOMAIN p.views) \X Templates(p) :
     \E id \in DOMAIN Comps(p, e[1]) : Comps(p, e[1])[id].def = e[2]}

Circular(p, t) == t \in Beyond(NestingEdges(p), t)

Lookup(f, x) == IF x \in DOMAIN f THEN f[x] ELSE Undefined

RECURSIVE Instantiate(_, _, _, _, _)
Instantiate(p, v, chain, owner, given) ==
  UNION {LET c == Comps(p, v)[id]
             name == Substitute(id, owner)
             over == {x \in DOMAIN p.views[v].xcfg : p.views[v].xcfg[x][1] = id}
             applied == [k \in {p.views[v].xcfg[x][2] : x \in over} |->
                           Lookup(given, CHOOSE x \in over : p.views[v].xcfg[x][2] = k)]
             cfg == applied @@ c.cfg
         IN  IF c.def \in Templates(p)
             THEN Instantiate(p, c.def, Append(chain, id), name, cfg)
             ELSE {[chain |-> Append(chain, id), name |-> name, plugin |-> c.def, cfg |-> cfg,
                    ext |-> c.ext /\ v = Root]}
         : id \in DOMAIN Comps(p, v)}

Instances(p) == Instantiate(p, Root, <<>>, <<>>, <<>>)

(***************************************************************************)
(* namingDryRun.validate on the project an operation would leave: it walks *)
(* from the project only, never ends on a circular template it reaches,    *)
(* and refuses two components of one name.                                 *)
(***************************************************************************)
DryRun(p) ==
  /\ \A t \in Beyond(NestingEdges(p), Root) : ~Circular(p, t)
  /\ \A i, j \in Instances(p) : i.name = j.name => i = j

(***************************************************************************)
(* Notifications.                                                          *)
(***************************************************************************)
NSetTemplate(p, t) == [op |-> "set-core-template", view |-> t, xcfg |-> p.views[t].xcfg, xmem |-> p.views[t].xmem]
NSetComponent(p, v, id) ==
  LET c == Comps(p, v)[id]
  IN  [op |-> "set-core-component", view |-> v, id |-> id, def |-> c.data, cfg |-> c.cfg, pos |-> c.pos]
NClearComponent(v, id) == [op |-> "clear-core-component", view |-> v, id |-> id]
NSetBinding(v, b) == [op |-> "set-core-binding", view |-> v, id |-> b]
NClearBinding(v, b) == [op |-> "clear-core-binding", view |-> v, id |-> b]
NDisplay(g, d) == [op |-> "set-core-plugin-toolbox-display", id |-> g, disp |-> d]
NClearPlugin(g) == [op |-> "clear-core-plugin", id |-> g]

Listed(S) == FoldSet(LAMBDA x, acc : Append(acc, x), <<>>, S)
Each(S, N(_)) == FoldSet(LAMBDA x, acc : Append(acc, N(x)), <<>>, S)

(***************************************************************************)
(* Loading: the constructor of ProjectModel on the stored data.  A view is *)
(* loadable when every definition it names and every end of its bindings   *)
(* exists.                                                                 *)
(***************************************************************************)
Ends(b) == {b.src, b.dst}

Loadable(p) ==
  \A v \in DOMAIN p.views :
    /\ \A id \in DOMAIN Comps(p, v) : Comps(p, v)[id].data \in Definitions(p)
    /\ \A b \in p.views[v].binds : Ends(b) \subseteq DOMAIN Comps(p, v)

Load(p) ==
  LET linked == [p EXCEPT !.views = [v \in DOMAIN @ |-> [@[v] EXCEPT !.comps =
                   [id \in DOMAIN @ |-> [@[id] EXCEPT !.def = CompAt(p, <<v, id>>).data]]]]]
      users(def) == {k \in Places(linked) : CompAt(linked, k).def = def}
  IN  [linked EXCEPT !.usage = [def \in Definitions(p) |->
         [id \in {k[2] : k \in users(def)} |-> (CHOOSE k \in users(def) : k[2] = id)[1]]]]

EmitAllState(p) ==
  LET templates(t) == NSetTemplate(p, t)
      components(k) == NSetComponent(p, k[1], k[2])
      bindings(k) == NSetBinding(k[1], k[2])
  IN  <<[op |-> "set-core-plugins", plugins |-> p.plugins]>>
      \o Each(Templates(p), templates)
      \o Each(Places(p), components)
      \o Each(UNION {{v} \X p.views[v].binds : v \in DOMAIN p.views}, bindings)

(***************************************************************************)
(* Plugins: show or hide, delete when unused.                              *)
(***************************************************************************)
DeletePlugin(p, g) == [p EXCEPT !.plugins = Drop(@, {g}), !.usage = Drop(@, {g})]

InstancePlugins(p, i) == {g \in DOMAIN p.plugins : InstanceOf[g] = i}

ShowPlugins(p, G, d) ==
  LET changed == {g \in G : p.plugins[g].disp # d}
      note(g) == NDisplay(g, d)
  IN  Done([p EXCEPT !.plugins = [g \in DOMAIN @ |->
              IF g \in changed THEN [@[g] EXCEPT !.disp = d] ELSE @[g]]],
           Each(changed, note))

UpdateToolboxInstance(p, i, action) ==
  LET unused == {g \in InstancePlugins(p, i) : ~Used(p, g)}
  IN  IF InstancePlugins(p, i) = {} THEN Threw(p, <<>>)
      ELSE IF action # "delete" THEN ShowPlugins(p, InstancePlugins(p, i), action)
      ELSE Done([p EXCEPT !.plugins = Drop(@, unused), !.usage = Drop(@, unused)],
                Each(unused, NClearPlugin))

UpdateToolboxPlugin(p, g, action) ==
  IF g \notin DOMAIN p.plugins THEN Threw(p, <<>>)
  ELSE IF action # "delete" THEN ShowPlugins(p, {g}, action)
  ELSE IF Used(p, g) THEN Threw(p, <<>>)
  ELSE Done(DeletePlugin(p, g), <<NClearPlugin(g)>>)

(***************************************************************************)
(* Templates.                                                              *)
(***************************************************************************)
SetTemplate(p, t) ==
  LET q == [p EXCEPT !.views = Put(@, t, EmptyView), !.usage = Put(@, t, <<>>)]
  IN  IF t \in Templates(p) THEN Threw(p, <<>>) ELSE Done(q, <<NSetTemplate(q, t)>>)

Unregistered(p, v, S) ==
  [def \in DOMAIN p.usage |->
     Drop(p.usage[def], {id \in S : Comps(p, v)[id].def = def})]

ClearTemplate(p, t) ==
  IF t \notin Templates(p) \/ Used(p, t) THEN Threw(p, <<>>)
  ELSE Done([p EXCEPT !.views = Drop(@, {t}),
                      !.usage = Drop(Unregistered(p, t, DOMAIN Comps(p, t)), {t})],
            <<[op |-> "clear-core-template", id |-> t]>>)

RenameKey(f, old, new) ==
  [x \in {Renamed(y, old, new) : y \in DOMAIN f} |-> f[Renamed(x, new, old)]]

RenameTemplate(p, t, u) ==
  IF u \in Templates(p) \/ t \notin Templates(p) THEN Threw(p, <<>>)
  ELSE Done([p EXCEPT
               !.views = [v \in {Renamed(w, t, u) : w \in DOMAIN @} |->
                            [@[Renamed(v, u, t)] EXCEPT !.comps =
                               [id \in DOMAIN @ |-> [@[id] EXCEPT !.def = Renamed(@, t, u)]]]],
               !.usage = [def \in {Renamed(d, t, u) : d \in DOMAIN @} |->
                            [id \in DOMAIN @[Renamed(def, u, t)] |->
                               Renamed(@[Renamed(def, u, t)][id], t, u)]]],
            <<[op |-> "rename-core-template", id |-> t, new |-> u]>>)

SetConfigExport(p, t, x, id, k) ==
  LET xcfg == p.views[t].xcfg
      users == {<<p.usage[t][c], c>> : c \in DOMAIN p.usage[t]}
      default == CreateConfigTemplateValue(p, Comps(p, t)[id].def, k)
      exported == [p EXCEPT !.views[t].xcfg = Put(@, x, <<id, k>>),
                            !.views[t].comps[id].cfg = Drop(@, {k})]
      q == [exported EXCEPT !.views = [v \in DOMAIN @ |-> [@[v] EXCEPT !.comps =
              [c \in DOMAIN @ |-> IF <<v, c>> \in users THEN [@[c] EXCEPT !.cfg = Put(@, x, default)]
                                  ELSE @[c]]]]]
      note(c) == NSetComponent(q, c[1], c[2])
  IN  IF \/ t \notin Templates(p) \/ id \notin DOMAIN Comps(p, t)
         \/ k \notin ConfigOf(p, Comps(p, t)[id].def)
         \/ x \in DOMAIN xcfg \/ \E y \in DOMAIN xcfg : xcfg[y] = <<id, k>>
      THEN Threw(p, <<>>)
      ELSE Done(q, <<NSetTemplate(q, t)>> \o Each({<<t, id>>} \cup users, note))

SetMemberExport(p, t, x, id, m) ==
  LET q == [p EXCEPT !.views[t].xmem = Put(@, x, <<id, m>>)]
  IN  IF \/ t \notin Templates(p) \/ id \notin DOMAIN Comps(p, t)
         \/ MemberOf(p, Comps(p, t)[id].def, m) = NoMember
         \/ x \in DOMAIN p.views[t].xmem
      THEN Threw(p, <<>>)
      ELSE Done(q, <<NSetTemplate(q, t)>>)

(***************************************************************************)
(* Components.                                                             *)
(***************************************************************************)
Exported(p, v, id) ==
  \/ \E x \in DOMAIN p.views[v].xcfg : p.views[v].xcfg[x][1] = id
  \/ \E x \in DOMAIN p.views[v].xmem : p.views[v].xmem[x][1] = id

RegisterComponent(p, v, id, c) ==
  RegisterUsage([p EXCEPT !.views[v].comps = Put(@, id, c)], c.def, id, v)

WouldCircleNever(p, v, def) == FALSE     \* mutant
WouldCircle(p, v, def) ==
  v # Root /\ (~RecursionEnds(p, v) \/ def \in RecursiveTemplateUsage(p, v))

SetComponent(p, v, id, def) ==
  LET q == RegisterComponent(p, v, id, [def |-> def, data |-> def, pos |-> 0, ext |-> FALSE,
                                        cfg |-> CreateConfigTemplate(p, def)])
  IN  IF \/ v \notin DOMAIN p.views \/ id \in DOMAIN Comps(p, v)
         \/ def \notin Definitions(p) \/ WouldCircle(p, v, def) \/ ~DryRun(q)
      THEN Threw(p, <<>>)
      ELSE Done(q, <<NSetComponent(q, v, id)>>)

MoveComponents(p, v, ids, delta) ==
  LET missing == {i \in DOMAIN ids : ids[i] \notin DOMAIN Comps(p, v)}
      known == IF missing = {} THEN ids ELSE SubSeq(ids, 1, Min(missing) - 1)
      q == [p EXCEPT !.views[v].comps = [id \in DOMAIN @ |->
              IF id \in Range(known) THEN [@[id] EXCEPT !.pos = @ + delta] ELSE @[id]]]
      out == [i \in DOMAIN known |-> NSetComponent(q, v, known[i])]
  IN  IF v \notin DOMAIN p.views THEN Threw(p, <<>>)
      ELSE IF known = ids THEN Done(q, out) ELSE Threw(q, out)

ConfigureComponent(p, v, id, k, val) ==
  LET q == [p EXCEPT !.views[v].comps[id].cfg[k] = val]
  IN  IF \/ v \notin DOMAIN p.views \/ id \notin DOMAIN Comps(p, v)
         \/ k \notin DOMAIN Comps(p, v)[id].cfg \/ k \notin ConfigOf(p, Comps(p, v)[id].def)
         \/ val \notin ConfigValues[ConfigTypeOf(p, Comps(p, v)[id].def, k)]
      THEN Threw(p, <<>>)
      ELSE Done(q, <<NSetComponent(q, v, id)>>)

RenameEnds(b, id, new) == [b EXCEPT !.src = Renamed(@, id, new), !.dst = Renamed(@, id, new)]

RenameComponent(p, v, id, new) ==
  LET exports(f) == [x \in DOMAIN f |-> <<Renamed(f[x][1], id, new), f[x][2]>>]
      c == Comps(p, v)[id]
      moved == [p EXCEPT !.views[v] = [comps |-> RenameKey(@.comps, id, new),
                                       binds |-> {RenameEnds(b, id, new) : b \in @.binds},
                                       xcfg |-> exports(@.xcfg), xmem |-> exports(@.xmem)]]
      q == RegisterUsage(UnregisterUsage(moved, c.def, id), c.def, new, v)
      clear(b) == NClearBinding(v, b)
      set(b) == NSetBinding(v, b)
  IN  IF \/ v \notin DOMAIN p.views \/ id \notin DOMAIN Comps(p, v)
         \/ new \in DOMAIN Comps(p, v) \/ ~DryRun(q)
      THEN Threw(p, <<>>)
      ELSE Done(q, Each({b \in p.views[v].binds : id \in Ends(b)}, clear)
                   \o <<[op |-> "rename-core-component", view |-> v, id |-> id, new |-> new]>>
                   \o Each({b \in q.views[v].binds : new \in Ends(b)}, set)
                   \o (IF Exported(q, v, new) THEN <<NSetTemplate(q, v)>> ELSE <<>>))

ClearComponents(p, v, ids) ==
  LET gone(i) == {b \in p.views[v].binds : /\ ids[i] \in Ends(b)
                                           /\ \A j \in 1 .. i - 1 : ids[j] \notin Ends(b)}
      clear(b) == NClearBinding(v, b)
      S == Range(ids)
  IN  IF \/ v \notin DOMAIN p.views \/ ~(S \subseteq DOMAIN Comps(p, v))
         \/ \E id \in S : Exported(p, v, id)
      THEN Threw(p, <<>>)
      ELSE Done([p EXCEPT !.views[v].comps = Drop(@, S),
                          !.views[v].binds = {b \in @ : Ends(b) \cap S = {}},
                          !.usage = Unregistered(p, v, S)],
                FlattenSeq([i \in DOMAIN ids |-> Each(gone(i), clear) \o <<NClearComponent(v, ids[i])>>]))

CopyId(id) == <<Placeholder>> \o id

CopyComponentsToTemplate(p, v, S, w) ==
  LET copies == {CopyId(id) : id \in S}
      source(id) == Comps(p, v)[Tail(id)]
      links == {b \in p.views[v].binds : Ends(b) \subseteq S}
      binds == {[b EXCEPT !.src = CopyId(@), !.dst = CopyId(@)] : b \in links}
      placed == [p EXCEPT !.views[w].comps =
                   [id \in copies |-> [source(id) EXCEPT !.ext = FALSE]] @@ @,
                          !.views[w].binds = @ \cup binds]
      q == [placed EXCEPT !.usage = [def \in DOMAIN @ |->
              [id \in {id \in copies : source(id).def = def} |-> w] @@ @[def]]]
      component(id) == NSetComponent(q, w, id)
      binding(b) == NSetBinding(w, b)
  IN  IF \/ v = w \/ ~({v, w} \subseteq DOMAIN p.views) \/ ~(S \subseteq DOMAIN Comps(p, v))
         \/ \E id \in S : Comps(p, v)[id].ext \/ Comps(p, v)[id].def \in Templates(p)
         \/ copies \cap DOMAIN Comps(p, w) # {} \/ ~DryRun(q)
      THEN Threw(p, <<>>)
      ELSE Done(q, Each(copies, component) \o Each(binds, binding))

(***************************************************************************)
(* Bindings.                                                               *)
(***************************************************************************)
SetBinding(p, v, b) ==
  LET from == MemberOf(p, Comps(p, v)[b.src].def, b.st)
      to == MemberOf(p, Comps(p, v)[b.dst].def, b.ac)
  IN  IF \/ v \notin DOMAIN p.views \/ ~(Ends(b) \subseteq DOMAIN Comps(p, v))
         \/ b.src = b.dst \/ from.kind # "state" \/ to.kind # "action" \/ from.type # to.type
         \/ b \in p.views[v].binds
      THEN Threw(p, <<>>)
      ELSE Done([p EXCEPT !.views[v].binds = @ \cup {b}], <<NSetBinding(v, b)>>)

ClearBinding(p, v, b) ==
  IF v \notin DOMAIN p.views \/ b \notin p.views[v].binds THEN Threw(p, <<>>)
  ELSE Done([p EXCEPT !.views[v].binds = @ \ {b}], <<NClearBinding(v, b)>>)

-----------------------------------------------------------------------------
(***************************************************************************)
(* The browser's copy of an opened core project: the redux tables of the   *)
(* core designer and the reducer that applies the server's notifications.  *)
(* A reducer that throws leaves the state as it was before its action (the *)
(* whole batch of notifications) and ends the subscription it ran in:      *)
(* "alive" becomes FALSE.                                                  *)
(*                                                                         *)
(* Components and bindings have identifiers qualified by their view.  A    *)
(* view lists its components and bindings, a definition lists its users, a *)
(* component names its template and indexes its bindings: the reducer      *)
(* keeps all of these in step by hand.                                     *)
(***************************************************************************)
NoSelection == [type |-> "none", ids |-> {}]

EmptyMirrorView == [comps |-> {}, binds |-> {}, xcfg |-> <<>>, xmem |-> <<>>, users |-> {}]

NewTab ==
  [alive |-> TRUE, plugins |-> <<>>, views |-> (Root :> EmptyMirrorView), comps |-> <<>>,
   binds |-> <<>>, active |-> Root, sel |-> NoSelection]

Die(m) == [m EXCEPT !.alive = FALSE]

(***************************************************************************)
(* registerComponentOnDefinition, unregisterComponentFromDefinition: a     *)
(* definition that is not in the tables is a TypeError.                    *)
(***************************************************************************)
WithUsers(m, def, U(_)) ==
  IF def \in DOMAIN m.plugins THEN [m EXCEPT !.plugins[def].users = U(@)]
  ELSE IF def \in DOMAIN m.views \ {Root} THEN [m EXCEPT !.views[def].users = U(@)]
  ELSE Die(m)

Register(m, k) == WithUsers(m, m.comps[k].def, LAMBDA users : users \cup {k})
Unregister(m, k) == WithUsers(m, m.comps[k].def, LAMBDA users : users \ {k})

(***************************************************************************)
(* The selection of the active view.                                       *)
(***************************************************************************)
Unselect(m, v, type, k) ==
  IF m.active # v \/ m.sel.type # type THEN m
  ELSE IF m.sel.ids \subseteq {k} THEN [m EXCEPT !.sel = NoSelection]
  ELSE [m EXCEPT !.sel.ids = @ \ {k}]

RenameSelectionKept(m, v, type, renaming) == m     \* mutant
RenameSelection(m, v, type, renaming) ==
  IF m.active # v \/ m.sel.type # type THEN m
  ELSE [m EXCEPT !.sel.ids = {IF k \in DOMAIN renaming THEN renaming[k] ELSE k : k \in @}]

(***************************************************************************)
(* Plugins.                                                                *)
(***************************************************************************)
ApplyReset(m) ==
  [m EXCEPT !.plugins = <<>>, !.views = (Root :> EmptyMirrorView), !.active = Root,
            !.sel = NoSelection,
            !.comps = Drop(@, m.views[Root].comps), !.binds = Drop(@, m.views[Root].binds)]

ApplySetPlugins(m, n) ==
  [m EXCEPT !.plugins = [g \in DOMAIN n.plugins |-> n.plugins[g] @@ [users |-> {}]]]

ApplySetPlugin(m, n) ==
  [m EXCEPT !.plugins = Put(@, n.id,
     n.plugin @@ [users |-> IF n.id \in DOMAIN @ THEN @[n.id].users ELSE {}])]

ApplyDisplay(m, n) ==
  IF n.id \in DOMAIN m.plugins THEN [m EXCEPT !.plugins[n.id].disp = n.disp] ELSE Die(m)

ApplyClearPlugin(m, n) ==
  IF n.id \notin DOMAIN m.plugins THEN Die(m)
  ELSE IF m.plugins[n.id].users # {} THEN Die(m)
  ELSE [m EXCEPT !.plugins = Drop(@, {n.id})]

(***************************************************************************)
(* Templates.                                                              *)
(***************************************************************************)
Qualified(v, f) == [x \in DOMAIN f |-> <<<<v, f[x][1]>>, f[x][2]>>]

ApplySetTemplate(m, n) ==
  LET old == IF n.view \in DOMAIN m.views THEN m.views[n.view] ELSE EmptyMirrorView
  IN  [m EXCEPT !.views = Put(@, n.view, [old EXCEPT !.xcfg = Qualified(n.view, n.xcfg),
                                                     !.xmem = Qualified(n.view, n.xmem)])]

ApplyClearTemplate(m, n) ==
  LET view == m.views[n.id]
      left == FoldSet(LAMBDA k, acc : Unregister(acc, k), m, view.comps)
  IN  IF n.id \notin DOMAIN m.views THEN Die(m)
      ELSE [left EXCEPT !.comps = Drop(@, view.comps), !.binds = Drop(@, view.binds),
                        !.views = Drop(@, {n.id}),
                        !.active = IF @ = n.id THEN Root ELSE @,
                        !.sel = IF m.active = n.id THEN NoSelection ELSE @]

\* rename-core-template walks a sorted list while it moves the elements of the
\* list: when the new identifiers sort after the old ones, every second element
\* is stepped over.  The template a component names keeps its old identifier.
Greater(t, u) ==
  \E i, j \in DOMAIN TemplateOrder : i > j /\ TemplateOrder[i] = t /\ TemplateOrder[j] = u

Visited(S, old, new) ==
  LET s == Listed(S)
  IN  IF Greater(new, old) THEN {s[i] : i \in {i \in DOMAIN s : i % 2 = 1}} ELSE S

ApplyRenameTemplate(m, n) ==
  LET view == m.views[n.id]
      to(k) == <<n.new, k[2]>>
      C == Visited(view.comps, n.id, n.new)
      B == Visited(view.binds, n.id, n.new)
      cmap == [k \in C |-> to(k)]
      bmap == [k \in B |-> to(k)]
      in(f, k) == IF k \in DOMAIN f THEN f[k] ELSE k
      images(f, S) == {in(f, k) : k \in S}
      left == FoldSet(LAMBDA k, acc : Unregister(acc, k),
                      [m EXCEPT !.views = RenameKey(@, n.id, n.new)], C)
      moved == [left EXCEPT
         !.comps = [k \in images(cmap, DOMAIN @) |->
            LET c == @[CHOOSE j \in DOMAIN @ : in(cmap, j) = k]
            IN  [c EXCEPT !.binds = images(bmap, @)]],
         !.binds = [k \in images(bmap, DOMAIN @) |->
            LET b == @[CHOOSE j \in DOMAIN @ : in(bmap, j) = k]
            IN  [src |-> in(cmap, b.src), dst |-> in(cmap, b.dst)]],
         !.views[n.new].comps = images(cmap, @),
         !.views[n.new].binds = images(bmap, @),
         !.active = Renamed(@, n.id, n.new)]
      back == FoldSet(LAMBDA k, acc : Register(acc, k), moved, {to(k) : k \in C})
  IN  IF n.id \notin DOMAIN m.views \/ ~left.alive THEN Die(m)
      ELSE RenameSelection(RenameSelection(back, n.new, "components", cmap), n.new, "binding", bmap)

(***************************************************************************)
(* Components.                                                             *)
(***************************************************************************)
ApplySetComponent(m, n) ==
  LET k == <<n.view, n.id>>
      mine == {x \in m.views[n.view].binds : k \in {m.binds[x].src, m.binds[x].dst}}
      q == [m EXCEPT !.comps = Put(@, k, [def |-> n.def, cfg |-> n.cfg, pos |-> n.pos, binds |-> mine,
                                            templateId |-> n.view]),
                     !.views[n.view].comps = @ \cup {k}]
  IN  IF n.view \notin DOMAIN m.views THEN Die(m) ELSE Register(q, k)

ApplyClearComponent(m, n) ==
  LET k == <<n.view, n.id>>
      left == Unregister(m, k)
      q == [left EXCEPT !.views[n.view].comps = @ \ {k}, !.comps = Drop(@, {k})]
  IN  IF n.view \notin DOMAIN m.views \/ k \notin DOMAIN m.comps THEN Die(m)
      ELSE Unselect(q, n.view, "components", k)

ApplyRenameComponent(m, n) ==
  LET k == <<n.view, n.id>>
      new == <<n.view, n.new>>
      left == Unregister(m, k)
      q == [left EXCEPT !.comps = Put(Drop(@, {k}), new, m.comps[k]),
                        !.views[n.view].comps = (@ \ {k}) \cup {new}]
  IN  IF n.view \notin DOMAIN m.views \/ k \notin DOMAIN m.comps THEN Die(m)
      ELSE RenameSelection(Register(q, new), n.view, "components", k :> new)

(***************************************************************************)
(* Bindings.                                                               *)
(***************************************************************************)
ApplySetBinding(m, n) ==
  LET x == <<n.view, n.id>>
      src == <<n.view, n.id.src>>
      dst == <<n.view, n.id.dst>>
  IN  IF n.view \notin DOMAIN m.views \/ ~({src, dst} \subseteq DOMAIN m.comps) THEN Die(m)
      ELSE [m EXCEPT !.binds = Put(@, x, [src |-> src, dst |-> dst]),
                     !.views[n.view].binds = @ \cup {x},
                     !.comps = [k \in DOMAIN @ |->
                        IF k \in {src, dst} THEN [@[k] EXCEPT !.binds = @ \cup {x}] ELSE @[k]]]

ApplyClearBinding(m, n) ==
  LET x == <<n.view, n.id>>
      ends == {m.binds[x].src, m.binds[x].dst}
      q == [m EXCEPT !.views[n.view].binds = @ \ {x}, !.binds = Drop(@, {x}),
                     !.comps = [k \in DOMAIN @ |->
                        IF k \in ends THEN [@[k] EXCEPT !.binds = @ \ {x}] ELSE @[k]]]
  IN  IF \/ n.view \notin DOMAIN m.views \/ x \notin DOMAIN m.binds
         \/ \E k \in ends : k \notin DOMAIN m.comps \/ x \notin m.comps[k].binds
      THEN Die(m)
      ELSE Unselect(q, n.view, "binding", x)

(***************************************************************************)
(* One notification, and a batch: the reducer applies it as one action.    *)
(***************************************************************************)
ApplyProjectUpdate(m, n) ==
  IF ~m.alive THEN m
  ELSE CASE n.op = "reset" -> ApplyReset(m)
         [] n.op = "set-core-plugins" -> ApplySetPlugins(m, n)
         [] n.op = "set-core-plugin" -> ApplySetPlugin(m, n)
         [] n.op = "set-core-plugin-toolbox-display" -> ApplyDisplay(m, n)
         [] n.op = "clear-core-plugin" -> ApplyClearPlugin(m, n)
         [] n.op = "set-core-template" -> ApplySetTemplate(m, n)
         [] n.op = "clear-core-template" -> ApplyClearTemplate(m, n)
         [] n.op = "rename-core-template" -> ApplyRenameTemplate(m, n)
         [] n.op = "set-core-component" -> ApplySetComponent(m, n)
         [] n.op = "clear-core-component" -> ApplyClearComponent(m, n)
         [] n.op = "rename-core-component" -> ApplyRenameComponent(m, n)
         [] n.op = "set-core-binding" -> ApplySetBinding(m, n)
         [] n.op = "clear-core-binding" -> ApplyClearBinding(m, n)

UpdateProject(m, batch) ==
  LET q == FoldLeft(ApplyProjectUpdate, m, batch)
  IN  IF q.alive THEN q ELSE Die(m)

(***************************************************************************)
(* What the designer shows is the project p: every table, every list and   *)
(* every reverse index agrees with the server's model.  The template that  *)
(* a component names is a matter of its own (Owned).                       *)
(***************************************************************************)
Mirrors(m, p) ==
  LET users(def) == {k \in Places(p) : CompAt(p, k).def = def}
      binds(v) == {v} \X p.views[v].binds
      seen(k) == [def |-> CompAt(p, k).data, cfg |-> CompAt(p, k).cfg, pos |-> CompAt(p, k).pos,
                  binds |-> {x \in binds(k[1]) : k[2] \in Ends(x[2])}]
  IN  /\ m.plugins = [g \in DOMAIN p.plugins |-> p.plugins[g] @@ [users |-> users(g)]]
      /\ m.views = [v \in DOMAIN p.views |->
                      [comps |-> {v} \X (DOMAIN Comps(p, v)), binds |-> binds(v),
                       xcfg |-> Qualified(v, p.views[v].xcfg), xmem |-> Qualified(v, p.views[v].xmem),
                       users |-> users(v)]]
      /\ \A k \in Places(p) : m.comps[k] = seen(k) @@ [templateId |-> m.comps[k].templateId]
      /\ \A v \in DOMAIN p.views : \A x \in binds(v) :
           m.binds[x] = [src |-> <<v, x[2].src>>, dst |-> <<v, x[2].dst>>]

(* Every component names the view that lists it: the selectors follow that *)
(* name to find the templates a template may contain.                      *)
Owned(m) == \A v \in DOMAIN m.views : \A k \in m.views[v].comps : m.comps[k].templateId = v
=============================================================================
