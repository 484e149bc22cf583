----------------------------- MODULE CoreImport -----------------------------
(***************************************************************************)
(* Bulk updates of a core project: importing plugins and components from   *)
(* another project or from the running instances, and removing a template  *)
(* export.  The server prepares a list of changes and, for each, the       *)
(* updates it takes with everything that depends on them; the user selects *)
(* changes; the server applies the updates of the selection.  Between the  *)
(* two calls the plan is in the browser, and the project can be edited.    *)
(*                                                                         *)
(* A change and an update are tuples that start with their kind; they are  *)
(* also their own keys.  A plugin's data is named by its entry in Catalog, *)
(* and a config item's type stands for its value type and its description. *)
(***************************************************************************)
EXTENDS CoreModel

CONSTANTS
  Seeds,          \* the projects that can be open
  Sources,        \* the projects that can be imported from
  Onlines,        \* what can be online: plugins and components, as import data
  NewIds,         \* identifiers users give to components between prepare and apply
  MaxCalls        \* bound: plans prepared and edits made meanwhile

VARIABLES
  proj,           \* the server's model
  saved,          \* the file
  tab,            \* the tables of a browser that has the project open
  plan,           \* the plan the browser holds: a set of at most one
  last,           \* the last plan applied and its result: a set of at most one
  calls,
  quirks          \* what happened that the code does not cope with

vars == <<proj, saved, tab, plan, last, calls, quirks>>

NoImport == [plugins |-> <<>>, comps |-> <<>>]
Shown(p) == UpdateProject(NewTab, EmitAllState(p))

Init ==
  /\ proj \in Seeds
  /\ saved = proj /\ tab = Shown(proj)
  /\ plan = {} /\ last = {} /\ calls = 0 /\ quirks = {}

(***************************************************************************)
(* Loading what is imported.  An external component has no config.         *)
(***************************************************************************)
LoadProjectData(q, withPlugins, mode) ==
  LET owned == {i \in Instances(q) : ~i.ext /\ mode # "none"}
      found(id) == CHOOSE i \in owned : i.name = id
      used == {i.plugin : i \in owned}
  IN  [plugins |-> [g \in (IF withPlugins THEN DOMAIN q.plugins ELSE used) |-> q.plugins[g].data],
       comps |-> [id \in {i.name : i \in owned} |->
                    [plugin |-> found(id).plugin, ext |-> mode = "external",
                     cfg |-> IF mode = "external" THEN <<>> ELSE found(id).cfg]]]

LoadOnlineData(o, withPlugins, withComponents) ==
  LET comps == IF withComponents THEN o.comps ELSE <<>>
      used == {comps[id] : id \in DOMAIN comps}
  IN  [plugins |-> [g \in (IF withPlugins THEN DOMAIN o.plugins ELSE used) |-> o.plugins[g]],
       comps |-> [id \in DOMAIN comps |-> [plugin |-> comps[id], ext |-> TRUE, cfg |-> <<>>]]]

(***************************************************************************)
(* The changes an import makes.                                            *)
(***************************************************************************)
ArePluginsEqual(p, g, data) == PluginData(p, g).version = Catalog[data].version

PreparePluginUpdates(p, imp) ==
  {<<"plugin-set", g>> : g \in {g \in DOMAIN imp.plugins :
      g \notin DOMAIN p.plugins \/ ~ArePluginsEqual(p, g, imp.plugins[g])}}
    \cup {<<"plugin-clear", g>> : g \in DOMAIN p.plugins \ DOMAIN imp.plugins}

AreComponentsEqual(c, item) == c.def = item.plugin /\ c.ext = item.ext /\ c.cfg = item.cfg

\* The instances the import has components of are taken to be imported whole:
\* their other components, those of templates excepted, are removed.
PrepareComponentUpdates(p, imp) ==
  LET ids(i) == {id \in DOMAIN imp.comps : InstanceOf[imp.comps[id].plugin] = i}
      whole == {InstanceOf[imp.comps[id].plugin] : id \in DOMAIN imp.comps}
      root == Comps(p, Root)
      at(id) == IF root[id].def \in DOMAIN p.plugins THEN {InstanceOf[root[id].def]} ELSE {}
  IN  {<<"component-set", id>> : id \in {id \in DOMAIN imp.comps :
          id \notin DOMAIN root \/ ~AreComponentsEqual(root[id], imp.comps[id])}}
        \cup {<<"component-clear", id>> : id \in {id \in DOMAIN root :
                \E i \in at(id) \cap whole : id \notin ids(i)}}

PrepareChanges(p, imp) == PreparePluginUpdates(p, imp) \cup PrepareComponentUpdates(p, imp)

\* A component that is set depends on the change of its plugin.
LookupDependencies(changes, imp, c) ==
  IF c[1] # "component-set" THEN {}
  ELSE {d \in changes : d[1] \in {"plugin-set", "plugin-clear"} /\ d[2] = imp.comps[c[2]].plugin}

(***************************************************************************)
(* The updates a change takes, and what each of them depends on.           *)
(***************************************************************************)
Users(p, def) == {<<p.usage[def][id], id>> : id \in DOMAIN p.usage[def]}
ExportsOf(f, id, x) == {e \in DOMAIN f : f[e] = <<id, x>>}
Under(S, id) == {b \in S : id \in Ends(b)}
BindingsWithMember(p, k, m) ==
  {b \in p.views[k[1]].binds : (b.src = k[2] /\ b.st = m) \/ (b.dst = k[2] /\ b.ac = m)}
ClearExports(v, type, X) == {<<"template-clear-export", v, type, x>> : x \in X}

\* An exported config item is reset at the users of the template instead.
RECURSIVE ComponentResetConfig(_, _, _)
ComponentResetConfig(p, k, c) ==
  LET X == ExportsOf(p.views[k[1]].xcfg, k[2], c)
  IN  IF X = {} THEN {<<"component-reset-config", k[1], k[2], c>>}
      ELSE UNION {ComponentResetConfig(p, u, x) : u \in Users(p, k[1]), x \in X}

RECURSIVE ComponentUpdateMember(_, _, _)
ComponentUpdateMember(p, k, m) ==
  {<<"binding-clear", k[1], b>> : b \in BindingsWithMember(p, k, m)}
    \cup UNION {UNION {ComponentUpdateMember(p, u, x) : u \in Users(p, k[1])} :
                x \in ExportsOf(p.views[k[1]].xmem, k[2], m)}

ComponentClearMemberBindings(p, k, m) ==     \* mutant
  {<<"binding-clear", k[1], b>> : b \in BindingsWithMember(p, k, m)}

ComponentClearMember(p, k, m) ==
  {<<"binding-clear", k[1], b>> : b \in BindingsWithMember(p, k, m)}
    \cup ClearExports(k[1], "member", ExportsOf(p.views[k[1]].xmem, k[2], m))

ComponentClearConfig(k, c) == <<"component-clear-config", k[1], k[2], c>>

PluginSetDependencies(p, g, data) ==
  LET old == PluginData(p, g)
      new == Catalog[data]
      added == {c \in DOMAIN new.config : c \notin DOMAIN old.config \/ old.config[c] # new.config[c]}
      kept == (DOMAIN old.members) \cap DOMAIN new.members
  IN  UNION {UNION {ComponentResetConfig(p, k, c) : c \in added}
               \cup {ComponentClearConfig(k, c) : c \in DOMAIN old.config \ DOMAIN new.config}
               \cup UNION {ComponentUpdateMember(p, k, m) : m \in {m \in kept : old.members[m] # new.members[m]}}
               \cup UNION {ComponentClearMember(p, k, m) : m \in DOMAIN old.members \ DOMAIN new.members}
             : k \in Users(p, g)}

ComponentDeleteDependencies(p, v, id) ==
  LET view == p.views[v]
  IN  {<<"binding-clear", v, b>> : b \in Under(view.binds, id)}
        \cup ClearExports(v, "config", {x \in DOMAIN view.xcfg : view.xcfg[x][1] = id})
        \cup ClearExports(v, "member", {x \in DOMAIN view.xmem : view.xmem[x][1] = id})

TemplateExportDependencies(p, t, type, x) ==
  IF type = "config" THEN {ComponentClearConfig(k, x) : k \in Users(p, t)}
  ELSE UNION {ComponentClearMember(p, k, x) : k \in Users(p, t)}

Dependencies(p, imp, u) ==
  CASE u[1] = "plugin-set" ->
         IF u[2] \in DOMAIN p.plugins THEN PluginSetDependencies(p, u[2], imp.plugins[u[2]]) ELSE {}
    [] u[1] = "plugin-clear" -> {<<"component-clear", k[1], k[2]>> : k \in Users(p, u[2])}
    [] u[1] = "component-clear" -> ComponentDeleteDependencies(p, u[2], u[3])
    [] u[1] = "component-clear-config" ->
         ClearExports(u[2], "config", ExportsOf(p.views[u[2]].xcfg, u[3], u[4]))
    [] u[1] = "template-clear-export" -> TemplateExportDependencies(p, u[2], u[3], u[4])
    [] OTHER -> {}

RECURSIVE WithDependencies(_, _, _)
WithDependencies(p, imp, S) ==
  LET more == UNION {Dependencies(p, imp, u) : u \in S}
  IN  IF more \subseteq S THEN S ELSE WithDependencies(p, imp, S \cup more)

\* A new component whose name an instantiated template takes is left out.
Nameable(p, id) ==
  \/ id \in DOMAIN Comps(p, Root)
  \/ DryRun([p EXCEPT !.views[Root].comps =
               Put(@, id, [def |-> "", data |-> "", pos |-> 0, ext |-> FALSE, cfg |-> <<>>])])

Roots(p, c) ==
  CASE c[1] = "component-set" -> IF Nameable(p, c[2]) THEN {c} ELSE {}
    [] c[1] = "component-clear" -> {<<"component-clear", Root, c[2]>>}
    [] c[1] = "update-template" ->
         ClearExports(c[2], c[3], {c[4]})
           \cup (IF c[3] = "config"
                 THEN LET x == p.views[c[2]].xcfg[c[4]]
                      IN  {<<"component-reset-config", c[2], x[1], x[2]>>}
                 ELSE {})
    [] OTHER -> {c}

BuildUpdates(p, imp, changes) ==
  LET of == [c \in changes |-> WithDependencies(p, imp, Roots(p, c))]
      own(u) == {c \in changes : u \in of[c]}
      more(u) == {c \in changes : LookupDependencies(changes, imp, c) \cap own(u) # {}}
  IN  [u \in UNION Range(of) |-> own(u) \cup more(u)]

(***************************************************************************)
(* What an update does to the project.  Imported plugins are shown again;  *)
(* an imported component that exists keeps its position, and its           *)
(* definition object with the usage registered on it.                      *)
(***************************************************************************)
ImportPlugin(p, g, data) ==
  LET q == [p EXCEPT !.plugins = Put(@, g, [disp |-> "show", data |-> data]),
                     !.usage = Put(@, g, IF g \in DOMAIN @ THEN @[g] ELSE <<>>)]
  IN  Done(q, <<[op |-> "set-core-plugin", id |-> g, plugin |-> q.plugins[g]]>>)

ImportComponent(p, id, item) ==
  LET old == Comps(p, Root)[id]
      q == IF id \in DOMAIN Comps(p, Root)
           THEN [p EXCEPT !.views[Root].comps[id] =
                   [old EXCEPT !.data = item.plugin, !.ext = item.ext, !.cfg = item.cfg]]
           ELSE RegisterComponent(p, Root, id, [def |-> item.plugin, data |-> item.plugin, pos |-> 1,
                                                ext |-> item.ext, cfg |-> item.cfg])
  IN  IF item.plugin \notin DOMAIN p.plugins THEN Threw(p, <<>>)
      ELSE Done(q, <<NSetComponent(q, Root, id)>>)

\* An external component has no config to write to.
Configurable(p, v, id) ==
  /\ v \in DOMAIN p.views /\ id \in DOMAIN Comps(p, v)
  /\ ~Comps(p, v)[id].ext

ImportClearConfig(p, v, id, c) ==
  LET q == [p EXCEPT !.views[v].comps[id].cfg = Drop(@, {c})]
  IN  IF ~Configurable(p, v, id) THEN Threw(p, <<>>)
      ELSE Done(q, <<NSetComponent(q, v, id)>>)

ImportResetConfig(p, v, id, c) ==
  LET def == Comps(p, v)[id].def
      q == [p EXCEPT !.views[v].comps[id].cfg = Put(@, c, CreateConfigTemplateValue(p, def, c))]
  IN  IF ~Configurable(p, v, id) \/ c \notin ConfigOf(p, def) THEN Threw(p, <<>>)
      ELSE Done(q, <<NSetComponent(q, v, id)>>)

ImportClearExport(p, t, type, x) ==
  LET q == IF type = "config" THEN [p EXCEPT !.views[t].xcfg = Drop(@, {x})]
           ELSE [p EXCEPT !.views[t].xmem = Drop(@, {x})]
  IN  IF t \notin Templates(p) THEN Threw(p, <<>>) ELSE Done(q, <<NSetTemplate(q, t)>>)

\* Deleting a component leaves its bindings to the updates of their own.
ImportClearComponent(p, v, id) ==
  IF v \notin DOMAIN p.views \/ id \notin DOMAIN Comps(p, v) \/ Exported(p, v, id) THEN Threw(p, <<>>)
  ELSE Done([UnregisterUsage(p, Comps(p, v)[id].def, id) EXCEPT !.views[v].comps = Drop(@, {id})],
            <<NClearComponent(v, id)>>)

\* Deleting a plugin does not look whether it is used; its components keep the
\* object they were made with.
ImportClearPlugin(p, g) ==
  IF g \notin DOMAIN p.plugins THEN Threw(p, <<>>)
  ELSE Done(DeletePlugin(p, g), <<NClearPlugin(g)>>)

\* The config of a component of the project that was just set is left alone.
IsComponentUpdated(set, u) == u[2] = Root /\ u[3] \in set

ApplyUpdate(p, imp, set, u) ==
  CASE u[1] = "binding-clear" -> ClearBinding(p, u[2], u[3])
    [] u[1] = "plugin-set" -> ImportPlugin(p, u[2], imp.plugins[u[2]])
    [] u[1] = "component-set" -> ImportComponent(p, u[2], imp.comps[u[2]])
    [] u[1] = "template-clear-export" -> ImportClearExport(p, u[2], u[3], u[4])
    [] u[1] = "component-clear-config" ->
         IF IsComponentUpdated(set, u) THEN Done(p, <<>>) ELSE ImportClearConfig(p, u[2], u[3], u[4])
    [] u[1] = "component-reset-config" ->
         IF IsComponentUpdated(set, u) THEN Done(p, <<>>) ELSE ImportResetConfig(p, u[2], u[3], u[4])
    [] u[1] = "component-clear" -> ImportClearComponent(p, u[2], u[3])
    [] u[1] = "plugin-clear" -> ImportClearPlugin(p, u[2])

Order ==
  <<"binding-clear", "plugin-set", "component-set", "template-clear-export",
    "component-clear-config", "component-reset-config", "component-clear", "plugin-clear">>

ApplyUpdates(p, imp, selected) ==
  LET typed(i) == Listed({u \in selected : u[1] = Order[i]})
      all == FlattenSeq([i \in DOMAIN Order |-> typed(i)])
      set == {u[2] : u \in {u \in selected : u[1] = "component-set"}}
      step(r, u) == IF r.threw THEN r
                    ELSE LET s == ApplyUpdate(r.p, imp, set, u)
                         IN  [s EXCEPT !.out = r.out \o @]
  IN  FoldLeft(step, Done(p, <<>>), all)

(***************************************************************************)
(* The situations the properties except.  A plan is stale when the project *)
(* was edited so that the plan prepared now would be another one.          *)
(***************************************************************************)
Stale(pl) ==
  \/ pl.keys # BuildUpdates(proj, pl.imp, pl.changes)
  \/ pl.imp # NoImport /\ pl.changes # PrepareChanges(proj, pl.imp)

Situations(pl, selected) ==
  LET redefined == \E u \in selected : /\ u[1] = "component-set" /\ u[2] \in DOMAIN Comps(proj, Root)
                                       /\ Comps(proj, Root)[u[2]].def # pl.imp.comps[u[2]].plugin
      both == \E u \in selected : u[1] = "component-set" /\ <<"component-clear", Root, u[2]>> \in selected
      null == \E u \in selected : /\ u[1] \in {"component-clear-config", "component-reset-config"}
                                  /\ u[2] \in DOMAIN proj.views /\ u[3] \in DOMAIN Comps(proj, u[2])
                                  /\ Comps(proj, u[2])[u[3]].ext
      unnamed == \E c \in pl.changes : c[1] = "component-set" /\ ~Nameable(pl.base, c[2])
  IN  (IF Stale(pl) THEN {"stale"} ELSE {}) \cup (IF redefined THEN {"redefined"} ELSE {})
        \cup (IF both THEN {"setAndCleared"} ELSE {}) \cup (IF null THEN {"nullConfig"} ELSE {})
        \cup (IF unnamed THEN {"unnamed"} ELSE {})

(***************************************************************************)
(* The calls.                                                              *)
(***************************************************************************)
Prepared(imp, changes) ==
  [imp |-> imp, changes |-> changes, keys |-> BuildUpdates(proj, imp, changes), base |-> proj]

\* A component holds a plugin that a plan removed under it: the model follows
\* the project until then, and again once it is reopened (a bound).
Orphaned == \E k \in Places(proj) : CompAt(proj, k).def \notin Definitions(proj)

Prepare(imp, changes) ==
  /\ plan = {} /\ calls < MaxCalls /\ changes # {} /\ ~Orphaned
  /\ plan' = {Prepared(imp, changes)} /\ calls' = calls + 1
  /\ UNCHANGED <<proj, saved, tab, last, quirks>>

PrepareImportFromProject ==
  \E q \in Sources, w \in BOOLEAN, m \in {"none", "standard", "external"} :
    LET imp == LoadProjectData(q, w, m)
    IN  imp # NoImport /\ Prepare(imp, PrepareChanges(proj, imp))

PrepareImportFromOnline ==
  \E o \in Onlines, w \in BOOLEAN, c \in BOOLEAN :
    LET imp == LoadOnlineData(o, w, c)
    IN  imp # NoImport /\ Prepare(imp, PrepareChanges(proj, imp))

ClearTemplateExport ==
  \E t \in Templates(proj) :
    \/ \E x \in DOMAIN proj.views[t].xcfg : Prepare(NoImport, {<<"update-template", t, "config", x>>})
    \/ \E x \in DOMAIN proj.views[t].xmem : Prepare(NoImport, {<<"update-template", t, "member", x>>})

\* The dialog unselects a component whose plugin's change is not selected.
Selections(pl) ==
  {S \in SUBSET pl.changes : \A c \in S : LookupDependencies(pl.changes, pl.imp, c) \subseteq S}

ApplyBulkUpdates ==
  \E pl \in plan : \E S \in Selections(pl) :
    LET selected == {u \in DOMAIN pl.keys : pl.keys[u] \cap S # {}}
        r == ApplyUpdates(proj, pl.imp, selected)
    IN  /\ S # {}
        /\ proj' = r.p
        /\ saved' = IF r.threw THEN saved ELSE r.p
        /\ tab' = UpdateProject(tab, r.out)
        /\ last' = {[threw |-> r.threw, all |-> S = pl.changes, imp |-> pl.imp, before |-> proj,
                     selected |-> selected]}
        /\ plan' = {}
        /\ quirks' = quirks \cup Situations(pl, selected)
        /\ UNCHANGED calls

Cancel ==
  /\ plan # {} /\ plan' = {}
  /\ UNCHANGED <<proj, saved, tab, last, calls, quirks>>

\* While the browser holds the plan, the project is edited.
Edit(r) ==
  /\ plan # {} /\ calls < MaxCalls /\ ~r.threw
  /\ proj' = r.p /\ saved' = r.p /\ tab' = UpdateProject(tab, r.out)
  /\ calls' = calls + 1 /\ last' = {}
  /\ UNCHANGED <<plan, quirks>>

MemberNames == UNION {DOMAIN Catalog[d].members : d \in DOMAIN Catalog}

EditProject ==
  \E v \in DOMAIN proj.views :
    \/ \E b \in proj.views[v].binds : Edit(ClearBinding(proj, v, b))
    \/ \E src, dst \in DOMAIN Comps(proj, v), st, ac \in MemberNames :
         Edit(SetBinding(proj, v, [src |-> src, st |-> st, dst |-> dst, ac |-> ac]))
    \/ \E id \in DOMAIN Comps(proj, v) : Edit(ClearComponents(proj, v, <<id>>))
    \/ \E id \in DOMAIN Comps(proj, v), new \in NewIds : Edit(RenameComponent(proj, v, id, new))
    \/ \E new \in NewIds, g \in DOMAIN proj.plugins : Edit(SetComponent(proj, v, new, g))

\* The project is closed by everyone and opened again.
Reopen ==
  /\ plan = {} /\ last # {} /\ Loadable(saved)
  /\ proj' = Load(saved) /\ tab' = Shown(proj') /\ last' = {}
  /\ UNCHANGED <<saved, plan, calls, quirks>>

Next ==
  \/ PrepareImportFromProject \/ PrepareImportFromOnline \/ ClearTemplateExport
  \/ ApplyBulkUpdates \/ Cancel \/ EditProject \/ Reopen

Spec == Init /\ [][Next]_vars

-----------------------------------------------------------------------------
TypeOK ==
  /\ Cardinality(plan) <= 1 /\ Cardinality(last) <= 1
  /\ calls \in 0 .. MaxCalls
  /\ DOMAIN proj.usage = Definitions(proj)
  /\ \A pl \in plan : UNION Range(pl.keys) \subseteq pl.changes

\* Whatever the user selects of a plan that would be prepared the same way now,
\* applying it does not fail halfway: what an update depends on is selected with
\* it and comes before it.  Excepted is an external component, which has no
\* config, of a plugin whose config changes.
ImportCompletes ==
  \A l \in last : quirks \cap {"stale", "nullConfig"} = {} => ~l.threw

\* Nothing is left of what an import removes: the ends of every binding exist
\* and have members of one type, every export names a member or a config item of
\* a component of its template, and every component has a well-typed value for
\* exactly the config items that are not exported.
Sound(p) ==
  \A v \in DOMAIN p.views :
    LET view == p.views[v]
        def(id) == view.comps[id].def
        given(id) == {view.xcfg[x][2] : x \in {x \in DOMAIN view.xcfg : view.xcfg[x][1] = id}}
    IN  /\ \A b \in view.binds :
             /\ Ends(b) \subseteq DOMAIN view.comps
             /\ LET from == MemberOf(p, def(b.src), b.st)
                    to == MemberOf(p, def(b.dst), b.ac)
                IN  from.kind = "state" /\ to.kind = "action" /\ from.type = to.type
        /\ \A x \in DOMAIN view.xmem :
             /\ view.xmem[x][1] \in DOMAIN view.comps
             /\ MemberOf(p, def(view.xmem[x][1]), view.xmem[x][2]) # NoMember
        /\ \A x \in DOMAIN view.xcfg :
             /\ view.xcfg[x][1] \in DOMAIN view.comps
             /\ view.xcfg[x][2] \in ConfigOf(p, def(view.xcfg[x][1]))
        /\ \A id \in DOMAIN view.comps :
             LET c == view.comps[id]
             IN  c.ext \/ (/\ DOMAIN c.cfg = ConfigOf(p, c.def) \ given(id)
                           /\ \A k \in DOMAIN c.cfg : c.cfg[k] \in ConfigValues[ConfigTypeOf(p, c.def, k)])

\* Excepted are what a stale plan leaves (it does not name what was added since
\* it was prepared), the external component above, and a component imported with
\* another plugin, which keeps its former definition until the project is opened
\* again.
ImportSound ==
  quirks \cap {"stale", "nullConfig", "redefined"} = {} => Sound(proj) /\ Loadable(saved)

\* An import applied whole leaves nothing to import: prepared again it has no
\* change, when none of the situations above came up.
ImportConverges ==
  \A l \in last :
    (l.all /\ l.imp # NoImport /\ quirks = {}) => PrepareChanges(proj, l.imp) = {}

\* What applying a plan changed was announced as a change or as one of its
\* impacts: no component, binding or export goes, and no config value changes,
\* that no selected update names.
OnlyAnnounced ==
  \A l \in last : \A v \in DOMAIN l.before.views :
    LET was == l.before.views[v]
        is == proj.views[v]
        named(kind, id) == \E u \in l.selected : u[1] = kind /\ u[2] = v /\ u[3] = id
        set(id) == v = Root /\ <<"component-set", id>> \in l.selected
    IN  /\ \A id \in DOMAIN was.comps \ DOMAIN is.comps : named("component-clear", id)
        /\ \A b \in was.binds \ is.binds : <<"binding-clear", v, b>> \in l.selected
        /\ \A x \in DOMAIN was.xcfg \ DOMAIN is.xcfg : <<"template-clear-export", v, "config", x>> \in l.selected
        /\ \A x \in DOMAIN was.xmem \ DOMAIN is.xmem : <<"template-clear-export", v, "member", x>> \in l.selected
        /\ \A id \in DOMAIN was.comps \cap DOMAIN is.comps :
             \A k \in {k \in DOMAIN was.comps[id].cfg : ~set(id)} :
               \/ k \in DOMAIN is.comps[id].cfg /\ was.comps[id].cfg[k] = is.comps[id].cfg[k]
               \/ \E kind \in {"component-clear-config", "component-reset-config"} :
                    <<kind, v, id, k>> \in l.selected

\* The browser shows the project after every bulk update, stale or not, also
\* after one that failed halfway.  Excepted are a component imported with another
\* plugin, and one whose plugin a stale plan removed under it.
ImportMirrored ==
  ("redefined" \notin quirks /\ ~Orphaned) => tab.alive /\ Mirrors(tab, proj)

=============================================================================
