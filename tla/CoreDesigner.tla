---------------------------- MODULE CoreDesigner ----------------------------
(***************************************************************************)
(* A core project edited from browsers: the project the studio server has  *)
(* open (CoreModel), its stored file, the notifications on their way to    *)
(* one browser and that browser's tables.  The edits of the other browsers *)
(* reach the server directly; this browser also applies two of its own     *)
(* edits before the server has heard of them: moving components and        *)
(* configuring a component, the latter sent seconds later.                 *)
(***************************************************************************)
EXTENDS CoreModel

CONSTANTS
  Seeds,          \* the projects that can be in the file
  TemplateIds,    \* identifiers users give to templates
  NewIds,         \* identifiers users give to components
  ExportIds,      \* identifiers users give to exports
  MaxEdits,       \* bound: edits the server carries out
  MaxLocal,       \* bound: what the browser does by itself (select, view, optimistic edits)
  MaxOpens        \* bound: times the browser opens the project

VARIABLES
  proj,           \* the server's model
  saved,          \* the file
  link,           \* the browser: "closed", "opening" (initial state still to be sent), "open"
  wire,           \* notifications on their way to the browser
  tab,            \* the browser's tables
  call,           \* the browser's optimistic edit the server has not seen: a set of at most one
  edits, locals, opens,
  quirks          \* what happened that the code does not cope with

vars == <<proj, saved, link, wire, tab, call, edits, locals, opens, quirks>>

Init ==
  /\ proj \in Seeds
  /\ saved = proj
  /\ link = "closed" /\ wire = <<>> /\ tab = NewTab /\ call = {}
  /\ edits = 0 /\ locals = 0 /\ opens = 0
  /\ quirks = {}

(***************************************************************************)
(* What the properties except: the situations in which the code is known   *)
(* to lose one of its guarantees.                                          *)
(***************************************************************************)
Collided(p) == \E j, k \in Places(p) : j # k /\ j[2] = k[2] /\ CompAt(p, j).def = CompAt(p, k).def
SelfNested(p) == \E t \in Templates(p) : <<t, t>> \in NestingEdges(p)
Incomplete(p) ==
  \E k \in Places(p) :
    LET view == p.views[k[1]]
        given == {view.xcfg[x][2] : x \in {x \in DOMAIN view.xcfg : view.xcfg[x][1] = k[2]}}
    IN  ConfigOf(p, CompAt(p, k).def) # DOMAIN CompAt(p, k).cfg \cup given

Quirks(p) ==
  (IF Collided(p) THEN {"collided"} ELSE {}) \cup (IF SelfNested(p) THEN {"selfNested"} ELSE {})

\* An edit's result: the server's model changes, and is saved unless the edit
\* threw; what was notified before is on its way either way.
Carry(r, more) ==
  /\ proj' = r.p
  /\ saved' = IF r.threw THEN saved ELSE r.p
  /\ wire' = IF link = "closed" THEN <<>> ELSE wire \o r.out
  /\ quirks' = quirks \cup more \cup Quirks(r.p)
                 \cup (IF link = "opening" /\ r.out # <<>> THEN {"early"} ELSE {})
  /\ edits' = edits + 1

Update(r, more) ==
  /\ edits < MaxEdits
  /\ Carry(r, more)
  /\ r # Threw(proj, <<>>)
  /\ UNCHANGED <<link, tab, call, locals, opens>>

(***************************************************************************)
(* The edits.                                                              *)
(***************************************************************************)
Views == DOMAIN proj.views
Ids(v) == DOMAIN Comps(proj, v)
MemberNames == UNION {DOMAIN Catalog[d].members : d \in DOMAIN Catalog}

EditToolbox ==
  \/ \E i \in {InstanceOf[g] : g \in Plugins}, action \in {"show", "hide", "delete"} :
       Update(UpdateToolboxInstance(proj, i, action), {})
  \/ \E g \in Plugins, action \in {"show", "hide", "delete"} :
       Update(UpdateToolboxPlugin(proj, g, action), {})

EditTemplate ==
  \/ \E t \in TemplateIds : Update(SetTemplate(proj, t), {})
  \/ \E t \in TemplateIds : Update(ClearTemplate(proj, t), {})

EditRenameTemplate ==
  \E t \in Templates(proj), u \in TemplateIds :
    Update(RenameTemplate(proj, t, u),
           (IF Used(proj, t) THEN {"renamedUsed"} ELSE {})
           \cup (IF Ids(t) # {} THEN {"renamedOwning"} ELSE {})
           \cup (IF proj.views[t].xcfg # <<>> \/ proj.views[t].xmem # <<>> THEN {"renamedExporting"} ELSE {})
           \cup (IF Greater(u, t) /\ (Cardinality(Ids(t)) > 1 \/ Cardinality(proj.views[t].binds) > 1)
                 THEN {"skipped"} ELSE {}))

EditExport ==
  \E t \in Templates(proj), x \in ExportIds : \E id \in Ids(t) :
    \/ \E k \in ConfigOf(proj, Comps(proj, t)[id].def) : Update(SetConfigExport(proj, t, x, id, k), {})
    \/ \E m \in MemberNames : Update(SetMemberExport(proj, t, x, id, m), {})

EditSetComponent ==
  \E v \in Views, id \in NewIds, def \in Definitions(proj) : Update(SetComponent(proj, v, id, def), {})

EditMoveComponents ==
  \E v \in Views : \E id \in Ids(v), other \in Ids(v) \cup NewIds :
    /\ other # id
    /\ Update(MoveComponents(proj, v, <<id, other>>, 1), {})

EditConfigure ==
  \E k \in Places(proj) : \E c \in DOMAIN CompAt(proj, k).cfg, val \in UNION Range(ConfigValues) :
    Update(ConfigureComponent(proj, k[1], k[2], c, val), {})

EditRenameComponent ==
  \E k \in Places(proj), new \in NewIds : Update(RenameComponent(proj, k[1], k[2], new), {})

EditClearComponents ==
  \E v \in Views : \E id, other \in Ids(v) :
    Update(ClearComponents(proj, v, IF id = other THEN <<id>> ELSE <<id, other>>), {})

EditCopy ==
  \E v \in Views, w \in Templates(proj) : \E S \in (SUBSET Ids(v)) \ {{}} :
    LET r == CopyComponentsToTemplate(proj, v, S, w)
    IN  Update(r, IF Incomplete(r.p) THEN {"copiedExported"} ELSE {})

EditBinding ==
  \E v \in Views :
    \/ \E src, dst \in Ids(v), st, ac \in MemberNames :
         Update(SetBinding(proj, v, [src |-> src, st |-> st, dst |-> dst, ac |-> ac]), {})
    \/ \E b \in proj.views[v].binds : Update(ClearBinding(proj, v, b), {})

\* The file is replaced from outside: the model is loaded again, and the browser
\* is sent a reset and the whole state.
ExternalUpdate ==
  \E p \in Seeds :
    /\ p # saved
    /\ edits < MaxEdits
    /\ proj' = Load(p) /\ saved' = p
    /\ wire' = IF link = "closed" THEN <<>> ELSE wire \o <<[op |-> "reset"]>> \o EmitAllState(p)
    /\ edits' = edits + 1
    /\ quirks' = quirks \cup Quirks(p)
                  \cup (IF link = "opening" THEN {"early"} ELSE {})
    /\ UNCHANGED <<link, tab, call, locals, opens>>

(***************************************************************************)
(* The browser.                                                            *)
(***************************************************************************)
\* The project is opened: the browser has its notifier, the state follows in a
\* setImmediate.  Nobody else has it open when the first browser opens it, so
\* the model is then the file.
Open ==
  /\ link = "closed" /\ opens < MaxOpens /\ Loadable(saved)
  /\ link' = "opening" /\ opens' = opens + 1
  /\ \/ UNCHANGED proj
     \/ proj' = Load(saved)
  /\ UNCHANGED <<saved, wire, tab, call, edits, locals, quirks>>

EmitInitial ==
  /\ link = "opening"
  /\ link' = "open"
  /\ wire' = wire \o EmitAllState(proj)
  /\ UNCHANGED <<proj, saved, tab, call, edits, locals, opens, quirks>>

Deliver ==
  /\ wire # <<>>
  /\ tab' = UpdateProject(tab, wire)
  /\ wire' = <<>>
  /\ UNCHANGED <<proj, saved, link, call, edits, locals, opens, quirks>>

\* The socket is lost: the tables are cleared, what was in flight with it.
Offline ==
  /\ link # "closed" /\ tab.alive
  /\ link' = "closed" /\ wire' = <<>> /\ tab' = NewTab /\ call' = {}
  /\ UNCHANGED <<proj, saved, edits, locals, opens, quirks>>

ActivateView ==
  \E v \in DOMAIN tab.views :
    /\ tab.alive /\ v # tab.active /\ locals < MaxLocal
    /\ tab' = [tab EXCEPT !.active = v, !.sel = NoSelection]
    /\ UNCHANGED <<proj, saved, link, wire, call, edits, locals, opens, quirks>>

Select ==
  /\ tab.alive
  /\ \/ \E k \in tab.views[tab.active].comps :
          tab' = [tab EXCEPT !.sel = IF @.type = "components" THEN [@ EXCEPT !.ids = @ \cup {k}]
                                     ELSE [type |-> "components", ids |-> {k}]]
     \/ \E x \in tab.views[tab.active].binds :
          tab' = [tab EXCEPT !.sel = [type |-> "binding", ids |-> {x}]]
  /\ tab' # tab /\ locals < MaxLocal
  /\ locals' = locals + 1
  /\ UNCHANGED <<proj, saved, link, wire, call, edits, opens, quirks>>

LocalConfigure ==
  \E k \in DOMAIN tab.comps : \E c \in DOMAIN tab.comps[k].cfg, val \in UNION Range(ConfigValues) :
    /\ link = "open" /\ tab.alive /\ call = {} /\ locals < MaxLocal
    /\ k \in tab.views[tab.active].comps
    /\ tab' = [tab EXCEPT !.comps[k].cfg[c] = val]
    /\ call' = {[op |-> "configure", at |-> k, key |-> c, val |-> val]}
    /\ locals' = locals + 1
    /\ UNCHANGED <<proj, saved, link, wire, edits, opens, quirks>>

LocalMove ==
  \E k \in DOMAIN tab.comps :
    /\ link = "open" /\ tab.alive /\ call = {} /\ locals < MaxLocal
    /\ k \in tab.views[tab.active].comps
    /\ tab' = [tab EXCEPT !.comps[k].pos = @ + 1]
    /\ call' = {[op |-> "move", at |-> k, key |-> "", val |-> 1]}
    /\ locals' = locals + 1
    /\ UNCHANGED <<proj, saved, link, wire, edits, opens, quirks>>

\* The browser's own edit reaches the server.
ServeCall ==
  \E c \in call :
    LET v == c.at[1]
        id == c.at[2]
        r == IF c.op = "move" THEN MoveComponents(proj, v, <<id>>, c.val)
             ELSE ConfigureComponent(proj, v, id, c.key, c.val)
    IN  /\ proj' = r.p
        /\ saved' = IF r.threw THEN saved ELSE r.p
        /\ wire' = wire \o r.out
        /\ call' = {}
        /\ quirks' = quirks \cup (IF r.threw THEN {"lostCall"} ELSE {})
        /\ UNCHANGED <<link, tab, edits, locals, opens>>

Next ==
  \/ EditToolbox \/ EditTemplate \/ EditRenameTemplate \/ EditExport \/ EditSetComponent
  \/ EditMoveComponents \/ EditConfigure \/ EditRenameComponent \/ EditClearComponents
  \/ EditCopy \/ EditBinding \/ ExternalUpdate
  \/ Open \/ EmitInitial \/ Deliver \/ Offline \/ ActivateView \/ Select
  \/ LocalConfigure \/ LocalMove \/ ServeCall

Spec == Init /\ [][Next]_vars

-----------------------------------------------------------------------------
TypeOK ==
  /\ link \in {"closed", "opening", "open"}
  /\ edits \in 0 .. MaxEdits /\ locals \in 0 .. MaxLocal /\ opens \in 0 .. MaxOpens
  /\ Cardinality(call) <= 1
  /\ DOMAIN proj.usage = Definitions(proj)
  /\ quirks \subseteq {"collided", "selfNested", "renamedUsed", "renamedOwning", "renamedExporting",
                       "skipped", "copiedExported", "early", "lostCall"}

\* No definition that a component uses is ever deleted: the model can always be
\* written to the file and loaded from it again (deletePlugin and clearTemplate
\* refuse a used definition).  Excepted are the usage maps' collisions of one
\* identifier in two views, and renaming a used template, whose users keep the
\* old name in the file.
StoredLoadable == quirks \cap {"collided", "renamedUsed"} = {} => Loadable(proj) /\ Loadable(saved)

\* The circularity check of TemplateModel.setComponent, which does not look at
\* the template itself, keeps two templates from containing each other, directly
\* or through others.
NestingWellFounded ==
  "collided" \notin quirks =>
    \A t, u \in Templates(proj) : t # u =>
      ~(u \in Beyond(NestingEdges(proj), t) /\ t \in Beyond(NestingEdges(proj), u))

\* The circularity check and the dry run together: no template that the project
\* contains, directly or not, contains itself, so that resolving the project
\* ends; it gives every component a name of its own, and every config key of its
\* plugin exactly one value.
Resolvable ==
  "collided" \notin quirks =>
    /\ \A t \in Beyond(NestingEdges(proj), Root) : ~Circular(proj, t)
    /\ \A i \in Instances(proj) :
         /\ \A j \in Instances(proj) : i.name = j.name => i = j
         /\ "copiedExported" \notin quirks =>
              DOMAIN i.cfg = ConfigOf(proj, i.plugin) /\ Undefined \notin Range(i.cfg)

\* Once everything sent has been applied and nothing is pending, the browser
\* shows the server's project, reverse indexes included.
BrowserMirrors ==
  (quirks \subseteq {"renamedOwning"} /\ link = "open" /\ wire = <<>> /\ call = {}) => Mirrors(tab, proj)

\* The template a component names in the browser is the one that lists it, until
\* a template with components is renamed: rename-core-template renames the
\* component's identifier and leaves its templateId.
OwnersShown == quirks \cap {"renamedOwning", "skipped"} = {} => Owned(tab)

\* No notification makes the reducer throw.
BrowserAlive ==
  quirks \cap {"renamedUsed", "skipped", "collided", "early"} = {} => tab.alive

\* What is selected exists in the active view.
SelectionExists ==
  (tab.alive /\ "skipped" \notin quirks) =>
    /\ tab.active \in DOMAIN tab.views
    /\ tab.sel.type = "components" => tab.sel.ids \subseteq tab.views[tab.active].comps
    /\ tab.sel.type = "binding" => tab.sel.ids \subseteq tab.views[tab.active].binds
    /\ (tab.sel.type = "none") = (tab.sel.ids = {})

=============================================================================
