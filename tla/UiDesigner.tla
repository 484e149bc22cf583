----------------------------- MODULE UiDesigner -----------------------------
(***************************************************************************)
(* A user interface project edited from browsers: the project the studio   *)
(* server has open, its stored file, the notifications on their way to one *)
(* browser and that browser's tables.  The edits of the other browsers     *)
(* reach the server directly; this browser applies its own changes of      *)
(* properties and positions before the server has heard of them, and may   *)
(* have a refresh of the components prepared and not yet confirmed.        *)
(***************************************************************************)
EXTENDS Naturals, FiniteSets, Sequences, SequencesExt, Relation, TLC

CONSTANTS
  IdOrder,        \* the identifiers, in string order
  Seeds,          \* the projects that can be in the file
  NewIds,         \* identifiers users give to new and renamed elements
  Items,          \* entries of a display's map
  Exports,        \* definitions of template exports
  OnlineData,     \* the sets of components a refresh can bring
  MaxEdits,       \* bound: edits the server carries out
  MaxLocal,       \* bound: what the browser does by itself
  MaxOpens,       \* bound: times the browser opens the project
  EditedLinks     \* bound: the states of the browser's link in which edits are explored

-----------------------------------------------------------------------------
(***************************************************************************)
(* The server's model: windows, templates and their controls and template  *)
(* instances, resources, styles, and the components the controls show and  *)
(* act on.  Every edit of UiOpenedProject is an operator that returns the  *)
(* project after the call, the notifications it sent and whether it threw. *)
(*                                                                         *)
(* Windows and templates are views, keyed <<"window", id>> and             *)
(* <<"template", id>>.  A control's one state reference stands for its     *)
(* display or, when text, for an item of its text context.  The primary    *)
(* action is the component action, the secondary one opens a window; each  *)
(* is a set of at most one.  Positions and sizes are one number.           *)
(***************************************************************************)

Null == "null"
NoRef == [comp |-> Null, member |-> Null]

Drop(f, S) == [x \in DOMAIN f \ S |-> f[x]]
Put(f, x, y) == (x :> y) @@ f
Sub(x, old, new) == IF x = old THEN new ELSE x
Moved(f, id, new) == Put(Drop(f, {id}), new, f[id])

Done(p, out) == [p |-> p, out |-> out, threw |-> FALSE]
Threw(p) == [p |-> p, out |-> <<>>, threw |-> TRUE]

EmptyView == [pos |-> 0, style |-> {}, bg |-> Null, exports |-> <<>>, controls |-> <<>>, instances |-> <<>>]
NewControlData(text) ==
  [pos |-> 0, style |-> {}, text |-> text, map |-> {}, state |-> NoRef, action |-> {}, window |-> {}]
NewProject ==
  [default |-> Null, views |-> <<>>, resources |-> <<>>, styles |-> <<>>, comps |-> <<>>, plugins |-> <<>>]

(***************************************************************************)
(* Notifications.  A view, a resource and a style are sent whole.          *)
(***************************************************************************)
NView(p, k) == [op |-> "set", tab |-> k[1], id |-> k[2], val |-> p.views[k]]
NItem(tab, id, val) == [op |-> "set", tab |-> tab, id |-> id, val |-> val]
NClear(tab, id) == [op |-> "clear", tab |-> tab, id |-> id]
NRename(tab, id, new) == [op |-> "rename", tab |-> tab, id |-> id, new |-> new]
NDefault(p) == [op |-> "default", val |-> p.default]
NComponents(p) == [op |-> "components", val |-> <<p.comps, p.plugins>>]

\* One notification per element, in any order.
Each(S, N(_)) == FoldSet(LAMBDA x, out : Append(out, N(x)), <<>>, S)
NViews(p, S) == Each(S, LAMBDA k : NView(p, k))

EmitAllState(p) ==
  <<NDefault(p), NComponents(p)>>
    \o Each(DOMAIN p.resources, LAMBDA id : NItem("resource", id, p.resources[id]))
    \o Each(DOMAIN p.styles, LAMBDA id : NItem("style", id, p.styles[id]))
    \o NViews(p, {k \in DOMAIN p.views : k[1] = "window"})
    \o NViews(p, {k \in DOMAIN p.views : k[1] = "template"})

(***************************************************************************)
(* What a removed or renamed element does to the views that refer to it.   *)
(***************************************************************************)
EachControl(v, F(_)) == [v EXCEPT !.controls = [c \in DOMAIN @ |-> F(@[c])]]
EachInstance(v, F(_)) == [v EXCEPT !.instances = [i \in DOMAIN @ |-> F(@[i])]]

RenameResourceOf(c, id, new) == [c EXCEPT !.map = {[x EXCEPT !.res = Sub(@, id, new)] : x \in @}]
RenameResourceControls(v, id, new) ==     \* mutant
  EachControl(v, LAMBDA c : RenameResourceOf(c, id, new))
RenameResourceIn(v, id, new) ==
  EachControl([v EXCEPT !.bg = Sub(@, id, new)], LAMBDA c : RenameResourceOf(c, id, new))

Restyled(style, id, new) == {Sub(x, id, new) : x \in style} \ {Null}
RenameStyleIn(v, id, new) ==
  EachControl([v EXCEPT !.style = Restyled(@, id, new)], LAMBDA c : [c EXCEPT !.style = Restyled(@, id, new)])

RenameWindowOf(c, id, new) == [c EXCEPT !.window = {Sub(w, id, new) : w \in @}]
RenameWindowIn(v, id, new) == EachControl(v, LAMBDA c : RenameWindowOf(c, id, new))

RenameTemplateOf(i, id, new) == [i EXCEPT !.template = Sub(@, id, new)]
RenameTemplateIn(v, id, new) == EachInstance(v, LAMBDA i : RenameTemplateOf(i, id, new))

InstancesOf(v, t) == {i \in DOMAIN v.instances : v.instances[i].template = t}
ClearTemplateIn(v, t) == [v EXCEPT !.instances = Drop(@, InstancesOf(v, t))]

SetExportIn(v, t, x) ==
  EachInstance(v, LAMBDA i : IF i.template = t THEN [i EXCEPT !.bindings = Put(@, x, NoRef)] ELSE i)
ClearExportIn(v, t, x) ==
  EachInstance(v, LAMBDA i : IF i.template = t THEN [i EXCEPT !.bindings = Drop(@, {x})] ELSE i)

ForgetMember(r, m) == IF r.comp = Null /\ r.member = m THEN NoRef ELSE r
ForgetExportIn(v, x) ==
  EachInstance(EachControl(v, LAMBDA c : [c EXCEPT !.state = ForgetMember(@, x), !.action = {ForgetMember(r, x) : r \in @}]),
               LAMBDA i : [i EXCEPT !.bindings = [b \in DOMAIN @ |-> ForgetMember(@[b], x)]])

\* The views become these, and the changed ones are notified after "before".
Impact(p, before, views) ==
  LET q == [p EXCEPT !.views = views]
  IN  Done(q, before \o NViews(q, {k \in DOMAIN p.views : q.views[k] # p.views[k]}))

(***************************************************************************)
(* Resources and styles.  Clearing or renaming what does not exist is      *)
(* carried out and notified all the same; only a new identifier that is    *)
(* taken is refused.  Styles are looked up in windows only.                *)
(***************************************************************************)
SetDefaultWindow(p, w) == LET q == [p EXCEPT !.default = w] IN Done(q, <<NDefault(q)>>)

SetResource(p, id, val) == Done([p EXCEPT !.resources = Put(@, id, val)], <<NItem("resource", id, val)>>)
SetStyle(p, id, val) == Done([p EXCEPT !.styles = Put(@, id, val)], <<NItem("style", id, val)>>)

ClearResource(p, id) ==
  Impact([p EXCEPT !.resources = Drop(@, {id})], <<NClear("resource", id)>>,
         [k \in DOMAIN p.views |-> RenameResourceIn(p.views[k], id, Null)])

RenameEntry(f, id, new) == IF id \in DOMAIN f THEN Moved(f, id, new) ELSE f

RenameResource(p, id, new) ==
  IF new \in DOMAIN p.resources THEN Threw(p)
  ELSE Impact([p EXCEPT !.resources = RenameEntry(@, id, new)], <<NRename("resource", id, new)>>,
              [k \in DOMAIN p.views |-> RenameResourceIn(p.views[k], id, new)])

StyledWindows(p, id, new) ==
  [k \in DOMAIN p.views |-> IF k[1] = "window" THEN RenameStyleIn(p.views[k], id, new) ELSE p.views[k]]

ClearStyle(p, id) ==
  Impact([p EXCEPT !.styles = Drop(@, {id})], <<NClear("style", id)>>, StyledWindows(p, id, Null))

RenameStyle(p, id, new) ==
  IF new \in DOMAIN p.styles THEN Threw(p)
  ELSE Impact([p EXCEPT !.styles = RenameEntry(@, id, new)], <<NRename("style", id, new)>>,
              StyledWindows(p, id, new))

(***************************************************************************)
(* Windows and templates.                                                  *)
(***************************************************************************)
SetView(p, k, v) == LET q == [p EXCEPT !.views = Put(@, k, v)] IN Done(q, <<NView(q, k)>>)

NewView(p, k) == IF k \in DOMAIN p.views THEN Threw(p) ELSE SetView(p, k, EmptyView)

CloneView(p, k, new) ==
  IF k \notin DOMAIN p.views \/ <<k[1], new>> \in DOMAIN p.views THEN Threw(p)
  ELSE SetView(p, <<k[1], new>>, p.views[k])

SetViewProperties(p, k, props) ==
  IF k \notin DOMAIN p.views THEN Threw(p) ELSE SetView(p, k, props @@ p.views[k])

ClearWindow(p, w) ==
  LET q == [p EXCEPT !.views = Drop(@, {<<"window", w>>}), !.default = Sub(@, w, Null)]
  IN  Impact(q, <<NClear("window", w)>> \o (IF p.default = w THEN <<NDefault(q)>> ELSE <<>>),
             [k \in DOMAIN q.views |-> RenameWindowIn(q.views[k], w, Null)])

RenameWindow(p, w, new) ==
  LET q == [p EXCEPT !.views = RenameEntry(@, <<"window", w>>, <<"window", new>>), !.default = Sub(@, w, new)]
  IN  IF <<"window", new>> \in DOMAIN p.views THEN Threw(p)
      ELSE Impact(q, <<NRename("window", w, new)>> \o (IF p.default = w THEN <<NDefault(q)>> ELSE <<>>),
                  [k \in DOMAIN q.views |-> RenameWindowIn(q.views[k], w, new)])

ClearTemplate(p, t) ==
  LET q == [p EXCEPT !.views = Drop(@, {<<"template", t>>})]
  IN  Impact(q, <<NClear("template", t)>>, [k \in DOMAIN q.views |-> ClearTemplateIn(q.views[k], t)])

RenameTemplate(p, t, new) ==
  LET q == [p EXCEPT !.views = RenameEntry(@, <<"template", t>>, <<"template", new>>)]
  IN  IF <<"template", new>> \in DOMAIN p.views THEN Threw(p)
      ELSE Impact(q, <<NRename("template", t, new)>>,
                  [k \in DOMAIN q.views |-> RenameTemplateIn(q.views[k], t, new)])

(***************************************************************************)
(* Exports of a template: setting one, also again, resets the bindings on  *)
(* it; clearing one also clears the references to it inside the template.  *)
(***************************************************************************)
ExportChanged(p, t, views) ==
  LET users == {k \in DOMAIN p.views : InstancesOf(p.views[k], t) # {}}
      q == [p EXCEPT !.views = views]
  IN  Done(q, NViews(q, users \cup {<<"template", t>>}))

SetTemplateExport(p, t, x, m) ==
  LET views == [p.views EXCEPT ![<<"template", t>>].exports = Put(@, x, m)]
  IN  IF <<"template", t>> \notin DOMAIN p.views THEN Threw(p)
      ELSE ExportChanged(p, t, [k \in DOMAIN views |-> SetExportIn(views[k], t, x)])

ClearTemplateExport(p, t, x) ==
  LET views == [p.views EXCEPT ![<<"template", t>>] = ForgetExportIn([@ EXCEPT !.exports = Drop(@, {x})], x)]
  IN  IF <<"template", t>> \notin DOMAIN p.views THEN Threw(p)
      ELSE ExportChanged(p, t, [k \in DOMAIN views |-> ClearExportIn(views[k], t, x)])

\* Bulk patterns only take part in the preparation of bindings in the browser.
SetTemplateBulkPatterns(p, t, x, pattern) ==
  IF <<"template", t>> \notin DOMAIN p.views \/ x \notin DOMAIN p.views[<<"template", t>>].exports THEN Threw(p)
  ELSE SetView(p, <<"template", t>>, [p.views[<<"template", t>>] EXCEPT !.exports[x].bulk = pattern])

(***************************************************************************)
(* Controls and template instances of a view.                              *)
(***************************************************************************)
Within(p, k, ok, v) == IF k \notin DOMAIN p.views \/ ~ok THEN Threw(p) ELSE SetView(p, k, v)
Controls(p, k) == p.views[k].controls
Instances(p, k) == p.views[k].instances

NewControl(p, k, id, text) ==
  Within(p, k, id \notin DOMAIN Controls(p, k),
         [p.views[k] EXCEPT !.controls = Put(@, id, NewControlData(text))])

ClearControl(p, k, id) == Within(p, k, TRUE, [p.views[k] EXCEPT !.controls = Drop(@, {id})])

RenameControl(p, k, id, new) ==
  Within(p, k, new \notin DOMAIN Controls(p, k), [p.views[k] EXCEPT !.controls = RenameEntry(@, id, new)])

CloneControl(p, k, id, new, target) ==
  IF k \notin DOMAIN p.views \/ id \notin DOMAIN Controls(p, k) THEN Threw(p)
  ELSE Within(p, target, new \notin DOMAIN Controls(p, target),
              [p.views[target] EXCEPT !.controls = Put(@, new, Controls(p, k)[id])])

SetControlProperties(p, k, id, props) ==
  Within(p, k, id \in DOMAIN Controls(p, k), [p.views[k] EXCEPT !.controls[id] = props @@ @])

PrepareBindings(p, t) == [x \in DOMAIN p.views[<<"template", t>>].exports |-> NoRef]
NewInstanceData(p, t) == [template |-> t, pos |-> 0, bindings |-> PrepareBindings(p, t)]
IsTemplate(p, t) == <<"template", t>> \in DOMAIN p.views

NewTemplateInstance(p, k, id, t) ==
  Within(p, k, IsTemplate(p, t) /\ id \notin DOMAIN Instances(p, k),
         [p.views[k] EXCEPT !.instances = Put(@, id, NewInstanceData(p, t))])

ClearTemplateInstance(p, k, id) == Within(p, k, TRUE, [p.views[k] EXCEPT !.instances = Drop(@, {id})])

RenameTemplateInstance(p, k, id, new) ==
  Within(p, k, new \notin DOMAIN Instances(p, k), [p.views[k] EXCEPT !.instances = RenameEntry(@, id, new)])

CloneTemplateInstance(p, k, id, new) ==
  Within(p, k, id \in DOMAIN Instances(p, k) /\ new \notin DOMAIN Instances(p, k),
         [p.views[k] EXCEPT !.instances = Put(@, new, @[id])])

MoveTemplateInstance(p, k, id, pos) ==
  Within(p, k, id \in DOMAIN Instances(p, k), [p.views[k] EXCEPT !.instances[id].pos = pos])

\* Nothing looks for a template that would contain itself.
SetTemplateInstanceTemplate(p, k, id, t) ==
  Within(p, k, id \in DOMAIN Instances(p, k) /\ IsTemplate(p, t),
         [p.views[k] EXCEPT !.instances[id] = [NewInstanceData(p, t) EXCEPT !.pos = p.views[k].instances[id].pos]])

(***************************************************************************)
(* Members: of a component, through its plugin, or of the template the     *)
(* reference is in.  NoMember when there is none of that kind.             *)
(***************************************************************************)
NoMember == [id |-> "none"]
MemberType(members, m, kind) ==
  IF m \in DOMAIN members /\ members[m].kind = kind THEN members[m].type ELSE NoMember

ValueType(p, k, r, kind) ==
  CASE r.comp \in DOMAIN p.comps -> MemberType(p.plugins[p.comps[r.comp]].members, r.member, kind)
    [] r.comp = Null /\ k[1] = "template" -> MemberType(p.views[k].exports, r.member, kind)
    [] OTHER -> NoMember

\* One binding after the other: those before a refused one are set in the model.
SetTemplateInstanceBindings(p, k, id, bindings) ==
  LET Bindable(q, b) ==
        LET inst == Instances(q, k)[id]
            export == q.views[<<"template", inst.template>>].exports
        IN  /\ b.export \in DOMAIN inst.bindings /\ b.export \in DOMAIN export
            /\ ValueType(q, k, b.ref, export[b.export].kind) = export[b.export].type
      SetOne(r, b) ==
        IF r.threw \/ ~Bindable(r.p, b) THEN [r EXCEPT !.threw = TRUE]
        ELSE [r EXCEPT !.p.views[k].instances[id].bindings[b.export] = b.ref]
  IN  IF k \notin DOMAIN p.views \/ id \notin DOMAIN Instances(p, k) THEN Threw(p)
      ELSE LET r == FoldLeft(SetOne, Done(p, <<>>), bindings)
           IN  IF r.threw THEN r ELSE [r EXCEPT !.out = <<NView(r.p, k)>>]

(***************************************************************************)
(* Validation: the set of the places that are in error.                    *)
(***************************************************************************)
NoNumber == 999
AnyType == [id |-> "any"]

ItemError(item, type) ==
  LET bounded == item.min # NoNumber \/ item.max # NoNumber
  IN  CASE type.id = "range" -> \/ item.value # Null
                                \/ item.min = NoNumber \/ item.min < type.min
                                \/ item.max = NoNumber \/ item.max > type.max
                                \/ item.min > item.max
        [] type.id = "float" -> item.value # Null
                                \/ (NoNumber \notin {item.min, item.max} /\ item.min > item.max)
        [] type.id = "text" -> bounded \/ item.value = Null
        [] type.id = "bool" -> bounded \/ item.value \notin {"true", "false"}
        [] type.id = "enum" -> bounded \/ item.value \notin type.values
        [] OTHER -> FALSE

Undefined(k, r) == (r.comp = Null /\ k[1] # "template") \/ r.member = Null

CheckComponent(p, k, r, kind, type, optional) ==
  IF Undefined(k, r) THEN ~optional
  ELSE LET actual == ValueType(p, k, r, kind) IN actual = NoMember \/ (type # AnyType /\ actual # type)

DisplayError(p, k, c) ==
  LET type == ValueType(p, k, c.state, "state")
  IN  \/ \E x \in c.map : x.res \notin DOMAIN p.resources
      \/ CheckComponent(p, k, c.state, "state", AnyType, c.map = {})
      \/ ~Undefined(k, c.state) /\ (type.id = "complex" \/ \E x \in c.map : ItemError(x, type))

ControlError(p, k, c) ==
  \/ IF c.text THEN CheckComponent(p, k, c.state, "state", AnyType, FALSE) ELSE DisplayError(p, k, c)
  \/ \E r \in c.action : CheckComponent(p, k, r, "action", [id |-> "bool"], FALSE)
  \/ \E w \in c.window : <<"window", w>> \notin DOMAIN p.views

InstanceError(p, k, i) ==
  LET exports == p.views[<<"template", i.template>>].exports
  IN  \/ DOMAIN i.bindings # DOMAIN exports
      \/ \E x \in DOMAIN exports : CheckComponent(p, k, i.bindings[x], exports[x].kind, exports[x].type, FALSE)

Validate(p) ==
  (IF <<"window", p.default>> \in DOMAIN p.views THEN {} ELSE {<<"default", p.default>>})
    \cup {k \in DOMAIN p.views :
            \/ p.views[k].bg \notin DOMAIN p.resources \cup {Null}
            \/ \E c \in DOMAIN Controls(p, k) : ControlError(p, k, Controls(p, k)[c])
            \/ \E i \in DOMAIN Instances(p, k) : InstanceError(p, k, Instances(p, k)[i])}

(***************************************************************************)
(* The components come from a core project or from what is online.  A      *)
(* refresh is prepared (what would break is shown) and applied later, with *)
(* the list of the usages to clear computed at preparation.                *)
(***************************************************************************)
IsComponent(r) == r.comp # Null /\ r.member # Null
Refs(c) == {c.state} \cup c.action
BindingRefs(i) == {i.bindings[x] : x \in DOMAIN i.bindings}

CollectComponentsUsage(p) ==
  UNION {UNION {{[view |-> k, kind |-> "control", id |-> id, ref |-> r] :
                   r \in {r \in Refs(Controls(p, k)[id]) : IsComponent(r)}} : id \in DOMAIN Controls(p, k)}
         \cup
         UNION {{[view |-> k, kind |-> "instance", id |-> id, ref |-> r] :
                   r \in {r \in BindingRefs(Instances(p, k)[id]) : IsComponent(r)}} : id \in DOMAIN Instances(p, k)}
         : k \in DOMAIN p.views}

TypeCompatible(a, b) ==
  \/ a = b
  \/ a.id = "enum" /\ b.id = "text"
  \/ a.id = "range" /\ b.id = "float"
  \/ a.id = "range" /\ b.id = "range" /\ a.min >= b.min /\ a.max <= b.max
  \/ a.id = "enum" /\ b.id = "enum" /\ a.values \subseteq b.values

PluginCompatible(p, usage, plugin, new) ==
  LET old == p.plugins[plugin]
  IN  \/ old.version = new.version
      \/ \A m \in DOMAIN old.members :
           (\E u \in usage : p.comps[u.ref.comp] = plugin /\ u.ref.member = m)
             => m \in DOMAIN new.members /\ TypeCompatible(old.members[m].type, new.members[m].type)

PrepareMerge(p, data) ==
  LET usage == CollectComponentsUsage(p)
  IN  {u \in usage : \/ u.ref.comp \notin DOMAIN data.comps
                     \/ ~PluginCompatible(p, usage, p.comps[u.ref.comp], data.plugins[data.comps[u.ref.comp]])}

\* In a template instance every bound component is cleared, not only this usage.
ClearComponentUsage(v, u) ==
  LET clear(r) == IF r = u.ref THEN NoRef ELSE r
  IN  IF u.kind = "control"
      THEN IF u.id \notin DOMAIN v.controls THEN v
           ELSE [v EXCEPT !.controls[u.id].state = clear(@),
                          !.controls[u.id].action = {clear(r) : r \in @}]
      ELSE IF u.id \notin DOMAIN v.instances THEN v
           ELSE [v EXCEPT !.instances[u.id].bindings = [x \in DOMAIN @ |-> IF IsComponent(@[x]) THEN NoRef ELSE @[x]]]

ApplyRefreshComponents(p, plan) ==
  LET replaced == [p EXCEPT !.comps = plan.data.comps, !.plugins = plan.data.plugins]
      ClearOne(r, u) ==
        IF r.threw \/ u.view \notin DOMAIN r.p.views THEN [r EXCEPT !.threw = TRUE]
        ELSE [r EXCEPT !.p.views[u.view] = ClearComponentUsage(@, u)]
      r == FoldLeft(ClearOne, Done(replaced, <<>>), Each(plan.clear, LAMBDA u : u))
      changed == {k \in DOMAIN p.views : r.p.views[k] # p.views[k]}
  IN  IF r.threw THEN r ELSE [r EXCEPT !.out = NViews(r.p, changed) \o <<NComponents(r.p)>>]

(***************************************************************************)
(* The deployed definition: the controls of every window, templates        *)
(* expanded, with the components they end up bound to.  Unbound is what    *)
(* the code reads as undefined; using it throws.                           *)
(***************************************************************************)
Unbound == [comp |-> "undefined", member |-> "undefined"]
Lookup(bindings, m) == IF m \in DOMAIN bindings THEN bindings[m] ELSE Unbound
Resolve(r, bindings) == IF r.comp # Null THEN r ELSE Lookup(bindings, r.member)

Nests(p) ==
  LET T == {k \in DOMAIN p.views : k[1] = "template"}
      edge == [a, b \in T |-> InstancesOf(p.views[a], b[2]) # {}]
  IN  TransitiveClosure(edge, T)
Circular(p) == \E k \in DOMAIN p.views : k[1] = "template" /\ Nests(p)[k, k]

BuildControl(c, bindings, path) ==
  [path |-> path,
   state |-> IF ~c.text /\ c.state.member = Null THEN c.state ELSE Resolve(c.state, bindings),
   action |-> {Resolve(r, bindings) : r \in c.action},
   window |-> c.window]

RECURSIVE AddViewElements(_, _, _, _)
AddViewElements(p, k, bindings, path) ==
  UNION {LET i == Instances(p, k)[id]
         IN  AddViewElements(p, <<"template", i.template>>,
                             [x \in DOMAIN i.bindings |-> Resolve(i.bindings[x], bindings)], Append(path, id))
         : id \in DOMAIN Instances(p, k)}
  \cup {BuildControl(Controls(p, k)[id], bindings, Append(path, id)) : id \in DOMAIN Controls(p, k)}

BuildDeployDefinition(p) ==
  [w \in {k[2] : k \in {k \in DOMAIN p.views : k[1] = "window"}} |-> AddViewElements(p, <<"window", w>>, <<>>, <<>>)]

-----------------------------------------------------------------------------
(* The browser's tables: the redux store of the ui designer, the reducer   *)
(* that applies the server's notifications and the selectors that list     *)
(* where an element is used.  Resources, styles, windows and templates are *)
(* in "items", keyed by table and identifier, and listed, sorted, in the   *)
(* opened project.  Controls and template instances have tables of their   *)
(* own, keyed by the view they are in; a view lists its own.  One tab is   *)
(* modelled: its prefix, the same in every identifier, is left out.        *)

NoSelection == [type |-> "project", id |-> Null]

NewTab ==
  [alive |-> TRUE, default |-> Null, data |-> <<<<>>, <<>>>>, listed |-> {}, items |-> <<>>,
   controls |-> <<>>, instances |-> <<>>, sel |-> NoSelection]

Die(m) == [m EXCEPT !.alive = FALSE]

\* The tables of controls and of template instances are not cleared.
ClearAllNotifiers(m) == [NewTab EXCEPT !.controls = m.controls, !.instances = m.instances]

ApplyReset(m) == [ClearAllNotifiers(m) EXCEPT !.items = Drop(m.items, m.listed)]

(***************************************************************************)
(* arrayRemove of an identifier that is not in the array is splice(-1, 1): *)
(* the last of the array goes.                                             *)
(***************************************************************************)
LastOf(listed, table) ==
  LET mine == {i \in DOMAIN IdOrder : <<table, IdOrder[i]>> \in listed}
  IN  {<<table, IdOrder[i]>> : i \in {i \in mine : \A j \in mine : j <= i}}

ArrayRemove(listed, x) == IF x \in listed THEN listed \ {x} ELSE listed \ LastOf(listed, x[1])

SetItem(m, x, val) == [m EXCEPT !.items = Put(@, x, val), !.listed = @ \cup {x}]
ClearItem(m, x) == [m EXCEPT !.items = Drop(@, {x}), !.listed = ArrayRemove(@, x)]
RenameItem(m, x, y) == SetItem(ClearItem(m, x), y, m.items[x])

(***************************************************************************)
(* Views.  A view of the tables lists its controls and template instances. *)
(***************************************************************************)
Keys(k, f) == {k} \X (DOMAIN f)
Shown(k, v) == [pos |-> v.pos, style |-> v.style, bg |-> v.bg, exports |-> v.exports,
                controls |-> Keys(k, v.controls), instances |-> Keys(k, v.instances)]

Qualified(k, f) == [x \in Keys(k, f) |-> f[x[2]]]

ForgetView(m, k) ==
  IF k \notin DOMAIN m.items THEN m
  ELSE [m EXCEPT !.controls = Drop(@, m.items[k].controls), !.instances = Drop(@, m.items[k].instances)]

SetViewKept(m, k, v) ==     \* mutant
  SetItem([m EXCEPT !.controls = @ @@ Qualified(k, v.controls),
                    !.instances = @ @@ Qualified(k, v.instances)], k, Shown(k, v))

SetShownView(m, k, v) ==
  LET left == ForgetView(m, k)
  IN  SetItem([left EXCEPT !.controls = Qualified(k, v.controls) @@ @,
                           !.instances = Qualified(k, v.instances) @@ @], k, Shown(k, v))

ClearShownView(m, k) ==
  IF k \notin DOMAIN m.items THEN Die(m)
  ELSE LET left == ClearItem(ForgetView(m, k), k)
       IN  IF m.sel = [type |-> k[1], id |-> k[2]] THEN [left EXCEPT !.sel = NoSelection] ELSE left

\* renameViewControls, renameViewTemplateInstances
MoveKeys(f, S, new) == [x \in (DOMAIN f \ S) \cup {<<new, y[2]>> : y \in S} |->
                          IF \E y \in S : x = <<new, y[2]>> THEN f[CHOOSE y \in S : x = <<new, y[2]>>] ELSE f[x]]

RenameShownView(m, k, new) ==
  IF k \notin DOMAIN m.items THEN Die(m)
  ELSE LET view == m.items[k]
           to(S) == {<<new, x[2]>> : x \in S}
           moved == SetItem(ClearItem(m, k), new,
                            [view EXCEPT !.controls = to(@), !.instances = to(@)])
       IN  [moved EXCEPT !.controls = MoveKeys(@, view.controls, new),
                         !.instances = MoveKeys(@, view.instances, new),
                         !.sel = IF @ = [type |-> k[1], id |-> k[2]] THEN [@ EXCEPT !.id = new[2]] ELSE @]

(***************************************************************************)
(* One notification, and a batch: the reducer applies it as one action. An *)
(* update that throws leaves the tables as they were before the batch and  *)
(* ends the subscription that dispatched it.                               *)
(***************************************************************************)
Views == {"window", "template"}

ApplyProjectUpdate(m, n) ==
  LET x == <<n.tab, n.id>>
      y == <<n.tab, n.new>>
  IN  IF ~m.alive THEN m
      ELSE CASE n.op = "reset" -> ApplyReset(m)
             [] n.op = "components" -> [m EXCEPT !.data = n.val]
             [] n.op = "default" -> [m EXCEPT !.default = n.val]
             [] n.op = "set" -> IF n.tab \in Views THEN SetShownView(m, x, n.val) ELSE SetItem(m, x, n.val)
             [] n.op = "clear" -> IF n.tab \in Views THEN ClearShownView(m, x) ELSE ClearItem(m, x)
             [] n.op = "rename" -> IF n.tab \in Views THEN RenameShownView(m, x, y)
                                   ELSE IF x \notin DOMAIN m.items THEN Die(m)
                                   ELSE RenameItem(m, x, y)

UpdateProject(m, batch) ==
  LET q == FoldLeft(ApplyProjectUpdate, m, batch)
  IN  IF q.alive THEN q ELSE Die(m)

(***************************************************************************)
(* The usage selectors: the listed views in which an element is used.      *)
(***************************************************************************)
ListedViews(m) == {k \in m.listed : k[1] \in Views}
UsingControl(m, F(_)) == {k \in ListedViews(m) : \E c \in m.items[k].controls : F(m.controls[c])}

ResourceUsage(m, r) ==
  {k \in ListedViews(m) : m.items[k].bg = r} \cup UsingControl(m, LAMBDA c : \E x \in c.map : x.res = r)

WindowUsage(m, w) ==
  UsingControl(m, LAMBDA c : w \in c.window) \cup (IF m.default = w THEN {<<"default", w>>} ELSE {})

TemplateUsage(m, t) ==
  {k \in ListedViews(m) : \E i \in m.items[k].instances : m.instances[i].template = t}

StyleUsage(m, s) ==
  {k \in ListedViews(m) : s \in m.items[k].style} \cup UsingControl(m, LAMBDA c : s \in c.style)

(***************************************************************************)
(* What the designer shows is the project p.                               *)
(***************************************************************************)
Mirrors(m, p) ==
  /\ m.default = p.default /\ m.data = <<p.comps, p.plugins>>
  /\ m.listed = DOMAIN p.views \cup ({"resource"} \X (DOMAIN p.resources)) \cup ({"style"} \X (DOMAIN p.styles))
  /\ \A id \in DOMAIN p.resources : m.items[<<"resource", id>>] = p.resources[id]
  /\ \A id \in DOMAIN p.styles : m.items[<<"style", id>>] = p.styles[id]
  /\ \A k \in DOMAIN p.views :
       /\ m.items[k] = Shown(k, p.views[k])
       /\ \A id \in DOMAIN Controls(p, k) : m.controls[<<k, id>>] = Controls(p, k)[id]
       /\ \A id \in DOMAIN Instances(p, k) : m.instances[<<k, id>>] = Instances(p, k)[id]

-----------------------------------------------------------------------------
(* The project, its file and the browser.                                  *)

VARIABLES
  proj,           \* the server's model
  saved,          \* the file
  link,           \* the browser: "closed", "opening" (initial state still to be sent), "open"
  wire,           \* notifications on their way to the browser
  tab,            \* the browser's tables
  call,           \* the browser's optimistic edit the server has not seen: a set of at most one
  plan,           \* the refresh of components prepared, not confirmed: a set of at most one
  edits, locals, opens,
  quirks          \* what happened that the code does not cope with

vars == <<proj, saved, link, wire, tab, call, plan, edits, locals, opens, quirks>>

Init ==
  /\ proj \in Seeds
  /\ saved = proj
  /\ link = "closed" /\ wire = <<>> /\ tab = NewTab /\ call = {} /\ plan = {}
  /\ edits = 0 /\ locals = 0 /\ opens = 0
  /\ quirks = {}

Carry(r, more) ==
  /\ proj' = r.p
  /\ saved' = IF r.threw THEN saved ELSE r.p
  /\ wire' = IF link = "closed" THEN <<>> ELSE wire \o r.out
  /\ quirks' = quirks \cup more
                 \cup (IF r.threw /\ r.p # proj THEN {"partial"} ELSE {})
                 \cup (IF Circular(r.p) THEN {"selfNested"} ELSE {})
                 \cup (IF link = "opening" /\ r.out # <<>> THEN {"early"} ELSE {})

Update(r, more) ==
  /\ edits < MaxEdits /\ link \in EditedLinks
  /\ Carry(r, more)
  /\ r # Threw(proj)
  /\ edits' = edits + 1
  /\ UNCHANGED <<link, tab, call, plan, locals, opens>>

When(cond, quirk) == IF cond THEN {quirk} ELSE {}

(***************************************************************************)
(* The edits.  Two browsers can clear or rename the same element: the      *)
(* second finds it absent.                                                 *)
(***************************************************************************)
ViewKeys == DOMAIN proj.views
WindowIds == {k[2] : k \in {k \in ViewKeys : k[1] = "window"}}
TemplateIds == {k[2] : k \in {k \in ViewKeys : k[1] = "template"}}
SeedIds(f(_)) == UNION {f(p) : p \in Seeds}
AllResources == SeedIds(LAMBDA p : DOMAIN p.resources) \cup NewIds
AllStyles == SeedIds(LAMBDA p : DOMAIN p.styles) \cup NewIds
AllViews == SeedIds(LAMBDA p : DOMAIN p.views)

EditResource ==
  \E id \in AllResources :
    LET gone == When(id \notin DOMAIN proj.resources, "absent")
    IN  \/ Update(SetResource(proj, id, 1), {})
        \/ Update(ClearResource(proj, id), gone)
        \/ \E new \in NewIds : Update(RenameResource(proj, id, new), gone)

StyleInTemplate(s) ==
  \E k \in ViewKeys : k[1] = "template" /\ \E c \in DOMAIN Controls(proj, k) : s \in Controls(proj, k)[c].style

EditStyle ==
  \E id \in AllStyles :
    LET odd == When(id \notin DOMAIN proj.styles, "absent") \cup When(StyleInTemplate(id), "templateStyle")
    IN  \/ Update(SetStyle(proj, id, 1), {})
        \/ Update(ClearStyle(proj, id), odd)
        \/ \E new \in NewIds : Update(RenameStyle(proj, id, new), odd)

EditView ==
  \/ \E type \in Views, new \in NewIds : Update(NewView(proj, <<type, new>>), {})
  \/ \E k \in ViewKeys, new \in NewIds : Update(CloneView(proj, k, new), {})
  \/ \E k \in ViewKeys, pos \in {1} : Update(SetViewProperties(proj, k, [pos |-> pos]), {})
  \/ \E w \in WindowIds, r \in DOMAIN proj.resources, s \in DOMAIN proj.styles :
       Update(SetViewProperties(proj, <<"window", w>>, [bg |-> r, style |-> {s}]), {})
  \/ \E w \in WindowIds : Update(SetDefaultWindow(proj, w), {})

EditClearView ==
  \E k \in AllViews :
    Update(IF k[1] = "window" THEN ClearWindow(proj, k[2]) ELSE ClearTemplate(proj, k[2]),
           When(k \notin ViewKeys, "absent"))

EditRenameView ==
  \E k \in AllViews, new \in NewIds :
    Update(IF k[1] = "window" THEN RenameWindow(proj, k[2], new) ELSE RenameTemplate(proj, k[2], new),
           When(k \notin ViewKeys, "absent"))

EditExport ==
  \E t \in TemplateIds :
    \/ \E x \in DOMAIN proj.views[<<"template", t>>].exports \cup NewIds, m \in Exports :
         Update(SetTemplateExport(proj, t, x, m), {})
    \/ \E x \in DOMAIN proj.views[<<"template", t>>].exports :
         \/ Update(ClearTemplateExport(proj, t, x), {})
         \/ Update(SetTemplateBulkPatterns(proj, t, x, TRUE), {})

\* The members a user of view k is offered, and what they can set on a control.
ComponentRefs(kind) ==
  {r \in [comp : DOMAIN proj.comps, member : UNION {DOMAIN proj.plugins[g].members : g \in DOMAIN proj.plugins}] :
     ValueType(proj, <<"window", "">>, r, kind) # NoMember}
Offered(k, kind) ==
  ComponentRefs(kind) \cup
  (IF k[1] = "window" THEN {}
   ELSE {[comp |-> Null, member |-> x] :
           x \in {x \in DOMAIN proj.views[k].exports : proj.views[k].exports[x].kind = kind}})

ControlProps(k) ==
  {[state |-> r, map |-> {i}] : r \in Offered(k, "state"), i \in {i \in Items : i.res \in DOMAIN proj.resources}}
    \cup {[state |-> r, map |-> {}] : r \in Offered(k, "state")}
    \cup {[action |-> {r}] : r \in Offered(k, "action")}
    \cup {[window |-> {w}] : w \in WindowIds}
    \cup {[style |-> {s}] : s \in DOMAIN proj.styles}

EditControl ==
  \E k \in ViewKeys :
    \/ \E id \in NewIds, text \in BOOLEAN : Update(NewControl(proj, k, id, text), {})
    \/ \E id \in DOMAIN Controls(proj, k) :
         \/ Update(ClearControl(proj, k, id), {})
         \/ \E new \in NewIds : Update(RenameControl(proj, k, id, new), {})
         \/ \E new \in NewIds, target \in ViewKeys :
              Update(CloneControl(proj, k, id, new, target),
                     When(target # k /\ \E r \in Refs(Controls(proj, k)[id]) : r.comp = Null /\ r.member # Null,
                          "clonedElsewhere"))
         \/ \E props \in ControlProps(k) : Update(SetControlProperties(proj, k, id, props), {})

EditInstance ==
  \E k \in ViewKeys :
    \/ \E id \in NewIds, t \in TemplateIds : Update(NewTemplateInstance(proj, k, id, t), {})
    \/ \E id \in DOMAIN Instances(proj, k) :
         \/ Update(ClearTemplateInstance(proj, k, id), {})
         \/ \E new \in NewIds : Update(RenameTemplateInstance(proj, k, id, new), {})
         \/ \E new \in NewIds : Update(CloneTemplateInstance(proj, k, id, new), {})
         \/ Update(MoveTemplateInstance(proj, k, id, 1), {})
         \/ \E t \in TemplateIds : Update(SetTemplateInstanceTemplate(proj, k, id, t), {})

\* Several bindings of an instance are set with one call.
EditBindings ==
  \E k \in ViewKeys : \E id \in DOMAIN Instances(proj, k) :
    LET names == DOMAIN Instances(proj, k)[id].bindings
        refs == Offered(k, "state") \cup Offered(k, "action")
    IN  \/ \E x \in names, r \in refs :
             Update(SetTemplateInstanceBindings(proj, k, id, <<[export |-> x, ref |-> r]>>), {})
        \/ \E x, y \in names, r, s \in refs :
             /\ x # y
             /\ Update(SetTemplateInstanceBindings(proj, k, id,
                         <<[export |-> x, ref |-> r], [export |-> y, ref |-> s]>>), {})

(***************************************************************************)
(* Refreshing the components: prepared by the server, confirmed by the     *)
(* user, applied with what was prepared.  A reference to a component that  *)
(* is not in the project makes the preparation throw.                      *)
(***************************************************************************)
PrepareComponentRefresh ==
  \E data \in OnlineData :
    /\ link = "open" /\ plan = {} /\ locals < MaxLocal
    /\ \A u \in CollectComponentsUsage(proj) : u.ref.comp \in DOMAIN proj.comps
    /\ plan' = {[data |-> data, clear |-> PrepareMerge(proj, data)]}
    /\ locals' = locals + 1
    /\ UNCHANGED <<proj, saved, link, wire, tab, call, edits, opens, quirks>>

ApplyRefresh ==
  \E pl \in plan :
    /\ Carry(ApplyRefreshComponents(proj, pl), When(PrepareMerge(proj, pl.data) # pl.clear, "stalePlan"))
    /\ plan' = {}
    /\ UNCHANGED <<link, tab, call, edits, locals, opens>>

ExternalUpdate ==
  \E p \in Seeds :
    /\ p # saved
    /\ edits < MaxEdits /\ link \in EditedLinks
    /\ proj' = p /\ saved' = p
    /\ wire' = IF link = "closed" THEN <<>> ELSE wire \o <<[op |-> "reset", tab |-> "", id |-> "", new |-> ""]>> \o EmitAllState(p)
    /\ edits' = edits + 1
    /\ quirks' = quirks \cup When(link = "opening", "early") \cup When(plan # {}, "stalePlan")
                        \cup When(call # {}, "staleCall")
    /\ UNCHANGED <<link, tab, call, plan, locals, opens>>

(***************************************************************************)
(* The browser.                                                            *)
(***************************************************************************)
Open ==
  /\ link = "closed" /\ opens < MaxOpens
  /\ link' = "opening" /\ opens' = opens + 1
  /\ \/ UNCHANGED proj
     \/ proj' = saved
  /\ UNCHANGED <<saved, wire, tab, call, plan, edits, locals, quirks>>

EmitInitial ==
  /\ link = "opening"
  /\ link' = "open"
  /\ wire' = wire \o EmitAllState(proj)
  /\ UNCHANGED <<proj, saved, tab, call, plan, edits, locals, opens, quirks>>

Deliver ==
  /\ wire # <<>>
  /\ tab' = UpdateProject(tab, wire)
  /\ wire' = <<>>
  /\ UNCHANGED <<proj, saved, link, call, plan, edits, locals, opens, quirks>>

Offline ==
  /\ link # "closed" /\ tab.alive
  /\ link' = "closed" /\ wire' = <<>> /\ tab' = ClearAllNotifiers(tab) /\ call' = {} /\ plan' = {}
  /\ UNCHANGED <<proj, saved, edits, locals, opens, quirks>>

Select ==
  \E k \in ListedViews(tab) :
    /\ tab.alive /\ locals < MaxLocal
    /\ tab' = [tab EXCEPT !.sel = [type |-> k[1], id |-> k[2]]]
    /\ locals' = locals + 1
    /\ UNCHANGED <<proj, saved, link, wire, call, plan, edits, opens, quirks>>

\* Properties and positions, changed here first.  The view is the selected one.
Local(tables, c) ==
  /\ link = "open" /\ tab.alive /\ call = {} /\ locals < MaxLocal
  /\ c.at \in ListedViews(tab)
  /\ tab' = tables
  /\ call' = {c}
  /\ locals' = locals + 1
  /\ UNCHANGED <<proj, saved, link, wire, plan, edits, opens, quirks>>

LocalView ==
  \E k \in ListedViews(tab) :
    \E props \in IF k[1] = "template" THEN {[pos |-> 2]}
                 ELSE {[pos |-> 2, bg |-> x[2]] : x \in {x \in tab.listed : x[1] = "resource"}} :
    Local([tab EXCEPT !.items[k] = props @@ @], [op |-> "view", at |-> k, id |-> "", props |-> props])

LocalControl ==
  \E x \in DOMAIN tab.controls :
    \E props \in {[pos |-> 2, window |-> {k[2]}] : k \in {k \in ListedViews(tab) : k[1] = "window"}} :
    Local([tab EXCEPT !.controls[x] = props @@ @], [op |-> "control", at |-> x[1], id |-> x[2], props |-> props])

LocalMove ==
  \E x \in DOMAIN tab.instances :
    Local([tab EXCEPT !.instances[x].pos = 2], [op |-> "move", at |-> x[1], id |-> x[2], props |-> [pos |-> 2]])

\* The browser's own edit reaches the server.
ServeCall ==
  \E c \in call :
    LET r == CASE c.op = "view" -> SetViewProperties(proj, c.at, c.props)
               [] c.op = "control" -> SetControlProperties(proj, c.at, c.id, c.props)
               [] c.op = "move" -> MoveTemplateInstance(proj, c.at, c.id, 2)
        stale == \/ "bg" \in DOMAIN c.props /\ c.props.bg \notin DOMAIN proj.resources
                 \/ "window" \in DOMAIN c.props /\ ~(c.props.window \subseteq WindowIds)
    IN  /\ Carry(r, When(r.threw, "lostCall") \cup When(stale, "staleCall"))
        /\ call' = {}
        /\ UNCHANGED <<link, tab, plan, edits, locals, opens>>

Next ==
  \/ EditResource \/ EditStyle \/ EditView \/ EditClearView \/ EditRenameView \/ EditExport
  \/ EditControl \/ EditInstance \/ EditBindings
  \/ PrepareComponentRefresh \/ ApplyRefresh \/ ExternalUpdate
  \/ Open \/ EmitInitial \/ Deliver \/ Offline \/ Select
  \/ LocalView \/ LocalControl \/ LocalMove \/ ServeCall

Spec == Init /\ [][Next]_vars

-----------------------------------------------------------------------------
TypeOK ==
  /\ link \in {"closed", "opening", "open"}
  /\ edits \in 0 .. MaxEdits /\ locals \in 0 .. MaxLocal /\ opens \in 0 .. MaxOpens
  /\ Cardinality(call) <= 1 /\ Cardinality(plan) <= 1
  /\ DOMAIN proj = DOMAIN NewProject
  /\ \A k \in ViewKeys :
       /\ DOMAIN proj.views[k] = DOMAIN EmptyView
       /\ \A c \in DOMAIN Controls(proj, k) : DOMAIN Controls(proj, k)[c] = DOMAIN NewControlData(FALSE)
  /\ quirks \subseteq {"partial", "selfNested", "early", "absent", "templateStyle", "clonedElsewhere",
                       "stalePlan", "staleCall", "lostCall"}

\* Whatever was removed or renamed, nothing refers to what is not there: windows,
\* resources, styles, templates, template exports and components (the
\* onRename/onClear methods of the views, and the usages a refresh clears).
\* Excepted: styles used inside templates, which clearStyle and renameStyle do not
\* look at, a refresh confirmed after the project has changed, the browser's own
\* change of an element that refers to one removed meanwhile, and a control cloned
\* into another view, which keeps its references to the exports of its template.
NoDanglingReference ==
  LET Sound(k, r) == \/ r = NoRef
                     \/ r.comp = Null /\ ("clonedElsewhere" \in quirks \/ r.member \in DOMAIN proj.views[k].exports)
                     \/ r.comp \in DOMAIN proj.comps
  IN  quirks \cap {"templateStyle", "stalePlan", "staleCall"} = {} =>
        /\ proj.default \in WindowIds \cup {Null}
        /\ \A k \in ViewKeys :
             LET v == proj.views[k]
             IN  /\ v.bg \in DOMAIN proj.resources \cup {Null} /\ v.style \subseteq DOMAIN proj.styles
                 /\ \A id \in DOMAIN v.controls :
                      LET c == v.controls[id]
                      IN  /\ {x.res : x \in c.map} \subseteq DOMAIN proj.resources \cup {Null}
                          /\ c.style \subseteq DOMAIN proj.styles
                          /\ c.window \subseteq WindowIds \cup {Null}
                          /\ \A r \in Refs(c) : Sound(k, r)
                 /\ \A id \in DOMAIN v.instances :
                      LET i == v.instances[id]
                      IN  /\ i.template \in TemplateIds
                          /\ DOMAIN i.bindings = DOMAIN proj.views[<<"template", i.template>>].exports
                          /\ \A r \in BindingRefs(i) : Sound(k, r)

\* A project that validates deploys: with templates expanded, every state and
\* action is bound to a member of its kind of an existing component (a boolean one
\* for an action), and every window opened exists.  Excepted is a template that
\* contains itself, which validation accepts and expansion never ends on, and a
\* control cloned out of its template.
ValidDeploys ==
  LET bound(r, kind) == ValueType(proj, <<"window", "">>, r, kind)
      definition == BuildDeployDefinition(proj)
  IN  (Validate(proj) = {} /\ ~Circular(proj) /\ "clonedElsewhere" \notin quirks) =>
        \A w \in DOMAIN definition : \A c \in definition[w] :
          /\ c.state.member = Null \/ bound(c.state, "state") # NoMember
          /\ \A r \in c.action : bound(r, "action") = [id |-> "bool"]
          /\ c.window \subseteq DOMAIN definition

\* No notification makes the reducer throw, the selected window or template is
\* there, and once everything sent has been applied the browser shows the server's
\* project.  Excepted: a second clear or rename of what is gone already, updates
\* sent before the initial state, a refused or half-done edit.
TabMirrors ==
  quirks \cap {"absent", "early", "lostCall", "partial", "staleCall"} = {} =>
    /\ tab.alive
    /\ tab.sel # NoSelection => <<tab.sel.type, tab.sel.id>> \in ListedViews(tab)
    /\ (link = "open" /\ wire = <<>> /\ call = {}) => Mirrors(tab, proj)

\* What the browser shows as unused can be deleted without changing anything else,
\* and what it shows as used cannot: the usage selectors and the server's impact
\* of a deletion agree (outside of styles in templates).
UsageTellsImpact ==
  LET touched(r) == {k \in DOMAIN r.p.views : r.p.views[k] # proj.views[k]}
      first(w) == IF proj.default = w THEN {<<"default", w>>} ELSE {}
  IN  (quirks = {} /\ link = "open" /\ wire = <<>> /\ call = {}) =>
        /\ \A id \in DOMAIN proj.resources : ResourceUsage(tab, id) = touched(ClearResource(proj, id))
        /\ \A id \in DOMAIN proj.styles : ~StyleInTemplate(id) => StyleUsage(tab, id) = touched(ClearStyle(proj, id))
        /\ \A w \in WindowIds : WindowUsage(tab, w) \ {<<"window", w>>} = touched(ClearWindow(proj, w)) \cup first(w)
        /\ \A t \in TemplateIds : TemplateUsage(tab, t) \ {<<"template", t>>} = touched(ClearTemplate(proj, t))
=============================================================================
