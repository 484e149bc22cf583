---------------------------- MODULE MCUiDesigner ----------------------------
(***************************************************************************)
(* Two projects: one with a window and a template whose two exports are    *)
(* used inside it and bound in the window, one with two linked windows.    *)
(* The components are one switch; a refresh brings one that has become a   *)
(* dimmer, or nothing.                                                     *)
(***************************************************************************)
EXTENDS UiDesigner

Bool == [id |-> "bool"]
Member(kind, type) == [kind |-> kind, type |-> type, bulk |-> FALSE]
Switch == [version |-> 1, members |-> [s |-> Member("state", Bool), a |-> Member("action", Bool)]]
Dimmer == [version |-> 2, members |-> [s |-> Member("state", [id |-> "range", min |-> 0, max |-> 9]),
                                       a |-> Member("action", Bool)]]
Data(plugin) == [comps |-> [k |-> "g"], plugins |-> [g |-> plugin]]
MCOnlineData == {Data(Dimmer), [comps |-> <<>>, plugins |-> <<>>]}

MCIdOrder == <<"n", "r1", "r2", "s1", "t1", "w1", "w2">>
MCNewIds == {"n"}
Item(value) == [res |-> "r1", value |-> value, min |-> NoNumber, max |-> NoNumber]
MCItems == {Item("zz")}
MCExports == {Member("state", Bool), Member("action", Bool)}

Ref(comp, member) == [comp |-> comp, member |-> member]
Bare == [NewProject EXCEPT !.comps = [k |-> "g"], !.plugins = [g |-> Switch],
                           !.resources = [r1 |-> 0, r2 |-> 0], !.styles = [s1 |-> 0]]
W(id) == <<"window", id>>
T(id) == <<"template", id>>

Templated ==
  LET p1 == NewView(NewView(Bare, W("w1")).p, T("t1")).p
      p2 == SetTemplateExport(SetTemplateExport(p1, "t1", "e", Member("state", Bool)).p, "t1", "f", Member("action", Bool)).p
      p3 == NewControl(p2, T("t1"), "c", FALSE).p
      p4 == SetControlProperties(p3, T("t1"), "c",
              [state |-> Ref(Null, "e"), map |-> {Item("true")}, action |-> {Ref(Null, "f")}, window |-> {"w1"}]).p
      p5 == NewTemplateInstance(p4, W("w1"), "i", "t1").p
      p6 == SetTemplateInstanceBindings(p5, W("w1"), "i",
              <<[export |-> "e", ref |-> Ref("k", "s")], [export |-> "f", ref |-> Ref("k", "a")]>>).p
  IN  SetDefaultWindow(p6, "w1").p

Linked ==
  LET p1 == NewView(NewView(Bare, W("w1")).p, W("w2")).p
      p2 == SetViewProperties(p1, W("w1"), [bg |-> "r2", style |-> {"s1"}]).p
      p3 == NewControl(p2, W("w1"), "c", TRUE).p
      p4 == SetControlProperties(p3, W("w1"), "c", [state |-> Ref("k", "s"), window |-> {"w2"}]).p
  IN  NewView(SetDefaultWindow(p4, "w1").p, T("t1")).p

MCSeeds == {Templated, Linked}

(* The server: the types; whatever is edited, imported and refreshed,      *)
(* nothing in the project names what is not there, what is deployed is     *)
(* valid, and the usages the browser shows are the impacts of the server   *)
(* (UiDesigner; studio services/project-manager/ui).                       *)
UiDesignSound == TypeOK /\ NoDanglingReference /\ ValidDeploys /\ UsageTellsImpact

(* The browser: once everything sent is applied it shows the server's      *)
(* project (UiDesigner; studio store/ui-designer).                         *)
UiDesignMirrored == TabMirrors
=============================================================================
