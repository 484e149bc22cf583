--------------------------- MODULE MCCoreDesigner ---------------------------
(***************************************************************************)
(* The designer of core projects, and the imports into one.  One of them   *)
(* moves in a behaviour (focus), the other stays in an initial state.      *)
(*                                                                         *)
(* The designer: two plugins on two instances, and two projects users      *)
(* could have built: one with a template that exports a config item and a  *)
(* member and is used by a bound component of the project, one with two    *)
(* unused templates.                                                       *)
(***************************************************************************)
EXTENDS CoreDesigner

MCPlugins == {"g1", "g2"}
MCInstanceOf == [g1 |-> "i1", g2 |-> "i2"]
State(t) == [kind |-> "state", type |-> t]
Action(t) == [kind |-> "action", type |-> t]
MCCatalog ==
  [g1 |-> [version |-> 1, config |-> [k |-> "int"], members |-> [s |-> State("bool")]],
   g2 |-> [version |-> 1, config |-> <<>>, members |-> [a |-> Action("bool")]]]
MCConfigValues == [int |-> {0, 1}]

MCTemplateIds == {"t1", "t2"}
MCTemplateOrder == <<"t1", "t2">>
MCNewIds == {<<"n">>, <<"a", "x">>}
MCExportIds == {"e", "f"}

Bare == [NewProject EXCEPT !.plugins = [g \in MCPlugins |-> [disp |-> "show", data |-> g]],
                           !.usage = [g \in MCPlugins |-> <<>>]]
Wire(src, st, dst, ac) == [src |-> src, st |-> st, dst |-> dst, ac |-> ac]

Templated ==
  LET p1 == SetTemplate(Bare, "t1").p
      p2 == SetComponent(p1, "t1", <<"#", "x">>, "g1").p
      p3 == SetConfigExport(p2, "t1", "e", <<"#", "x">>, "k").p
      p4 == SetMemberExport(p3, "t1", "e", <<"#", "x">>, "s").p
      p5 == SetComponent(p4, Root, <<"a">>, "t1").p
      p6 == SetComponent(p5, Root, <<"b">>, "g2").p
  IN  SetBinding(p6, Root, Wire(<<"a">>, "e", <<"b">>, "a")).p

Plain ==
  LET p1 == SetTemplate(SetTemplate(Bare, "t1").p, "t2").p
      p2 == SetComponent(p1, Root, <<"a">>, "g1").p
      p3 == SetComponent(p2, "t2", <<"#", "x">>, "g2").p
  IN  SetComponent(p3, Root, <<"b">>, "g2").p

MCSeeds == {Templated, Plain}

(***************************************************************************)
(* The imports: the plugins in two versions each.  Version 2 of g1 changes *)
(* the type of a config item, adds one and drops one, renames a state and  *)
(* changes the type of another; version 2 of g2 follows.                   *)
(***************************************************************************)
Versions ==
  [g1a |-> [version |-> 1, config |-> [k |-> "int", l |-> "int"],
            members |-> [s |-> State("bool"), r |-> State("bool")]],
   g1b |-> [version |-> 2, config |-> [k |-> "text", m |-> "int"], members |-> [s |-> State("num")]],
   g2a |-> [version |-> 1, config |-> <<>>, members |-> [a |-> Action("bool")]],
   g2b |-> [version |-> 2, config |-> [k |-> "int"], members |-> [a |-> Action("bool")]]]
VersionValues == [int |-> {0, 1}, text |-> {10}]
M == INSTANCE CoreModel WITH Catalog <- Versions, ConfigValues <- VersionValues

With(data) ==
  [NewProject EXCEPT !.plugins = [g \in DOMAIN data |-> [disp |-> "show", data |-> data[g]]],
                     !.usage = [g \in DOMAIN data |-> <<>>]]

\* A template in a template, exporting a config item and two members.
Nested ==
  LET x  == <<"#", "x">>
      p1 == M!SetTemplate(M!SetTemplate(With([g1 |-> "g1a", g2 |-> "g2a"]), "t1").p, "t2").p
      p2 == M!ConfigureComponent(M!SetComponent(p1, "t1", x, "g1").p, "t1", x, "l", 1).p
      p3 == M!SetConfigExport(p2, "t1", "e", x, "k").p
      p4 == M!SetMemberExport(M!SetMemberExport(p3, "t1", "e", x, "s").p, "t1", "f", x, "r").p
      p5 == M!SetComponent(p4, "t2", <<"#", "y">>, "t1").p
      p6 == M!SetMemberExport(p5, "t2", "e", <<"#", "y">>, "f").p
      p7 == M!SetConfigExport(p6, "t2", "e", <<"#", "y">>, "e").p
      p8 == M!SetComponent(M!SetComponent(p7, Root, <<"a">>, "t2").p, Root, <<"b">>, "g2").p
      p9 == M!SetBinding(p8, Root, Wire(<<"a">>, "e", <<"b">>, "a")).p
  IN  M!ConfigureComponent(p9, Root, <<"a">>, "e", 1).p

\* Two bound components and an external one, imported earlier.
Flat ==
  LET p1 == M!SetComponent(With([g1 |-> "g1a", g2 |-> "g2a"]), Root, <<"a">>, "g1").p
      p2 == M!SetComponent(p1, Root, <<"b">>, "g2").p
      p3 == M!RegisterComponent(M!ConfigureComponent(p2, Root, <<"a">>, "k", 1).p, Root, <<"o">>,
              [def |-> "g2", data |-> "g2", pos |-> 1, ext |-> TRUE, cfg |-> <<>>])
      p4 == M!SetBinding(p3, Root, Wire(<<"a">>, "s", <<"b">>, "a")).p
  IN  M!SetBinding(p4, Root, Wire(<<"a">>, "r", <<"b">>, "a")).p

\* What is imported: newer plugins, one plugin only, a component named like an
\* instantiated one, a component that is now on the other instance.
Newer ==
  LET p == M!SetComponent(With([g1 |-> "g1b", g2 |-> "g2b"]), Root, <<"a">>, "g1").p
  IN  M!SetComponent(p, Root, <<"c">>, "g1").p
Partial == M!SetComponent(With([g1 |-> "g1a"]), Root, <<"a", "x">>, "g1").p
Moved ==
  LET p == M!SetComponent(With([g1 |-> "g1a", g2 |-> "g2a"]), Root, <<"b">>, "g1").p
  IN  M!SetComponent(p, Root, <<"c">>, "g2").p
Online1 == [plugins |-> [g1 |-> "g1a", g2 |-> "g2b"], comps |-> (<<"b">> :> "g2") @@ (<<"d">> :> "g1")]
Online2 == [plugins |-> [g1 |-> "g1b", g2 |-> "g2a"], comps |-> (<<"a">> :> "g1")]

VARIABLES focus, importProj, importSaved, importTab, importPlan, importLast, importCalls, importQuirks

I == INSTANCE CoreImport WITH
       Catalog <- Versions, ConfigValues <- VersionValues,
       Seeds <- {Nested, Flat}, Sources <- {Newer, Partial, Moved}, Onlines <- {Online1, Online2},
       NewIds <- {<<"n">>}, MaxCalls <- 2,
       proj <- importProj, saved <- importSaved, tab <- importTab, plan <- importPlan,
       last <- importLast, calls <- importCalls, quirks <- importQuirks

importVars == <<importProj, importSaved, importTab, importPlan, importLast, importCalls, importQuirks>>

MCInit ==
  /\ focus \in {"designer", "import"} /\ Init /\ I!Init
  /\ focus # "designer" => proj = Plain
  /\ focus # "import" => importProj = Flat

MCNext ==
  \/ focus = "designer" /\ Next /\ UNCHANGED <<focus, importVars>>
  \/ focus = "import" /\ I!Next /\ UNCHANGED <<focus, vars>>

MCSpec == MCInit /\ [][MCNext]_<<focus, vars, importVars>>

-----------------------------------------------------------------------------
(* The types; the file can be loaded again; no two templates contain each  *)
(* other, the templates the project uses nest without a circle, and every  *)
(* reference of the project resolves, whatever the order of the edits (the *)
(* exceptions are said at CoreDesigner's operators; opened-project.ts and  *)
(* model/ of the studio's services/project-manager/core).                  *)
DesignSound ==
  focus = "designer" => TypeOK /\ StoredLoadable /\ NestingWellFounded /\ Resolvable

(* Once every notification is applied the browser's tables are those of    *)
(* the project and every component names the template it is in, unless a   *)
(* template that has components was renamed; its reducers did not throw,   *)
(* and its selection exists (store/core-designer/reducer.ts of the studio  *)
(* ui, which keeps a renamed template's components under the old name).    *)
DesignMirrored ==
  focus = "designer" => BrowserAlive /\ BrowserMirrors /\ OwnersShown /\ SelectionExists

(* Imports: the types; a plan that is still the one the project calls for  *)
(* is carried out to its end, leaves a sound project and brings what was   *)
(* imported; any plan, stale ones included, changes only what it announced *)
(* and is mirrored by the browser (core/import/ and                        *)
(* core/opened-project.ts of the studio's services/project-manager; the    *)
(* exceptions are said at CoreImport's operators).                         *)
ImportSound ==
  focus = "import" =>
    I!TypeOK /\ I!ImportCompletes /\ I!ImportSound /\ I!ImportConverges
    /\ I!OnlyAnnounced /\ I!ImportMirrored
=============================================================================
