--------------------------- MODULE DeployService ---------------------------
(***************************************************************************)
(* The studio's deploy service: the recipes (a file collection), the pins  *)
(* (one file), the runs of recipes, the notifier of a browser, and the     *)
(* deploy store of that browser.                                           *)
(*                                                                         *)
(* A recipe is a sequence of enabled steps; a step is Task or the name of  *)
(* a recipe.  Files change behind the server (git, an editor) and are      *)
(* polled.  What the server sends is applied by the browser at once: the   *)
(* channel keeps the order.  A reducer that throws ends the browser's      *)
(* epics: it shows nothing new from then on (alive).                       *)
(***************************************************************************)
EXTENDS Naturals, Sequences, SequencesExt, FiniteSets, TLC

CONSTANTS
  Recipes,      \* recipe names
  Contents,     \* what a recipe may contain
  Stored,       \* recipe -> content: the files at the start
  MaxOps,       \* bound: calls, changes of the files behind the server, openings of the tab
                \* after the first
  MaxRuns,      \* bound: runs
  MaxStarts     \* bound: times the browser opens its deploy tab

VARIABLES
  disk, dirty, seen,    \* the recipe files, those touched since their last poll, those it saw
  items,                \* the collection
  pinFile, pinDirty,    \* the file of the pins, touched since its last poll
  pins,                 \* the pins in memory
  runs,                 \* run -> [recipe, status, err, logs]
  programs,             \* run -> what is left to execute
  timers,               \* runs whose deletion is scheduled
  server,               \* "open", "closing" (terminate waits for the runs) or "closed"
  notifier,             \* "none", "created" (its initial state is to come) or "on"
  br,                   \* the browser: [alive, recipes, runs]
  count, starts, ops,   \* runs created; bounds
  quirks                \* history: see BrowserAlive and Mirrored

collectionVars == <<disk, dirty, seen, items>>
pinVars == <<pinFile, pinDirty, pins>>
runVars == <<runs, programs, timers, count>>
viewVars == <<notifier, starts>>
vars == <<collectionVars, pinVars, runVars, viewVars, server, br, ops, quirks>>

Absent == <<"absent">>
Task == "task"
Drop(f, x) == [y \in DOMAIN f \ {x} |-> f[y]]
Put(f, x, y) == (x :> y) @@ f
NewBrowser == [alive |-> TRUE, recipes |-> <<>>, runs |-> <<>>]

Init ==
  /\ disk = [r \in Recipes |-> IF r \in DOMAIN Stored THEN Stored[r] ELSE Absent]
  /\ dirty = DOMAIN Stored /\ seen = {} /\ items = <<>>
  /\ pinFile \in SUBSET DOMAIN Stored /\ pinDirty = (pinFile # {}) /\ pins = {}
  /\ runs = <<>> /\ programs = <<>> /\ timers = {} /\ count = 0
  /\ server = "open" /\ notifier = "none" /\ starts = 0 /\ br = NewBrowser
  /\ ops = 0 /\ quirks = {}

Op == ops < MaxOps /\ ops' = ops + 1

(***************************************************************************)
(* The browser's reducer, on one notification.                             *)
(***************************************************************************)
RecipeSet(r) == [op |-> "recipe-set", id |-> r]
RecipePin(r, v) == [op |-> "recipe-pin", id |-> r, value |-> v]
RecipeClear(r) == [op |-> "recipe-clear", id |-> r]
RunSet(k, run) == [op |-> "run-set", id |-> k, run |-> run]
RunLog(k) == [op |-> "run-add-log", id |-> k]
RunClear(k) == [op |-> "run-clear", id |-> k]

Dead(b) == [b EXCEPT !.alive = FALSE]

\* recipe-set: no pinned info, keep the one shown.
ReduceRecipeForget(b, n, its) == [b EXCEPT !.recipes = Put(@, n.id, [content |-> its[n.id], pinned |-> FALSE])]
ReduceRecipe(b, n, its) ==
  [b EXCEPT !.recipes = Put(@, n.id, [content |-> its[n.id],
                                      pinned |-> n.id \in DOMAIN @ /\ @[n.id].pinned])]
\* run-set: merge the existing logs.
ReduceRun(b, n) ==
  [b EXCEPT !.runs = Put(@, n.id, [n.run EXCEPT !.logs = IF n.id \in DOMAIN b.runs
                                                         THEN b.runs[n.id].logs ELSE 0])]

Reduce(b, n, its) ==
  CASE ~b.alive -> b
    [] n.op = "recipe-set" -> ReduceRecipe(b, n, its)
    [] n.op = "recipe-clear" -> [b EXCEPT !.recipes = Drop(@, n.id)]
    [] n.op = "recipe-pin" -> IF n.id \in DOMAIN b.recipes
                              THEN [b EXCEPT !.recipes[n.id].pinned = n.value] ELSE Dead(b)
    [] n.op = "run-set" -> ReduceRun(b, n)
    [] n.op = "run-add-log" -> IF n.id \in DOMAIN b.runs
                               THEN [b EXCEPT !.runs[n.id].logs = @ + 1] ELSE Dead(b)
    [] n.op = "run-clear" -> [b EXCEPT !.runs = Drop(@, n.id)]

\* What the deploy store does not cope with: a log or a pin that overtakes the
\* initial state, and a pin that comes before its recipe.
Early(notes) ==
  notifier = "created" /\ \E k \in DOMAIN notes : notes[k].op \in {"recipe-pin", "run-add-log"}
Orphan(notes) ==
  notifier # "none" /\ \E k \in DOMAIN notes :
    \/ notes[k].op = "recipe-pin" /\ notes[k].id \notin DOMAIN items
    \/ notes[k].op = "recipe-set" /\ notes[k].id \in pins \ DOMAIN items

\* SessionNotifierManager.notifyAll, once the collection holds its.
Notify(notes, its) ==
  /\ br' = IF notifier = "none" THEN br
           ELSE FoldLeft(LAMBDA b, n : Reduce(b, n, its), br, notes)
  /\ quirks' = quirks \cup {q \in {"early", "orphan"} : \/ q = "early" /\ Early(notes)
                                                        \/ q = "orphan" /\ Orphan(notes)}

(***************************************************************************)
(* Pins.pin; handleRecipeClear removes the pin of a deleted recipe before  *)
(* the browser hears of the deletion.                                      *)
(***************************************************************************)
Pin(r, value) ==
  IF (r \in pins) = value THEN UNCHANGED pinVars
  ELSE /\ pins' = IF value THEN pins \cup {r} ELSE pins \ {r}
       /\ pinFile' = pins' /\ pinDirty' = TRUE

Cleared(r) == (IF r \in pins THEN <<RecipePin(r, FALSE)>> ELSE <<>>) \o <<RecipeClear(r)>>

(***************************************************************************)
(* The handlers of the service.                                            *)
(***************************************************************************)
setRecipe(r, c) ==
  /\ Op /\ server # "closed"
  /\ disk' = [disk EXCEPT ![r] = c] /\ dirty' = dirty \cup {r}
  /\ items' = Put(items, r, c)
  /\ Notify(<<RecipeSet(r)>>, items')
  /\ UNCHANGED <<seen, pinVars, runVars, viewVars, server>>

\* The order of the notifications: the pin first, the recipe after.
deleteRecipe(r) ==
  /\ Op /\ server # "closed" /\ r \in DOMAIN items /\ disk[r] # Absent
  /\ disk' = [disk EXCEPT ![r] = Absent] /\ dirty' = dirty \cup {r}
  /\ items' = Drop(items, r)
  /\ Pin(r, FALSE)
  /\ Notify(Cleared(r), items')
  /\ UNCHANGED <<seen, runVars, viewVars, server>>

pinRecipe(r, value) ==
  /\ Op /\ server # "closed" /\ (r \in pins) # value
  /\ Pin(r, value)
  /\ Notify(<<RecipePin(r, value)>>, items)
  /\ UNCHANGED <<collectionVars, runVars, viewVars, server>>

(***************************************************************************)
(* What the watchers find.  handleDelete has no return: it reports an item *)
(* that is gone already once more.                                         *)
(***************************************************************************)
ChangeRecipe(r, c) ==
  /\ Op /\ disk[r] # c
  /\ disk' = [disk EXCEPT ![r] = c] /\ dirty' = dirty \cup {r}
  /\ quirks' = quirks \cup {q \in {"unseen"} : c = Absent /\ r \in DOMAIN items \ seen}
  /\ UNCHANGED <<seen, items, pinVars, runVars, viewVars, server, br>>

handleSet(r) ==
  /\ items' = Put(items, r, disk[r])
  /\ Notify(IF r \in DOMAIN items /\ items[r] = disk[r] THEN <<>> ELSE <<RecipeSet(r)>>, items')
  /\ UNCHANGED pinVars

handleDelete(r) ==
  /\ items' = Drop(items, r)
  /\ Pin(r, FALSE)
  /\ Notify(Cleared(r), items')

PollRecipe(r) ==
  /\ server = "open" /\ r \in dirty
  /\ dirty' = dirty \ {r}
  /\ seen' = IF disk[r] = Absent THEN seen \ {r} ELSE seen \cup {r}
  /\ \/ disk[r] # Absent /\ handleSet(r)
     \/ disk[r] = Absent /\ r \in seen /\ handleDelete(r)
     \/ disk[r] = Absent /\ r \notin seen /\ UNCHANGED <<items, pinVars, br, quirks>>
  /\ UNCHANGED <<disk, runVars, viewVars, server, ops>>

ChangePins(S) ==
  /\ Op /\ pinFile # S
  /\ pinFile' = S /\ pinDirty' = TRUE
  /\ UNCHANGED <<collectionVars, pins, runVars, viewVars, server, br, quirks>>

\* Pins.handleNewContent.
Each(S, N(_)) == LET s == SetToSeq(S) IN [k \in DOMAIN s |-> N(s[k])]

PollPins ==
  /\ server = "open" /\ pinDirty
  /\ pinDirty' = FALSE /\ pins' = pinFile
  /\ Notify(Each(pins \ pinFile, LAMBDA r : RecipePin(r, FALSE))
              \o Each(pinFile \ pins, LAMBDA r : RecipePin(r, TRUE)), items)
  /\ UNCHANGED <<collectionVars, pinFile, runVars, viewVars, server, ops>>

(***************************************************************************)
(* Runs.  A run executes the recipe as its files are when it starts, the   *)
(* recipes it includes in place; a missing or endless inclusion is an      *)
(* error of the run.                                                       *)
(***************************************************************************)
Failure == <<"error">>

RECURSIVE Flatten(_, _)
Flatten(r, depth) ==
  IF depth > Cardinality(Recipes) \/ disk[r] = Absent THEN Failure
  ELSE LET Step(acc, s) == LET more == IF s = Task THEN <<Task>> ELSE Flatten(s, depth + 1)
                           IN  IF Failure \in {acc, more} THEN Failure ELSE acc \o more
           steps == FoldLeft(Step, <<>>, disk[r])
       IN  IF steps = Failure THEN Failure ELSE <<"begin">> \o steps \o <<"end">>

Program(r) == Flatten(r, 1)

\* The end of runRecipe: status, notification, deletion timer.
Ended(k, err, rs) ==
  /\ runs' = [rs EXCEPT ![k].status = "ended", ![k].err = err]
  /\ programs' = Drop(programs, k)
  /\ timers' = timers \cup {k}

\* The Promise of terminate resolves with the last end.
Finish(open) ==
  server' = IF server = "closing" /\ open = {} THEN "closed" ELSE server

startRecipe(r) ==
  /\ Op /\ server = "open" /\ count < MaxRuns
  /\ count' = count + 1
  /\ LET k == count + 1
         new == [recipe |-> r, status |-> "created", err |-> FALSE, logs |-> 0]
         begun == [new EXCEPT !.status = "running"]
     IN  \/ /\ Program(r) = Failure
            /\ Ended(k, TRUE, Put(runs, k, begun))
            /\ Notify(<<RunSet(k, new), RunSet(k, begun), RunSet(k, runs'[k])>>, items)
         \/ /\ Program(r) # Failure
            /\ runs' = Put(runs, k, [begun EXCEPT !.logs = 1])
            /\ programs' = Put(programs, k, Tail(Program(r)))
            /\ Notify(<<RunSet(k, new), RunSet(k, begun), RunLog(k)>>, items)
            /\ UNCHANGED timers
  /\ UNCHANGED <<collectionVars, pinVars, viewVars, server>>

\* Every step logs; a task may throw, which ends the run, as does its last step.
ExecuteStep(k, throws) ==
  /\ server # "closed" /\ k \in DOMAIN programs
  /\ throws => Head(programs[k]) = Task
  /\ LET logged == [runs EXCEPT ![k].logs = @ + 1]
         last == throws \/ Len(programs[k]) = 1
     IN  \/ /\ ~last
            /\ runs' = logged
            /\ programs' = [programs EXCEPT ![k] = Tail(@)]
            /\ Notify(<<RunLog(k)>>, items)
            /\ UNCHANGED <<timers, server>>
         \/ /\ last
            /\ Ended(k, throws, logged)
            /\ Notify(<<RunLog(k), RunSet(k, runs'[k])>>, items)
            /\ Finish(DOMAIN programs \ {k})
  /\ UNCHANGED <<collectionVars, pinVars, count, viewVars, ops>>

DeleteTimeout(k) ==
  /\ server # "closed" /\ k \in timers
  /\ timers' = timers \ {k}
  /\ Notify(<<RunClear(k)>>, items)
  /\ runs' = Drop(runs, k)
  /\ UNCHANGED <<collectionVars, pinVars, programs, count, viewVars, server, ops>>

\* Runs.terminate, after the watchers are closed: waits for the running ones.
terminate ==
  /\ server = "open"
  /\ server' = IF DOMAIN programs = {} THEN "closed" ELSE "closing"
  /\ UNCHANGED <<collectionVars, pinVars, runVars, viewVars, br, ops, quirks>>

(***************************************************************************)
(* The notifier of the browser's deploy tabs.  The initial state is sent   *)
(* in a setImmediate.                                                      *)
(***************************************************************************)
startNotify ==
  /\ server # "closed" /\ notifier = "none" /\ starts < MaxStarts /\ br.alive
  /\ notifier' = "created" /\ starts' = starts + 1
  /\ \/ starts = 0 /\ UNCHANGED ops
     \/ starts > 0 /\ Op
  /\ UNCHANGED <<collectionVars, pinVars, runVars, server, br, quirks>>

emitRecipes ==
  Each(DOMAIN items, RecipeSet)
    \o Each(DOMAIN items \cap pins, LAMBDA r : RecipePin(r, TRUE))

emitRuns ==
  FlattenSeq(Each(DOMAIN runs, LAMBDA k : <<RunSet(k, runs[k])>>
                                            \o [j \in 1..runs[k].logs |-> RunLog(k)]))

InitialState ==
  /\ notifier = "created"
  /\ notifier' = "on"
  /\ br' = FoldLeft(LAMBDA b, n : Reduce(b, n, items), br, emitRecipes \o emitRuns)
  /\ UNCHANGED <<collectionVars, pinVars, runVars, starts, server, ops, quirks>>

\* The last deploy tab is closed: CLEAR_NOTIFICATION.
stopNotify ==
  /\ notifier = "on" /\ br.alive
  /\ notifier' = "none" /\ br' = NewBrowser
  /\ quirks' = quirks \ {"early", "orphan"}
  /\ UNCHANGED <<collectionVars, pinVars, runVars, starts, server, ops>>

Next ==
  \/ \E r \in Recipes :
       \/ \E c \in Contents : setRecipe(r, c) \/ ChangeRecipe(r, c)
       \/ deleteRecipe(r) \/ ChangeRecipe(r, Absent) \/ PollRecipe(r) \/ startRecipe(r)
       \/ \E v \in BOOLEAN : pinRecipe(r, v)
  \/ \E S \in SUBSET Recipes : ChangePins(S)
  \/ PollPins
  \/ \E k \in 1..MaxRuns : DeleteTimeout(k) \/ \E throws \in BOOLEAN : ExecuteStep(k, throws)
  \/ terminate
  \/ startNotify \/ InitialState \/ stopNotify

Spec == Init /\ [][Next]_vars

-----------------------------------------------------------------------------
TypeOK ==
  /\ disk \in [Recipes -> Contents \cup {Absent}]
  /\ dirty \subseteq Recipes /\ seen \subseteq Recipes /\ DOMAIN items \subseteq Recipes
  /\ pins \subseteq Recipes /\ pinFile \subseteq Recipes /\ pinDirty \in BOOLEAN
  /\ DOMAIN programs \subseteq DOMAIN runs /\ timers \subseteq DOMAIN runs
  /\ \A k \in DOMAIN runs : runs[k].status \in {"running", "ended"}
  /\ server \in {"open", "closing", "closed"} /\ notifier \in {"none", "created", "on"}

\* The deploy store never receives a pin or a log of something it does not know
\* (its reducer would throw and end the browser's epics), unless the update
\* overtook the initial state (index.ts:118) or a pin came before its recipe.
BrowserAlive == br.alive \/ quirks \cap {"early", "orphan"} # {}

\* Under the same conditions the tables of the browser are the collections of
\* the server: every recipe with its content and its pin, every run with its
\* status and each of its logs once, whoever changed them.
DeployMirrored ==
  notifier = "on" /\ quirks \cap {"early", "orphan"} = {} /\ server # "closed" =>
    /\ br.recipes = [r \in DOMAIN items |-> [content |-> items[r], pinned |-> r \in pins]]
    /\ br.runs = runs

\* Once everything touched is polled, memory and files agree, whatever the
\* handlers and the changes behind the server made of both in the meantime;
\* but a recipe that is written by the server and removed behind it before the
\* watcher saw it stays in memory (fs-collection.ts:61).
CollectionSettled ==
  /\ dirty = {} /\ "unseen" \notin quirks => items = [r \in {x \in Recipes : disk[x] # Absent} |-> disk[r]]
  /\ ~pinDirty => pins = pinFile

\* The service closes on no running recipe, and every run that ended is on its
\* way out: its deletion is scheduled or the service is closed.
RunsAccounted ==
  /\ server = "closed" => DOMAIN programs = {}
  /\ \A k \in DOMAIN runs : (k \in DOMAIN programs) # (k \in timers)
=============================================================================
