----------------------------- MODULE CoreStore -----------------------------
(***************************************************************************)
(* The store of an instance on its file, mylife-home-core src/store: what  *)
(* save() and load() of Store make of the file of FsStoreOperations or     *)
(* MountedFsStoreOperations, the latter on a file system mounted read-only *)
(* and remounted for the time of a write.                                  *)
(*                                                                         *)
(* A save takes the items when it is called; the remounts and the write,   *)
(* which empties the file first, take their time; a second save may be     *)
(* called meanwhile, and the process may die at any step.  The content of  *)
(* the store is a version, the number of its changes.                      *)
(***************************************************************************)
EXTENDS Naturals, FiniteSets, TLAPS

CONSTANTS
  Mounted,          \* BOOLEAN: mounted-fs
  MaxChanges,       \* bound: changes of the store
  MaxSaves,         \* bound: calls of save
  MaxFailures       \* bound: commands and writes that fail
CONSTANT MaxLives   \* bound: lives of the process

VARIABLES
  alive, items,     \* the process, and what its store holds
  saves,            \* save -> [items, step, ok]
  file,             \* a version, or Torn
  writable,         \* the mount
  changes, failures, lives,
  last,             \* history: the items of the last save that the caller saw succeed
  quirks            \* history: see SavedIsLoaded

vars == <<alive, items, saves, file, writable, changes, failures, lives, last, quirks>>

Torn == MaxChanges + 1
Ids == 1..MaxSaves
Free == [items |-> 0, step |-> "free"]
Open == {s \in Ids : saves[s].step \notin {"free", "done", "failed"}}

Init ==
  /\ alive = TRUE /\ items = 0 /\ saves = [s \in Ids |-> Free] /\ file = 0 /\ writable = ~Mounted
  /\ changes = 0 /\ failures = 0 /\ lives = 1 /\ last = 0 /\ quirks = {}

Change ==
  /\ alive /\ changes < MaxChanges /\ changes' = changes + 1 /\ items' = changes'
  /\ UNCHANGED <<alive, saves, file, writable, failures, lives, last, quirks>>

To(s, step) == saves' = [saves EXCEPT ![s].step = step]

save ==
  /\ alive
  /\ \E s \in Ids :
       /\ saves[s] = Free /\ (\A t \in Ids : t < s => saves[t] # Free)
       /\ saves' = [saves EXCEPT ![s] = [items |-> items, step |-> IF Mounted THEN "remountRw" ELSE "truncate"]]
  /\ quirks' = IF Open = {} THEN quirks ELSE quirks \cup {"overlap"}
  /\ UNCHANGED <<alive, items, file, writable, changes, failures, lives, last>>

Fail == failures < MaxFailures /\ failures' = failures + 1

\* exec of a mount command: it does what it says, or fails
exec(step, rw, next) ==
  \E s \in Open :
    /\ saves[s].step = step
    /\ \/ writable' = rw /\ To(s, next) /\ UNCHANGED failures
       \/ Fail /\ To(s, "failed") /\ UNCHANGED writable
remountRw == exec("remountRw", TRUE, "truncate")  /\ UNCHANGED <<alive, items, file, changes, lives, last, quirks>>

\* fs.writeFile: it opens the file, which empties it, and fails on a read-only file system
After(s, ok) == IF ~Mounted THEN (IF ok THEN "done" ELSE "failed") ELSE IF ok THEN "remountRo" ELSE "remountRoFailed"
truncate ==
  /\ \E s \in Open :
       /\ saves[s].step = "truncate"
       /\ IF writable THEN file' = Torn /\ To(s, "write") ELSE To(s, After(s, FALSE)) /\ UNCHANGED file
  /\ UNCHANGED <<alive, items, writable, changes, failures, lives, last, quirks>>
write ==
  /\ \E s \in Open :
       /\ saves[s].step = "write"
       /\ \/ file' = saves[s].items /\ To(s, After(s, TRUE)) /\ UNCHANGED <<failures, quirks>>
             /\ last' = IF Mounted THEN last ELSE saves[s].items
          \/ Fail /\ To(s, After(s, FALSE)) /\ UNCHANGED <<file, last>> /\ quirks' = quirks \cup {"torn"}
  /\ UNCHANGED <<alive, items, writable, changes, lives>>

\* the finally: after a write that failed the save fails in any case
remountRoSkipped ==
  /\ \/ \E s \in Open : saves[s].step = "remountRo" /\ To(s, "done") /\ last' = saves[s].items
     \/ \E s \in Open : saves[s].step = "remountRoFailed" /\ To(s, "failed") /\ UNCHANGED last
  /\ UNCHANGED <<alive, items, file, writable, failures, changes, lives, quirks>>
remountRo ==
  /\ \E s \in Open :
       /\ saves[s].step \in {"remountRo", "remountRoFailed"}
       /\ \/ /\ writable' = FALSE /\ UNCHANGED failures
             /\ To(s, IF saves[s].step = "remountRo" THEN "done" ELSE "failed")
             /\ last' = IF saves[s].step = "remountRo" THEN saves[s].items ELSE last
             /\ UNCHANGED quirks
          \/ /\ Fail /\ To(s, "failed") /\ UNCHANGED <<writable, last>> /\ quirks' = quirks \cup {"unlocked"}
  /\ UNCHANGED <<alive, items, file, changes, lives>>

\* the process dies: a write that has begun leaves the file empty or in part
Crash ==
  /\ alive /\ alive' = FALSE /\ saves' = [s \in Ids |-> IF s \in Open THEN [saves[s] EXCEPT !.step = "failed"] ELSE saves[s]]
  /\ quirks' = quirks \cup {q \in {"torn", "unlocked"} :
                              IF q = "torn" THEN \E s \in Open : saves[s].step = "write" ELSE Mounted /\ writable}
  /\ UNCHANGED <<items, file, writable, changes, failures, lives, last>>

\* Store.load: a file that is not whole does not parse, and the process does not start
load ==
  /\ ~alive /\ lives < MaxLives /\ file # Torn /\ lives' = lives + 1 /\ alive' = TRUE /\ items' = file
  /\ UNCHANGED <<saves, file, writable, changes, failures, last, quirks>>

Next == Change \/ save \/ remountRw \/ truncate \/ write \/ remountRo \/ Crash \/ load

Spec == Init /\ [][Next]_vars

TypeOK ==
  /\ items \in 0..MaxChanges /\ file \in 0..Torn /\ (\A s \in Ids : saves[s].items \in 0..MaxChanges)
  /\ quirks \subseteq {"overlap", "torn", "unlocked"}

\* What was saved is what is loaded: while no save is in progress the file is whole and holds the
\* last save that succeeded or a later one, and a mounted file system is read-only again, whatever
\* command failed and wherever the process died in between; unless two saves overlapped, a write
\* was cut short, or the last remount did not happen.
SavedIsLoaded ==
  Open = {} =>
    /\ quirks \cap {"overlap", "torn"} = {} => file # Torn /\ file >= last
    /\ Mounted /\ quirks \cap {"overlap", "unlocked"} = {} => ~writable

-----------------------------------------------------------------------------
(* The proof that SavedIsLoaded holds for any number of changes, saves,    *)
(* failures and lives, mounted or not.                                     *)

Versions == 0..MaxChanges
Steps == {"free", "remountRw", "truncate", "write", "remountRo", "remountRoFailed", "done", "failed"}

Typed ==
  /\ alive \in BOOLEAN /\ writable \in BOOLEAN
  /\ changes \in Versions /\ items \in 0..changes /\ last \in Versions
  /\ file \in 0..changes \cup {Torn}
  /\ saves \in [Ids -> [items : Versions, step : Steps]]
  /\ \A s \in Ids : saves[s].items <= changes
  /\ quirks \subseteq {"overlap", "torn", "unlocked"}

\* Without overlap one save is in progress at most, of a process that is alive.
OneSave ==
  /\ "overlap" \notin quirks => \A s, t \in Open : s = t
  /\ ~alive => Open = {}

\* The file is whole but while a save rewrites it.  A save carries items that are not older than
\* the last ones saved, and what the process holds is not older than either.
FileFollows ==
  quirks \cap {"overlap", "torn"} = {} =>
    /\ (\A s \in Open : saves[s].step # "write") => file # Torn /\ file >= last
    /\ alive => items >= last
    /\ \A s \in Open : /\ saves[s].items >= last /\ items >= saves[s].items
                       /\ saves[s].step = "remountRo" => file = saves[s].items

\* A mounted file system is writable only on behalf of a save that will remount it.
MountFollows ==
  Mounted /\ quirks \cap {"overlap", "unlocked"} = {} /\ writable =>
    \E s \in Open : saves[s].step # "remountRw"

SavesInv == Typed /\ OneSave /\ FileFollows /\ MountFollows

Bounded == MaxChanges \in Nat /\ MaxSaves \in Nat /\ Mounted \in BOOLEAN

\* A save moves to its next step, with its items.
LEMMA ToStep ==
  ASSUME Typed, NEW s \in Open, NEW x \in Steps, To(s, x)
  PROVE  /\ s \in Ids
         /\ saves' \in [Ids -> [items : Versions, step : Steps]]
         /\ \A t \in Ids : /\ saves'[t].items = saves[t].items
                           /\ saves'[t].step = IF t = s THEN x ELSE saves[t].step
         /\ Open' = IF x \in {"free", "done", "failed"} THEN Open \ {s} ELSE Open
BY DEF Typed, To, Open

LEMMA InitSaves == ASSUME Bounded, Init PROVE SavesInv
<1> USE DEF Bounded, Init
<1>1. Typed
  BY DEF Typed, Free, Versions, Steps, Torn
<1>2. Open = {}
  BY DEF Open, Free
<1>3. OneSave /\ MountFollows
  BY <1>2 DEF OneSave, MountFollows
<1>4. FileFollows
  BY <1>2 DEF FileFollows, Torn
<1> QED BY <1>1, <1>3, <1>4 DEF SavesInv

LEMMA ChangeSaves == ASSUME Bounded, SavesInv, Change PROVE SavesInv'
<1> USE DEF Bounded, SavesInv, Change, Versions, Torn
<1>1. Typed'
  BY DEF Typed
<1>2. items' >= items /\ Open' = Open
  BY DEF Typed, Open
<1>3. OneSave' /\ MountFollows'
  BY <1>2 DEF OneSave, MountFollows
<1>4. FileFollows'
  BY <1>2 DEF FileFollows, Typed, Open
<1> QED BY <1>1, <1>3, <1>4

LEMMA SaveSaves == ASSUME Bounded, SavesInv, save PROVE SavesInv'
<1> USE DEF Bounded, SavesInv, Versions, Torn
<1>1. PICK s \in Ids :
        /\ saves[s] = Free
        /\ saves' = [saves EXCEPT ![s] = [items |-> items,
                                          step |-> IF Mounted THEN "remountRw" ELSE "truncate"]]
  BY DEF save
<1>2. /\ alive /\ quirks' = IF Open = {} THEN quirks ELSE quirks \cup {"overlap"}
      /\ UNCHANGED <<alive, items, file, writable, changes, failures, lives, last>>
  BY DEF save
<1>3. s \notin Open /\ Open' = Open \cup {s}
  BY <1>1 DEF Open, Free, Typed
<1>4. Typed'
  BY <1>1, <1>2 DEF Typed, Steps
<1>5. OneSave'
  BY <1>2, <1>3 DEF OneSave, Typed
<1>6. FileFollows'
  BY <1>1, <1>2, <1>3 DEF FileFollows, Typed, Open
<1>7. MountFollows'
  BY <1>1, <1>2, <1>3 DEF MountFollows, Typed, Open
<1> QED BY <1>4, <1>5, <1>6, <1>7

LEMMA RemountRwSaves == ASSUME Bounded, SavesInv, remountRw PROVE SavesInv'
<1> USE DEF Bounded, SavesInv, Versions, Torn
<1>1. PICK s \in Open :
        /\ saves[s].step = "remountRw"
        /\ \/ writable' = TRUE /\ To(s, "truncate")
           \/ To(s, "failed") /\ UNCHANGED writable
  BY DEF remountRw, exec
<1>2. UNCHANGED <<alive, items, file, changes, lives, last, quirks>>
  BY DEF remountRw
<1>3. PICK x \in {"truncate", "failed"} : /\ To(s, x)
                                          /\ x = "truncate" => writable' = TRUE
                                          /\ x = "failed" => writable' = writable
  BY <1>1
<1>4. /\ s \in Ids /\ saves' \in [Ids -> [items : Versions, step : Steps]]
      /\ \A t \in Ids : /\ saves'[t].items = saves[t].items
                        /\ saves'[t].step = IF t = s THEN x ELSE saves[t].step
      /\ Open' = IF x = "failed" THEN Open \ {s} ELSE Open
  BY <1>3, ToStep DEF Steps
<1>5. Typed'
  BY <1>1, <1>2, <1>4 DEF Typed
<1>6. OneSave'
  BY <1>2, <1>4 DEF OneSave
<1>7. FileFollows'
  BY <1>1, <1>2, <1>3, <1>4 DEF FileFollows, OneSave, Open
<1>8. MountFollows'
  BY <1>1, <1>2, <1>3, <1>4 DEF MountFollows, OneSave, Open
<1> QED BY <1>5, <1>6, <1>7, <1>8

LEMMA TruncateSaves == ASSUME Bounded, SavesInv, truncate PROVE SavesInv'
<1> USE DEF Bounded, SavesInv, Versions, Torn
<1>1. PICK s \in Open :
        /\ saves[s].step = "truncate"
        /\ IF writable THEN file' = Torn /\ To(s, "write")
           ELSE To(s, After(s, FALSE)) /\ UNCHANGED file
  BY DEF truncate
<1>2. UNCHANGED <<alive, items, writable, changes, failures, lives, last, quirks>>
  BY DEF truncate
<1>3. PICK x \in {"write", "failed", "remountRoFailed"} :
        /\ To(s, x)
        /\ x = "write" => writable /\ file' = Torn
        /\ x # "write" => ~writable /\ file' = file
  BY <1>1 DEF After
<1>4. /\ s \in Ids /\ saves' \in [Ids -> [items : Versions, step : Steps]]
      /\ \A t \in Ids : /\ saves'[t].items = saves[t].items
                        /\ saves'[t].step = IF t = s THEN x ELSE saves[t].step
      /\ Open' = IF x = "failed" THEN Open \ {s} ELSE Open
  BY <1>3, ToStep DEF Steps
<1>5. Typed'
  BY <1>2, <1>3, <1>4 DEF Typed
<1>6. OneSave'
  BY <1>2, <1>4 DEF OneSave
<1>7. FileFollows'
  BY <1>1, <1>2, <1>3, <1>4 DEF FileFollows, OneSave, Open
<1>8. MountFollows'
  BY <1>1, <1>2, <1>3, <1>4 DEF MountFollows, Open
<1> QED BY <1>5, <1>6, <1>7, <1>8

LEMMA WriteSaves == ASSUME Bounded, SavesInv, write PROVE SavesInv'
<1> USE DEF Bounded, SavesInv, Versions, Torn
<1>1. PICK s \in Open :
        /\ saves[s].step = "write"
        /\ \/ /\ file' = saves[s].items /\ To(s, After(s, TRUE)) /\ UNCHANGED quirks
              /\ last' = IF Mounted THEN last ELSE saves[s].items
           \/ /\ To(s, After(s, FALSE)) /\ UNCHANGED <<file, last>>
              /\ quirks' = quirks \cup {"torn"}
  BY DEF write
<1>2. UNCHANGED <<alive, items, writable, changes, lives>>
  BY DEF write
<1>3. s \in Ids /\ saves[s].items \in Versions
  BY DEF Open, Typed
<1>4. CASE /\ file' = saves[s].items /\ To(s, After(s, TRUE)) /\ UNCHANGED quirks
           /\ last' = IF Mounted THEN last ELSE saves[s].items
  <2>1. PICK x \in {"remountRo", "done"} : To(s, x) /\ (x = "remountRo" <=> Mounted)
    BY <1>4 DEF After
  <2>2. /\ saves' \in [Ids -> [items : Versions, step : Steps]]
        /\ \A t \in Ids : /\ saves'[t].items = saves[t].items
                          /\ saves'[t].step = IF t = s THEN x ELSE saves[t].step
        /\ Open' = IF x = "done" THEN Open \ {s} ELSE Open
    BY <2>1, ToStep DEF Steps
  <2>3. Typed'
    BY <1>2, <1>3, <1>4, <2>2 DEF Typed
  <2>4. OneSave'
    BY <1>2, <1>4, <2>2 DEF OneSave
  <2>5. FileFollows'
    BY <1>1, <1>2, <1>3, <1>4, <2>1, <2>2 DEF FileFollows, OneSave, Open, Typed
  <2>6. MountFollows'
    BY <1>1, <1>2, <1>4, <2>1, <2>2 DEF MountFollows, Open
  <2> QED BY <2>3, <2>4, <2>5, <2>6
<1>5. CASE /\ To(s, After(s, FALSE)) /\ UNCHANGED <<file, last>>
           /\ quirks' = quirks \cup {"torn"}
  <2>1. PICK x \in {"remountRoFailed", "failed"} : To(s, x) /\ (x = "remountRoFailed" <=> Mounted)
    BY <1>5 DEF After
  <2>2. /\ saves' \in [Ids -> [items : Versions, step : Steps]]
        /\ \A t \in Ids : /\ saves'[t].items = saves[t].items
                          /\ saves'[t].step = IF t = s THEN x ELSE saves[t].step
        /\ Open' = IF x = "failed" THEN Open \ {s} ELSE Open
    BY <2>1, ToStep DEF Steps
  <2>3. Typed'
    BY <1>2, <1>5, <2>2 DEF Typed
  <2>4. OneSave'
    BY <1>2, <1>5, <2>2 DEF OneSave
  <2>5. FileFollows'
    BY <1>5 DEF FileFollows
  <2>6. MountFollows'
    BY <1>1, <1>2, <1>5, <2>1, <2>2 DEF MountFollows, Open
  <2> QED BY <2>3, <2>4, <2>5, <2>6
<1> QED BY <1>1, <1>4, <1>5

LEMMA RemountRoSaves == ASSUME Bounded, SavesInv, remountRo PROVE SavesInv'
<1> USE DEF Bounded, SavesInv, Versions, Torn
<1>1. PICK s \in Open :
        /\ saves[s].step \in {"remountRo", "remountRoFailed"}
        /\ \/ /\ writable' = FALSE
              /\ To(s, IF saves[s].step = "remountRo" THEN "done" ELSE "failed")
              /\ last' = IF saves[s].step = "remountRo" THEN saves[s].items ELSE last
              /\ UNCHANGED quirks
           \/ /\ To(s, "failed") /\ UNCHANGED <<writable, last>>
              /\ quirks' = quirks \cup {"unlocked"}
  BY DEF remountRo
<1>2. UNCHANGED <<alive, items, file, changes, lives>>
  BY DEF remountRo
<1>3. s \in Ids /\ saves[s].items \in Versions
  BY DEF Open, Typed
<1>4. PICK x \in {"done", "failed"} : To(s, x)
  BY <1>1
<1>5. /\ saves' \in [Ids -> [items : Versions, step : Steps]]
      /\ \A t \in Ids : /\ saves'[t].items = saves[t].items
                        /\ saves'[t].step = IF t = s THEN x ELSE saves[t].step
      /\ Open' = Open \ {s}
  BY <1>4, ToStep DEF Steps
<1>6. quirks \subseteq quirks' /\ quirks' \subseteq quirks \cup {"unlocked"}
  BY <1>1
<1>7. Typed'
  BY <1>1, <1>2, <1>3, <1>5, <1>6 DEF Typed
<1>8. OneSave'
  BY <1>2, <1>5, <1>6 DEF OneSave
<1>9. FileFollows'
  BY <1>1, <1>2, <1>3, <1>5, <1>6 DEF FileFollows, OneSave, Open, Typed
<1>10. MountFollows'
  BY <1>1 DEF MountFollows
<1> QED BY <1>7, <1>8, <1>9, <1>10

LEMMA CrashSaves == ASSUME Bounded, SavesInv, Crash PROVE SavesInv'
<1> USE DEF Bounded, SavesInv, Versions, Torn
<1>1. /\ alive' = FALSE
      /\ saves' = [s \in Ids |-> IF s \in Open THEN [saves[s] EXCEPT !.step = "failed"] ELSE saves[s]]
      /\ UNCHANGED <<items, file, writable, changes, failures, lives, last>>
  BY DEF Crash
<1>2. /\ quirks \subseteq quirks' /\ quirks' \subseteq quirks \cup {"torn", "unlocked"}
      /\ "torn" \in quirks' <=> "torn" \in quirks \/ \E s \in Open : saves[s].step = "write"
      /\ "unlocked" \in quirks' <=> "unlocked" \in quirks \/ (Mounted /\ writable)
  BY DEF Crash
<1>3. saves' \in [Ids -> [items : Versions, step : Steps]]
  BY <1>1 DEF Typed, Steps
<1>4. Open' = {}
  BY <1>1 DEF Open, Typed
<1>5. Typed'
  BY <1>1, <1>2, <1>3 DEF Typed
<1>6. OneSave'
  BY <1>4 DEF OneSave
<1>7. FileFollows'
  BY <1>1, <1>2, <1>4 DEF FileFollows
<1>8. MountFollows'
  BY <1>1, <1>2 DEF MountFollows
<1> QED BY <1>5, <1>6, <1>7, <1>8

LEMMA LoadSaves == ASSUME Bounded, SavesInv, load PROVE SavesInv'
<1> USE DEF Bounded, SavesInv, Versions, Torn, load
<1>1. Open' = Open /\ Open = {}
  BY DEF Open, OneSave
<1>2. FileFollows'
  BY <1>1 DEF FileFollows
<1>3. OneSave' /\ MountFollows'
  BY <1>1 DEF OneSave, MountFollows
<1> QED BY <1>2, <1>3 DEF Typed

\* Whatever commands fail and wherever the process dies, a file that no overlapping saves or cut
\* write touched loads, with the last save that succeeded or a later one, and a mounted file system
\* is read-only between saves (Store.save and load, FsStoreOperations, MountedFsStoreOperations).
THEOREM SavesAreLoaded == ASSUME Bounded PROVE Spec => []SavedIsLoaded
<1>1. Init => SavesInv
  BY InitSaves
<1>2. SavesInv /\ [Next]_vars => SavesInv'
  <2> SUFFICES ASSUME SavesInv, [Next]_vars PROVE SavesInv'
    OBVIOUS
  <2>1. CASE UNCHANGED vars
    BY <2>1 DEF vars, SavesInv, Typed, OneSave, FileFollows, MountFollows, Open
  <2> QED
    BY <2>1, ChangeSaves, SaveSaves, RemountRwSaves, TruncateSaves, WriteSaves, RemountRoSaves,
       CrashSaves, LoadSaves DEF Next
<1>3. SavesInv => SavedIsLoaded
  BY DEF SavesInv, FileFollows, MountFollows, SavedIsLoaded
<1> QED BY <1>1, <1>2, <1>3, PTL DEF Spec
=============================================================================
