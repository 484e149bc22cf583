---------------------------- MODULE DeployFiles ----------------------------
(***************************************************************************)
(* The files of the studio's deploy service (packages, images): the        *)
(* directory, the table the watcher keeps of it, and the browsers that     *)
(* upload files chunk by chunk, rename and delete them.                    *)
(*                                                                         *)
(* A file is the sequence of the chunks written into it; a chunk says      *)
(* which upload it is of, and whether it was written whole.  A write call  *)
(* opens, writes and closes; an open file is known by the name it has now, *)
(* Lost when it has none any more.  A call fails in the browser when the   *)
(* server says so, when the connection is lost or after 60 s, and goes on  *)
(* at the server in the last two cases.  What the watcher finds is in the  *)
(* browsers' tables at once.                                               *)
(***************************************************************************)
EXTENDS Naturals, Sequences, SequencesExt, FiniteSets, TLC

CONSTANTS
  Browsers, Names,
  Picks,      \* what a user may choose to upload: sequences of [name, size], size in chunks
  MaxUploads,   \* bound: uploads of a browser
  MaxOps,       \* bound: renames, deletions, files set by the server (setFile)
  MaxFaults     \* bound: errors of the file system, connections lost, timeouts

VARIABLES
  disk, dirty, seen,  \* the directory; names touched since their last poll; names the poll saw
  files,              \* the table: name -> size
  writes,             \* writer (a browser or the server) -> its write call at the server
  up,                 \* browser -> its upload: [state, chosen, file, at, n, waiting], at: the
                      \* chunks of the file that were answered, waiting: for an answer
  dialog,             \* browser -> the progress dialog is shown (it is modal)
  alive,              \* browser -> its epics run
  ops, faults,
  disturbed           \* history: uploads during which someone else changed one of their names

vars == <<disk, dirty, seen, files, writes, up, dialog, alive, ops, faults, disturbed>>

Absent == <<"absent">>
Put(f, x, y) == (x :> y) @@ f
Drop(f, x) == [y \in DOMAIN f \ {x} |-> f[y]]
Lost == "lost"
Server == "server"
Chunk(b, n, k) == <<b, n, k, "whole">>
Piece(chunk) == [chunk EXCEPT ![4] = "piece"]
Idle == [state |-> "idle", chosen |-> <<>>, file |-> 1, at |-> 0, n |-> 0, waiting |-> FALSE]
NoWrite == [pc |-> "none"]

Init ==
  /\ disk = [f \in Names |-> Absent] /\ dirty = {} /\ seen = {} /\ files = <<>>
  /\ writes = [w \in Browsers \cup {Server} |-> NoWrite]
  /\ up = [b \in Browsers |-> Idle]
  /\ dialog = [b \in Browsers |-> FALSE] /\ alive = [b \in Browsers |-> TRUE]
  /\ ops = 0 /\ faults = 0 /\ disturbed = {}

ChosenNames(b) == {up[b].chosen[k].name : k \in DOMAIN up[b].chosen}
Disturbed(names, by) ==
  disturbed \cup {<<b, up[b].n>> : b \in {x \in Browsers \ by : ChosenNames(x) \cap names # {}}}

(***************************************************************************)
(* Files.delete and rename, for a browser.  Files that are open keep being *)
(* written, under their new name or none.                                  *)
(***************************************************************************)
Touch(names) == dirty' = dirty \cup names

Moved(open, f, g) == IF open = f THEN g ELSE IF open = g THEN Lost ELSE open
MoveOpen(f, g) ==
  writes' = [w \in DOMAIN writes |->
    IF writes[w].pc = "open" THEN [writes[w] EXCEPT !.open = Moved(@, f, g)] ELSE writes[w]]

deleteFile(b, f) ==
  /\ ops < MaxOps /\ alive[b] /\ ~dialog[b] /\ f \in DOMAIN files
  /\ disk[f] # Absent
  /\ disk' = [disk EXCEPT ![f] = Absent] /\ Touch({f}) /\ MoveOpen(f, Lost)
  /\ disturbed' = Disturbed({f}, {}) /\ ops' = ops + 1
  /\ UNCHANGED <<seen, files, up, dialog, alive, faults>>

\* The rename dialog refuses the names of the table; rename overwrites.
renameFile(b, f, g) ==
  /\ ops < MaxOps /\ alive[b] /\ ~dialog[b] /\ f \in DOMAIN files /\ g \notin DOMAIN files
  /\ disk[f] # Absent
  /\ disk' = [disk EXCEPT ![g] = disk[f], ![f] = Absent] /\ Touch({f, g}) /\ MoveOpen(f, g)
  /\ disturbed' = Disturbed({f, g}, {}) /\ ops' = ops + 1
  /\ UNCHANGED <<seen, files, up, dialog, alive, faults>>

(***************************************************************************)
(* Files.write: opens with 'init' (create, truncate; the write is at the   *)
(* start) or with 'append' (the file must exist; the write is at the end), *)
(* writes, closes.  Anything can fail; a short write is a failure too.     *)
(***************************************************************************)
Opening(f, type, chunk) == [pc |-> "sent", name |-> f, type |-> type, chunk |-> chunk, open |-> Lost]

OpenedKept(f, type) == IF disk[f] = Absent THEN <<>> ELSE disk[f]
Opened(f, type) == IF type = "init" THEN <<>> ELSE disk[f]

Written(s, type, chunk) ==
  IF type = "append" \/ s = <<>> THEN Append(s, chunk) ELSE [s EXCEPT ![1] = chunk]

Current(b) == up[b].chosen[up[b].file]

\* UPLOAD_FILES_PROGRESS.
Progress(b, done) ==
  dialog' = [dialog EXCEPT ![b] = ~(up[b].file = Len(up[b].chosen) /\ done = Current(b).size)]

\* The browser gets the answer, if it still waits.  An error ends its epics.
Answer(w, ok) ==
  IF w = Server \/ ~up[w].waiting THEN UNCHANGED <<up, dialog, alive>>
  ELSE IF ok
  THEN /\ up' = [up EXCEPT ![w].at = @ + 1, ![w].waiting = FALSE]
       /\ Progress(w, up[w].at + 1) /\ UNCHANGED alive
  ELSE /\ up' = [up EXCEPT ![w].state = "failed", ![w].waiting = FALSE]
       /\ alive' = [alive EXCEPT ![w] = FALSE] /\ UNCHANGED dialog

open(w) ==
  /\ writes[w].pc = "sent"
  /\ LET f == writes[w].name
         type == writes[w].type
     IN  \/ /\ type = "init" \/ disk[f] # Absent
            /\ disk' = [disk EXCEPT ![f] = Opened(f, type)]
            /\ writes' = [writes EXCEPT ![w].pc = "open", ![w].open = f]
            /\ IF type = "init" THEN Touch({f}) /\ disturbed' = Disturbed({f}, {w})
               ELSE UNCHANGED <<dirty, disturbed>>
            /\ UNCHANGED <<up, dialog, alive, faults>>
         \/ /\ \/ type = "append" /\ disk[f] = Absent /\ faults' = faults
               \/ faults < MaxFaults /\ faults' = faults + 1
            /\ writes' = [writes EXCEPT ![w] = NoWrite] /\ Answer(w, FALSE)
            /\ UNCHANGED <<disk, dirty, disturbed>>
  /\ UNCHANGED <<seen, files, ops>>

write(w) ==
  /\ writes[w].pc = "open"
  /\ writes' = [writes EXCEPT ![w] = NoWrite]
  /\ LET f == writes[w].open
         put(chunk) ==
           IF f = Lost THEN UNCHANGED <<disk, dirty, disturbed>>
           ELSE /\ disk' = [disk EXCEPT ![f] = Written(@, writes[w].type, chunk)]
                /\ Touch({f}) /\ disturbed' = Disturbed({f}, {w})
     IN  \/ put(writes[w].chunk) /\ Answer(w, TRUE) /\ faults' = faults
         \/ /\ faults < MaxFaults /\ faults' = faults + 1
            /\ \/ put(writes[w].chunk)
               \/ put(Piece(writes[w].chunk))
               \/ UNCHANGED <<disk, dirty, disturbed>>
            /\ Answer(w, FALSE)
  /\ UNCHANGED <<seen, files, ops>>

\* Service.setFile, for the export of a project.
setFile(f) ==
  /\ ops < MaxOps /\ writes[Server] = NoWrite
  /\ writes' = [writes EXCEPT ![Server] = Opening(f, "init", Chunk(Server, ops, 1))]
  /\ ops' = ops + 1
  /\ UNCHANGED <<disk, dirty, seen, files, up, dialog, alive, faults, disturbed>>

(***************************************************************************)
(* The watcher.  unsetFile reports only what the table holds.              *)
(***************************************************************************)
Poll(f) ==
  /\ f \in dirty
  /\ dirty' = dirty \ {f} /\ seen' = IF disk[f] = Absent THEN seen \ {f} ELSE seen \cup {f}
  /\ files' = IF disk[f] # Absent THEN Put(files, f, Len(disk[f]))
              ELSE IF f \in seen THEN Drop(files, f) ELSE files
  /\ UNCHANGED <<disk, writes, up, dialog, alive, ops, faults, disturbed>>

(***************************************************************************)
(* An upload.  The user confirms names the table holds (any choice may be  *)
(* confirmed); files go one after the other, a chunk per call, each        *)
(* answered before the next; the dialog closes with the last chunk of the  *)
(* last file.                                                              *)
(***************************************************************************)
uploadFiles(b, c) ==
  /\ alive[b] /\ ~dialog[b] /\ up[b].state # "active" /\ up[b].n < MaxUploads
  /\ up' = [up EXCEPT ![b] = [state |-> "active", chosen |-> c, file |-> 1, at |-> 0, n |-> @.n + 1,
                              waiting |-> FALSE]]
  /\ dialog' = [dialog EXCEPT ![b] = TRUE]
  /\ UNCHANGED <<disk, dirty, seen, files, writes, alive, ops, faults, disturbed>>

uploadChunk(b) ==
  /\ alive[b] /\ up[b].state = "active" /\ ~up[b].waiting /\ up[b].at < Current(b).size
  /\ up' = [up EXCEPT ![b].waiting = TRUE]
  /\ writes' = [writes EXCEPT ![b] =
       Opening(Current(b).name, IF up[b].at = 0 THEN "init" ELSE "append",
               Chunk(b, up[b].n, up[b].at + 1))]
  /\ UNCHANGED <<disk, dirty, seen, files, dialog, alive, ops, faults, disturbed>>

\* The connection is lost or the 60 s are over: the request may never have
\* arrived; one that did is served all the same.
callFails(b) ==
  /\ up[b].waiting /\ faults < MaxFaults /\ faults' = faults + 1
  /\ up' = [up EXCEPT ![b].state = "failed", ![b].waiting = FALSE]
  /\ alive' = [alive EXCEPT ![b] = FALSE]
  /\ \/ writes[b].pc = "sent" /\ writes' = [writes EXCEPT ![b] = NoWrite]
     \/ UNCHANGED writes
  /\ UNCHANGED <<disk, dirty, seen, files, dialog, ops, disturbed>>

NextFile(b) ==
  /\ alive[b] /\ up[b].state = "active" /\ up[b].at = Current(b).size
  /\ up' = IF up[b].file = Len(up[b].chosen) THEN [up EXCEPT ![b].state = "done"]
           ELSE [up EXCEPT ![b].file = @ + 1, ![b].at = 0]
  /\ UNCHANGED <<disk, dirty, seen, files, writes, dialog, alive, ops, faults, disturbed>>

Next ==
  \/ \E b \in Browsers :
       \/ \E c \in Picks : uploadFiles(b, c)
       \/ uploadChunk(b) \/ callFails(b) \/ NextFile(b)
       \/ \E f \in Names : deleteFile(b, f) \/ \E g \in Names \ {f} : renameFile(b, f, g)
  \/ \E w \in Browsers \cup {Server} : open(w) \/ write(w)
  \/ \E f \in Names : setFile(f) \/ Poll(f)

Spec == Init /\ [][Next]_vars
-----------------------------------------------------------------------------
TypeOK ==
  /\ DOMAIN disk = Names /\ dirty \subseteq Names /\ seen \subseteq Names
  /\ DOMAIN files \subseteq Names /\ dialog \in [Browsers -> BOOLEAN]
  /\ \A b \in Browsers : up[b].state \in {"idle", "active", "failed", "done"}
                         /\ up[b].at <= (IF up[b].chosen = <<>> THEN 0 ELSE Current(b).size)

\* What the progress says is in the directory, whatever fails at whatever point
\* (a call given up while the server still serves it included): of every file an
\* upload got to, the chunks answered are there in order, followed at most by one
\* that was not answered; a file it has left is there exactly.  Excepted are
\* uploads of whose names someone else changed one meanwhile, and a name chosen
\* twice, where the later file counts.  An empty file is never sent.  The modal
\* dialog of an upload that is done is gone, unless the last file was empty,
\* which leaves it open for good; an upload that failed leaves it open too.
Answered(b, k) == IF k < up[b].file THEN up[b].chosen[k].size ELSE up[b].at

UploadFaithful ==
  \A b \in Browsers : up[b].state # "idle" =>
    /\ <<b, up[b].n>> \notin disturbed =>
         \A k \in 1..up[b].file :
           LET f == up[b].chosen[k].name
               sent == Answered(b, k)
               more == IF k = up[b].file /\ up[b].state # "done" THEN 1 ELSE 0
           IN  sent > 0 /\ (\A j \in (k + 1)..up[b].file : up[b].chosen[j].name # f) =>
                 /\ disk[f] # Absent /\ Len(disk[f]) \in sent..(sent + more)
                 /\ \A j \in 1..sent : disk[f][j] = Chunk(b, up[b].n, j)
    /\ up[b].state = "done" => (dialog[b] <=> Last(up[b].chosen).size = 0)
    /\ up[b].state = "failed" => dialog[b]

\* Once all that was touched is polled the table has the sizes of the files.
FilesSettled ==
  dirty = {} => files = [f \in {x \in Names : disk[x] # Absent} |-> Len(disk[f])]
=============================================================================
