---------------------------- MODULE DeployTasks ----------------------------
(***************************************************************************)
(* The tasks a recipe is made of: what each does to the execution context  *)
(* of a run (the image, the configuration, the variables), on the in-memory *)
(* file system of engine/vfs.ts and the archives of engine/archive.ts.     *)
(*                                                                         *)
(* A tree is a function from paths to nodes, without its root.  A text is  *)
(* a sequence of rows, a row a sequence of words.  In the files that hold  *)
(* the host name a word is a sequence of parts, and a host name is a part: *)
(* what else its letters occur in is said by the parts, and it has none    *)
(* that a regular expression takes for something else.                     *)
(* An archive is the set of its entries; a directory comes before what it  *)
(* contains, and no name is a file in one archive and a directory in       *)
(* another.  A task that throws ends the run.                              *)
(*                                                                         *)
(* The task image-cache is on its own: it loads package indexes, resolves  *)
(* the packages of the configuration's world file with their dependencies, *)
(* and puts them into the cache of the image (engine/apk.ts).  A version   *)
(* is [major, minor, revision, release], NaN where the text has no number; *)
(* it is compared as text by equality, as Version by Greater.              *)
(***************************************************************************)
EXTENDS Integers, Sequences, SequencesExt, FiniteSets, TLC

CONSTANTS
  Hosts, Ifaces, Packages,   \* host names (parts), interfaces and packages (words)
  Apkovl,                    \* host -> the name of its configuration in an image
  Archives,                  \* name -> archive, among the files of the service
  MaxTasks,                  \* bound: tasks of the run
  Databases,                 \* sequences of packages, in the order of their indexes
  Worlds                     \* sequences of names: /etc/apk/world

VARIABLES
  root, config, variables,   \* the context; None until an image is imported
  exports,                   \* what image-export wrote: [image, config]
  packed,                    \* history: the configuration at the last config-pack or config-init
  fresh,                     \* history: packed is what the image contains
  state, n,
  db, world, resolved,       \* image-cache: the packages known, the names to resolve, how
                             \* many of them were
  list, status, cache        \* the packages resolved, and those in the cache of the image

taskVars == <<root, config, variables, exports, packed, fresh, state, n>>
cacheVars == <<db, world, resolved, list, status, cache>>
vars == <<taskVars, cacheVars>>

None == <<"none">> :> [kind |-> "none"]
Put(f, x, y) == (x :> y) @@ f
File(c) == [kind |-> "file", content |-> c]
Dir == [kind |-> "dir", missing |-> FALSE]
Link(t) == [kind |-> "link", target |-> t]
Parent(p) == Front(p)
Above(p) == {SubSeq(p, 1, k) : k \in 1..Len(p) - 1}

(***************************************************************************)
(* engine/vfs.ts                                                           *)
(***************************************************************************)
IsFile(t, p) == p \in DOMAIN t /\ t[p].kind = "file"
IsDir(t, p) == p = <<>> \/ (p \in DOMAIN t /\ t[p].kind = "dir")
Text(t, p) == IF IsFile(t, p) THEN t[p].content ELSE <<>>
\* writeText throws when the directory is missing or the node is not a file.
Writable(t, p) == IsDir(t, Parent(p)) /\ (p \in DOMAIN t => IsFile(t, p))
WriteText(t, p, c) == Put(t, p, File(c))
Mkdirp(t, p) == t @@ [q \in Above(p) \cup ({p} \ {<<>>}) |-> Dir]
MkdirpFits(t, p) == \A q \in Above(p) \cup ({p} \ {<<>>}) : q \in DOMAIN t => IsDir(t, q)
Delete(t, p) == [q \in {x \in DOMAIN t : ~IsPrefix(p, x)} |-> t[q]]

\* tasks-utils.ts: the words of the first row, which an update replaces; a row more.
FirstRow(t, p) == IF Text(t, p) = <<>> THEN <<>> ELSE Text(t, p)[1]
SingleRow(t, p, row) == WriteText(t, p, <<row>> \o (IF Text(t, p) = <<>> THEN <<>> ELSE Tail(Text(t, p))))
AppendLine(t, p, row) == WriteText(t, p, Append(Text(t, p), row))

(***************************************************************************)
(* engine/archive.ts.  Directories that only stand for missing entries are *)
(* not packed; extracting creates them again.                              *)
(***************************************************************************)
PackFiles(t) == {[path |-> p, node |-> t[p]] : p \in {q \in DOMAIN t : t[q].kind = "file"}}
Pack(t) == {[path |-> p, node |-> t[p]] :
             p \in {q \in DOMAIN t : ~(t[q].kind = "dir" /\ t[q].missing)}}

\* path.relative(baseDirectory, name)
Relative(base, p) == IF IsPrefix(base, p) THEN SubSeq(p, Len(base) + 1, Len(p)) ELSE <<"..">> \o p

Extract(arch, t, base) ==
  LET at == {[e EXCEPT !.path = Relative(base, e.path)] : e \in arch}
      new == {e \in at : /\ e.path # <<>>
                         /\ ~(e.node.kind = "dir" /\ e.path \in DOMAIN t)}
      paths == {e.path : e \in new}
      implied == UNION {Above(e.path) : e \in at} \ (paths \cup DOMAIN t)
  IN  [p \in paths |-> (CHOOSE e \in new : e.path = p).node]
        @@ [p \in implied |-> [Dir EXCEPT !.missing = TRUE]] @@ t

ConfigFilesOf(t) == {<<Apkovl[h]>> : h \in Hosts} \cap DOMAIN t
ConfigFiles == ConfigFilesOf(root)

(***************************************************************************)
(* The tasks.  Do: the task succeeds when its guard holds and throws else. *)
(***************************************************************************)
TasksInit ==
  /\ root = None /\ config = None /\ variables = {} /\ exports = {}
  /\ packed = None /\ fresh = FALSE /\ state = "running" /\ n = 0

Do(ok, effect) ==
  /\ state = "running" /\ n < MaxTasks /\ n' = n + 1
  /\ \/ ok /\ effect /\ state' = state
     \/ ~ok /\ state' = "failed" /\ UNCHANGED <<root, config, variables, exports, packed, fresh>>

OnRoot(t) == root' = t /\ UNCHANGED <<config, variables, exports, packed, fresh>>
OnConfig(t) == config' = t /\ UNCHANGED <<root, variables, exports, packed, fresh>>
OnVariables(v) == variables' = v /\ UNCHANGED <<root, config, exports, packed, fresh>>
HasRoot == root # None
HasConfig == config # None

ImageImport(a, base) ==
  Do(TRUE, LET t == Extract(Archives[a], IF HasRoot THEN root ELSE <<>>, base) IN
           /\ root' = t /\ fresh' = (fresh /\ ConfigFilesOf(t) = ConfigFiles
                                           /\ \A p \in ConfigFiles : t[p] = root[p])
           /\ UNCHANGED <<config, variables, exports, packed>>)
ImageImportFile(p, c) ==
  Do(HasRoot /\ MkdirpFits(root, Parent(p)) /\ (p \in DOMAIN root => IsFile(root, p)),
     OnRoot(WriteText(Mkdirp(root, Parent(p)), p, c)))
\* A missing node is only a warning, a missing directory an error.
ImageRemove(p) == Do(HasRoot /\ IsDir(root, Parent(p)), OnRoot(Delete(root, p)))
Cmdline == FirstRow(root, <<"cmdline.txt">>)
ImageCmdlineAdd(w) == Do(HasRoot, OnRoot(SingleRow(root, <<"cmdline.txt">>, Append(Cmdline, w))))
ImageCmdlineRemove(w) ==
  Do(HasRoot, OnRoot(SingleRow(root, <<"cmdline.txt">>, SelectSeq(Cmdline, LAMBDA x : x # w))))
ImageDeviceTreeOverlay(w) == Do(HasRoot, OnRoot(AppendLine(root, <<"usercfg.txt">>, <<"dtoverlay", w>>)))
ImageReset ==
  Do(TRUE, /\ root' = None /\ config' = None /\ fresh' = FALSE
           /\ UNCHANGED <<variables, exports, packed>>)
ImageExport ==
  Do(HasRoot, /\ exports' = {[image |-> Pack(root), config |-> packed, fresh |-> fresh]}
              /\ UNCHANGED <<root, config, variables, packed, fresh>>)

ConfigInit ==
  Do(HasRoot /\ ConfigFiles # {},
     \E p \in ConfigFiles :
       LET t == Extract(root[p].content, <<>>, <<>>) IN
       /\ config' = t /\ packed' = t /\ fresh' = (Cardinality(ConfigFiles) = 1)
       /\ UNCHANGED <<root, variables, exports>>)
ConfigPack ==
  Do(HasRoot /\ HasConfig /\ ConfigFiles # {},
     \E p \in ConfigFiles :
       /\ root' = Put(root, p, File(Pack(config)))
       /\ packed' = config /\ fresh' = (Cardinality(ConfigFiles) = 1)
       /\ UNCHANGED <<config, variables, exports>>)
ConfigImport(a) == Do(HasConfig, OnConfig(Extract(Archives[a], config, <<>>)))

Etc(f) == <<"etc", f>>
Interfaces == <<"etc", "interfaces">>
World == <<"etc", "world">>

\* replaceHost replaces the old name wherever it occurs, inside words too.
ReplaceHost(t, p, old, new) ==
  LET other(x) == IF x = old THEN new ELSE x
      word(w) == [i \in DOMAIN w |-> other(w[i])]
  IN  WriteText(t, p, [k \in DOMAIN Text(t, p) |-> [j \in DOMAIN Text(t, p)[k] |-> word(Text(t, p)[k][j])]])

Hostname == Text(config, Etc("hostname"))[1][1][1]
\* The new name in three files of the configuration, and in the image's name of it.
ConfigHostname(h) ==
  Do(HasConfig /\ HasRoot /\ \A f \in {"hostname", "interfaces", "hosts"} : IsFile(config, Etc(f))
       /\ ConfigFiles # {},
     LET old == Hostname
         c1 == ReplaceHost(config, Etc("hostname"), old, h)
         c2 == ReplaceHost(c1, Interfaces, old, h)
     IN  /\ config' = ReplaceHost(c2, Etc("hosts"), old, h)
         /\ \E p \in ConfigFiles : root' = Put(Delete(root, p), <<Apkovl[h]>>, root[p])
         /\ UNCHANGED <<variables, exports, packed, fresh>>)

Word(x) == <<x>>
IfaceRow(f) == <<Word("iface"), f>>
ConfigHwaddress(f, a) ==
  LET rows == Text(config, Interfaces)
      k == SelectInSeq(rows, LAMBDA r : IsPrefix(IfaceRow(f), r))
  IN  Do(HasConfig /\ IsFile(config, Interfaces) /\ k # 0,
         OnConfig(WriteText(config, Interfaces, InsertAt(rows, k + 1, <<Word("hwaddress"), a>>))))
ConfigWifi(f, ssid) ==
  LET rows == Text(config, Interfaces)
      host == SelectInSeq(rows, LAMBDA r : IsPrefix(<<Word("hostname")>>, r))
      more == <<<<Word("auto"), f>>, IfaceRow(f)>> \o (IF host = 0 THEN <<>> ELSE <<rows[host]>>)
  IN  Do(HasConfig /\ IsFile(config, Interfaces),
         OnConfig(WriteText(Mkdirp(WriteText(config, Interfaces, rows \o more), Etc("wpa")),
                            <<"etc", "wpa", "conf">>, <<<<"ssid", ssid>>>>)))
ConfigPackage(p) == Do(HasConfig /\ Writable(config, World), OnConfig(AppendLine(config, World, <<p>>)))
ConfigDaemon(d) ==
  Do(HasConfig /\ IsDir(config, <<"etc", "runlevel">>),
     OnConfig(Put(config, <<"etc", "runlevel", d>>, Link(d))))
ConfigImportFile(p, c) ==
  Do(HasConfig /\ MkdirpFits(config, Parent(p)) /\ (p \in DOMAIN config => IsFile(config, p)),
     OnConfig(WriteText(Mkdirp(config, Parent(p)), p, c)))

VariablesSet(v) == Do(TRUE, OnVariables(variables \cup {v}))
VariablesReset == Do(TRUE, OnVariables({}))

TasksNext ==
  \/ \E a \in DOMAIN Archives : ImageImport(a, <<>>) \/ ImageImport(a, <<"boot">>) \/ ConfigImport(a)
  \/ ImageImportFile(<<"new", "file">>, <<<<"text">>>>) \/ ConfigImportFile(<<"new", "file">>, <<<<"text">>>>)
  \/ \E p \in {<<"cmdline.txt">>, <<"new">>, <<"new", "file">>} : ImageRemove(p)
  \/ ImageCmdlineAdd("quiet") \/ ImageCmdlineRemove("quiet") \/ ImageDeviceTreeOverlay("spi")
  \/ ImageReset \/ ImageExport
  \/ ConfigInit \/ ConfigPack
  \/ \E h \in Hosts : ConfigHostname(h)
  \/ \E f \in Ifaces : ConfigHwaddress(f, Word("mac")) \/ ConfigWifi(f, "ssid")
  \/ \E p \in Packages : ConfigPackage(p) \/ ConfigDaemon(p)
  \/ VariablesSet("v") \/ VariablesReset

(***************************************************************************)
(* engine/apk.ts and tasks/image-cache.ts                                  *)
(***************************************************************************)
NaN == -1
AnyVersion == [any |-> TRUE]
Nothing == [name |-> "nothing"]

\* Version.greater: comparisons with NaN are false.
Less(a, b) == a # NaN /\ b # NaN /\ a < b
Differ(a, b) == Less(a, b) \/ Less(b, a)
Greater(v, w) ==
  IF Differ(v.major, w.major) THEN Less(w.major, v.major)
  ELSE IF Differ(v.minor, w.minor) THEN Less(w.minor, v.minor)
  ELSE IF Differ(v.revision, w.revision) THEN Less(w.revision, v.revision)
  ELSE Less(w.release, v.release)

\* sortByVersionAndLocal: p comes before q.
Before(p, q) ==
  \/ Greater(p.version, q.version)
  \/ ~Greater(q.version, p.version) /\ p.local /\ ~q.local

\* The first package of those at ks, once they are sorted (the sort is stable).
FirstOf(ks) ==
  IF ks = {} THEN Nothing
  ELSE LET k == CHOOSE i \in ks : \A j \in ks \ {i} :
                  ~Before(db[j], db[i]) /\ (j < i => Before(db[i], db[j]))
       IN  db[k]

\* Database.index
Named(name) == {k \in DOMAIN db : db[k].name = name}
Providing(name) == {k \in DOMAIN db : name \in db[k].provides \cup {db[k].name}}
GetByName(name) == FirstOf(Named(name))

\* loadPackage: a bound on the version is taken as any version.
Wanted(d) == IF d.op = "=" THEN d.version ELSE AnyVersion

FindDependency(d) ==
  LET byName == GetByName(d.name) IN
  IF byName # Nothing /\ Wanted(d) \in {AnyVersion, byName.version} THEN byName
  ELSE IF Wanted(d) = AnyVersion THEN FirstOf(Providing(d.name))
  ELSE FirstOf({k \in Providing(d.name) : db[k].version = Wanted(d)})

Failed == <<Nothing>>
Listed(l, name) == \E k \in DOMAIN l : l[k].name = name

\* _listDependencies, depth first; an error ends it.
RECURSIVE ListDependencies(_, _)
ListDependencies(l, item) ==
  LET Add(acc, d) ==
        LET dep == FindDependency(d) IN
        IF acc = Failed \/ dep = Nothing THEN Failed
        ELSE IF ~Listed(acc, dep.name) THEN ListDependencies(Append(acc, dep), dep)
        ELSE IF dep.version \in {acc[k].version : k \in {j \in DOMAIN acc : acc[j].name = dep.name}}
             THEN acc ELSE Failed
  IN  FoldLeft(Add, l, item.deps)

AddPackage(l, name) ==
  IF Listed(l, name) THEN l
  ELSE IF GetByName(name) = Nothing THEN Failed
  ELSE ListDependencies(Append(l, GetByName(name)), GetByName(name))

CacheInit ==
  /\ db \in Databases /\ world \in Worlds /\ resolved = 0
  /\ list = <<>> /\ status = "resolving" /\ cache = {}

Resolve ==
  /\ status = "resolving" /\ resolved < Len(world)
  /\ list' = AddPackage(list, world[resolved + 1])
  /\ resolved' = resolved + 1
  /\ status' = IF list' = Failed THEN "failed" ELSE status
  /\ UNCHANGED <<db, world, cache>>

\* The packages of the image's own repository are not downloaded; any other
\* download may fail, or have another size than its index says.
Download ==
  /\ status = "resolving" /\ resolved = Len(world)
  /\ \/ cache' = {list[k] : k \in {j \in DOMAIN list : ~list[j].local}} /\ status' = "done"
     \/ \E k \in DOMAIN list : ~list[k].local /\ status' = "failed" /\ UNCHANGED cache
  /\ UNCHANGED <<db, world, resolved, list>>

CacheNext == Resolve \/ Download

Init == TasksInit /\ CacheInit
Next == (TasksNext /\ UNCHANGED cacheVars) \/ (CacheNext /\ UNCHANGED taskVars)

Spec == Init /\ [][Next]_vars
-----------------------------------------------------------------------------
TypeOK ==
  /\ \A t \in {root, config} : t # None =>
       \A p \in DOMAIN t : \A q \in Above(p) : q \in DOMAIN t /\ t[q].kind = "dir"
  /\ state \in {"running", "failed"} /\ n \in 0..MaxTasks
  /\ status \in {"resolving", "failed", "done"}
  /\ status # "failed" => \A k \in DOMAIN list : list[k] \in ToSet(db)

\* A directory that stands for missing entries is lost when nothing is under it.
Durable(t) == [p \in {q \in DOMAIN t : t[q].kind = "dir" /\ t[q].missing =>
                                      \E r \in DOMAIN t : IsStrictPrefix(q, r)
                                         /\ ~(t[r].kind = "dir" /\ t[r].missing)} |-> t[p]]

\* Packing and extracting give the tree back, whatever the tasks made of it,
\* and an exported image contains the configuration as it was last packed.
ImageFaithful ==
  /\ \A t \in {root, config} : t # None => Extract(Pack(t), <<>>, <<>>) = Durable(t)
  /\ \A e \in exports : e.fresh =>
       LET image == Extract(e.image, <<>>, <<>>) IN
       \E p \in ConfigFilesOf(image) :
         Extract(image[p].content, <<>>, <<>>) = Durable(e.config)

\* The files of the configuration agree on the host name, whatever tasks copied
\* or replaced rows: every row of the interfaces that gives one gives the one of
\* /etc/hostname, and every row of /etc/hosts has it, the image's own rows having
\* had theirs.  An interface keeps its name, unless the host name is a part of it.
HostnameAgrees ==
  config # None /\ IsFile(config, Etc("hostname")) =>
    /\ \A r \in ToSet(Text(config, Interfaces)) :
         /\ IsPrefix(<<Word("hostname")>>, r) => r[2] = Word(Hostname)
         /\ IsPrefix(<<Word("iface")>>, r) => r[2] \in Ifaces \/ Hostname \in ToSet(r[2])
    /\ \A r \in ToSet(Text(config, Etc("hosts"))) : \E w \in ToSet(r) : Hostname \in ToSet(w)

Satisfies(p, d) == d.name \in p.provides \cup {p.name} /\ Wanted(d) \in {AnyVersion, p.version}

\* What image-cache resolves can be installed without any other source: every
\* dependency is met by a package that is in the cache or on the image, and there
\* is one version of each name.  Nothing more is there: every package is the one
\* the database gives for a name of the world file, or for a dependency of a
\* package before it.  A version is passed over for a lower one only when the
\* lower one is asked for by its number.
CacheClosed ==
  status = "done" =>
    /\ \A k \in DOMAIN list : \A d \in ToSet(list[k].deps) :
         \E p \in cache \cup {q \in ToSet(list) : q.local} : Satisfies(p, d)
    /\ \A j, k \in DOMAIN list : list[j].name = list[k].name => j = k
    /\ \A k \in DOMAIN list :
         \/ \E x \in ToSet(world) : list[k] = GetByName(x)
         \/ \E j \in 1..k - 1 : \E d \in ToSet(list[j].deps) : list[k] = FindDependency(d)
    /\ \A p \in ToSet(list), q \in ToSet(db) :
         p.name = q.name /\ Greater(q.version, p.version) =>
           \E r \in ToSet(list) : \E d \in ToSet(r.deps) : d.op = "=" /\ d.version = p.version
=============================================================================
