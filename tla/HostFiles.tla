------------------------------ MODULE HostFiles ------------------------------
(* Files and directories of the enclave's system call layer: the mount table *)
(* (syscall/mount.c), path resolution (syscall/stdlib.c), the path functions *)
(* (unistd.c, stat.c, stdio.c, fcntl.c, dirent.c) and the host file system   *)
(* device (syscall/devices/hostfs/hostfs.c), over the host's files.          *)
(*                                                                           *)
(* A path is a sequence of names; the root is <<>>. A path function resolves *)
(* its path under the mount table's lock and acts on the device it found in  *)
(* a later step, without the lock. Path lengths are not bounded here, the    *)
(* host's tree has no symbolic links, and oe_set_thread_devid, which names a *)
(* device without a mount, is left out.                                      *)
EXTENDS Naturals, FiniteSets, Sequences, SequencesExt

CONSTANTS
  Threads,
  PathArgs,      \* paths as callers write them: [abs, elems]
  Targets,       \* the paths used as mount points
  Sources,       \* host directories used as mount sources
  HostTree,      \* the host's files at the start: path -> "dir" or "file"
  OpenFlags,     \* records [write, creat, trunc]
  MaxMounts,     \* MAX_MOUNT_TABLE_SIZE
  MaxNodes,      \* bound: host inodes
  MaxFiles,      \* bound: open files
  MaxCalls       \* bound: calls in one behaviour

\* The host's tree at the start: every path but the root is in a directory.
ASSUME FilesAssumption ==
  /\ {MaxMounts, MaxNodes, MaxFiles} \subseteq Nat
  /\ PathArgs \cup Targets \subseteq [abs : BOOLEAN, elems : Seq(STRING)]
  /\ Sources \subseteq Seq(STRING)
  /\ OpenFlags \subseteq [write : BOOLEAN, creat : BOOLEAN, trunc : BOOLEAN]
  /\ DOMAIN HostTree \subseteq Seq(STRING)
  /\ HostTree \in [DOMAIN HostTree -> {"dir", "file"}]
  /\ IsFiniteSet(DOMAIN HostTree) /\ Cardinality(DOMAIN HostTree) <= MaxNodes
  /\ \A p \in DOMAIN HostTree :
       p # <<>> => Front(p) \in DOMAIN HostTree /\ HostTree[Front(p)] = "dir"

VARIABLES
  mounts,        \* _mount_table: sequence of [path, source, ro]
  cwd,           \* _cwd
  op,            \* per thread: the call it is in
  files,         \* open file objects: [h, ino, write, dir, ro]
  tree, nodes,   \* the host's directory tree (path -> inode) and inodes
  handles,       \* host descriptors and DIR handles that are open
  calls,         \* number of calls made
  roChanged      \* history: a read-only mount let the host's files change

fileVars == <<mounts, cwd, op, files, tree, nodes, handles, calls, roChanged>>

Idle == [kind |-> "idle"]

Mounted(p, source, ro) == [path |-> p, source |-> source, ro |-> ro]

-----------------------------------------------------------------------------
(* Path resolution.                                                          *)

\* ".." never leaves a directory of the root.
NormalizeDown(out, e) ==
  CASE e = "." -> out
    [] e = ".." -> IF Len(out) < 2 THEN out ELSE Front(out)
    [] OTHER -> Append(out, e)

\* One element of oe_realpath's loop; out is the path so far.
Normalize(out, e) ==
  CASE e = "." -> out
    [] e = ".." -> IF out = <<>> THEN out ELSE Front(out)
    [] OTHER -> Append(out, e)

\* oe_realpath: a relative path is taken from the current directory, and its
\* elements are gone through from left to right.
oe_realpath(dir, p) ==
  LET e == IF p.abs THEN p.elems ELSE dir \o p.elems
      out[k \in 0 .. Len(e)] == IF k = 0 THEN <<>> ELSE Normalize(out[k - 1], e[k])
  IN  out[Len(e)]

\* oe_mount_resolve's loop: the mounts that contain path, and the longest.
Containing(table, path) == {i \in DOMAIN table : IsPrefix(table[i].path, path)}

oe_mount_resolve(table, path) ==
  CHOOSE i \in Containing(table, path) :
    \A j \in Containing(table, path) : Len(table[j].path) <= Len(table[i].path)

Suffix(m, path) == SubSeq(path, Len(m.path) + 1, Len(path))

\* _make_host_path: the suffix below the mount's source directory.
_make_host_path(m, suffix) == m.source \o suffix

-----------------------------------------------------------------------------
(* The host's file system (external): what the calls of host/linux/syscall.c *)
(* do to it.                                                                 *)

Exists(p) == p \in DOMAIN tree

IsDir(p) == Exists(p) /\ nodes[tree[p]] = "dir"

Parent(p) == IsDir(Front(p))

Below(p) == {q \in DOMAIN tree : IsPrefix(p, q) /\ p # q}

InUse == {tree[p] : p \in DOMAIN tree} \cup {f.ino : f \in files}

FreeNode == CHOOSE n \in 1 .. MaxNodes : n \notin InUse

Extended(p, n) == [q \in DOMAIN tree \cup {p} |-> IF q = p THEN n ELSE tree[q]]

Removed(ps) == [q \in DOMAIN tree \ ps |-> tree[q]]

\* A new file or directory at p, when its parent exists and p does not.
CanCreate(p) ==
  /\ p # <<>> /\ Parent(p) /\ ~Exists(p)
  /\ InUse # 1 .. MaxNodes

\* The tree after rename(p, q), for a q that is not below p.
Renamed(p, q) ==
  LET moved == {p} \cup Below(p)
      New(r) == q \o SubSeq(r, Len(p) + 1, Len(r))
      kept == DOMAIN tree \ (moved \cup {q})
  IN  [r \in kept \cup {New(m) : m \in moved} |->
         IF r \in kept THEN tree[r]
         ELSE tree[CHOOSE m \in moved : New(m) = r]]

CanRename(p, q) ==
  /\ p # <<>> /\ q # <<>> /\ Exists(p) /\ Parent(q) /\ ~IsPrefix(p, q)
  /\ Exists(q) => ~IsDir(p) /\ ~IsDir(q)

FreeHandle == CHOOSE h \in 1 .. MaxFiles + 1 : h \notin handles

-----------------------------------------------------------------------------
\* Nothing is mounted; used of the behaviour's calls are used up.
FilesInit(used) ==
  /\ mounts = <<>>
  /\ cwd = <<>>
  /\ op = [t \in Threads |-> Idle]
  /\ files = {}
  /\ LET Number == CHOOSE f \in [DOMAIN HostTree -> 1 .. Cardinality(DOMAIN HostTree)] :
                     \A p, q \in DOMAIN HostTree : f[p] = f[q] => p = q
     IN  /\ tree = Number
         /\ nodes = [n \in 1 .. MaxNodes |->
                       IF \E p \in DOMAIN HostTree : Number[p] = n
                       THEN HostTree[CHOOSE p \in DOMAIN HostTree : Number[p] = n]
                       ELSE "file"]
  /\ handles = {}
  /\ calls = used
  /\ roChanged = FALSE

Call(t) ==
  /\ op[t] = Idle
  /\ calls < MaxCalls
  /\ calls' = calls + 1

Finish(t) == op' = [op EXCEPT ![t] = Idle]

\* The host's files become tr and nd through device m.
Change(m, tr, nd) ==
  /\ tree' = tr
  /\ nodes' = nd
  /\ roChanged' = (roChanged \/ (m.ro /\ <<tr, nd>> # <<tree, nodes>>))

NoChange == UNCHANGED <<tree, nodes, roChanged>>

-----------------------------------------------------------------------------
(* Mounting.                                                                 *)

\* oe_mount, before the lock: the target must be a directory of the host, seen
\* through the device that is not mounted yet (its source is "/").
MountStat(t, p, source, ro) ==
  /\ Call(t)
  /\ LET target == oe_realpath(cwd, p) IN
       IF target # <<>> /\ ~IsDir(target) THEN UNCHANGED op
       ELSE op' = [op EXCEPT ![t] = [kind |-> "mount", m |-> Mounted(target, source, ro)]]
  /\ NoChange
  /\ UNCHANGED <<mounts, cwd, files, handles>>

\* A mount point that is in use, or a full table.
MountRefused(m) ==
  Len(mounts) = MaxMounts \/ \E i \in DOMAIN mounts : mounts[i].path = m.path

\* oe_mount under the lock: the device is cloned, told its source and whether
\* it is read-only, and appended.
MountTable(t) ==
  /\ op[t].kind = "mount"
  /\ mounts' = IF MountRefused(op[t].m) THEN mounts ELSE Append(mounts, op[t].m)
  /\ Finish(t)
  /\ NoChange
  /\ UNCHANGED <<cwd, files, handles, calls>>

\* oe_umount2: the entry is replaced by the last one and the device released.
\* The device a path function has resolved and not used yet would be released
\* under it: the code leaves it to the application that nobody is.
Umount(t, p) ==
  /\ Call(t)
  /\ \A u \in Threads : op[u] = Idle
  /\ LET target == oe_realpath(cwd, p)
         hit == {i \in DOMAIN mounts : mounts[i].path = target}
     IN  mounts' = IF hit = {} THEN mounts
                   ELSE LET i == CHOOSE i \in hit : TRUE
                        IN  Front([mounts EXCEPT ![i] = Last(mounts)])
  /\ NoChange
  /\ UNCHANGED <<cwd, op, files, handles>>

-----------------------------------------------------------------------------
(* Path functions: resolve, then act.                                        *)

PathKinds == {"open", "opendir", "mkdir", "rmdir", "unlink", "truncate", "chdir"}

PairKinds == {"rename", "link"}

\* The resolution of one path by thread t in a call of this kind.
Resolve(t, kind, p, flags) ==
  /\ Call(t)
  /\ LET path == oe_realpath(cwd, p) IN
       IF Containing(mounts, path) = {} THEN UNCHANGED op
       ELSE LET m == mounts[oe_mount_resolve(mounts, path)] IN
              op' = [op EXCEPT ![t] = [kind |-> kind, m |-> m, flags |-> flags, path |-> path,
                                       host |-> _make_host_path(m, Suffix(m, path))]]
  /\ NoChange
  /\ UNCHANGED <<mounts, cwd, files, handles>>

\* oe_rename and oe_link resolve the second path next; both must be on one
\* device.
Resolve2(t, p) ==
  /\ op[t].kind \in PairKinds
  /\ LET path == oe_realpath(cwd, p) IN
       IF Containing(mounts, path) = {} THEN Finish(t)
       ELSE LET m == mounts[oe_mount_resolve(mounts, path)] IN
              IF m # op[t].m THEN Finish(t)
              ELSE op' = [op EXCEPT ![t] =
                            [kind |-> IF op[t].kind = "rename" THEN "rename2" ELSE "link2",
                             m |-> m, host |-> op[t].host,
                             new |-> _make_host_path(m, Suffix(m, path))]]
  /\ NoChange
  /\ UNCHANGED <<mounts, cwd, files, handles, calls>>

\* _is_read_only.
_is_read_only(m) == m.ro

\* The mount's flags are not looked at.
OpenRefusedNever(m, flags) == FALSE

OpenRefused(m, flags) == _is_read_only(m) /\ flags.write

\* _hostfs_open_file: only the access mode is compared with the mount's flags.
\* O_CREAT and O_TRUNC of an open for reading reach the host in any case: this
\* is not counted in roChanged.
OpenFile(t) ==
  /\ op[t].kind = "open"
  /\ LET o == op[t]
         p == o.host
         create == o.flags.creat /\ CanCreate(p)
         opens == /\ ~OpenRefused(o.m, o.flags)
                  /\ Cardinality(files) < MaxFiles
                  /\ create \/ (Exists(p) /\ ~IsDir(p))
         n == IF create THEN FreeNode ELSE tree[p]
     IN  IF opens
         THEN /\ Change([ro |-> o.m.ro /\ o.flags.write], IF create THEN Extended(p, n) ELSE tree,
                        IF create \/ o.flags.trunc
                        THEN [nodes EXCEPT ![n] = "file"] ELSE nodes)
              /\ files' = files \cup {[h |-> FreeHandle, ino |-> n, write |-> o.flags.write,
                                       dir |-> FALSE, ro |-> o.m.ro]}
              /\ handles' = handles \cup {FreeHandle}
         ELSE NoChange /\ UNCHANGED <<files, handles>>
  /\ Finish(t)
  /\ UNCHANGED <<mounts, cwd, calls>>

\* _hostfs_open_directory: the host's directory is opened first; when there is
\* no memory for the file object it is closed again.
OpenDirectory(t) ==
  /\ op[t].kind = "opendir"
  /\ LET p == op[t].host IN
       \E memory \in BOOLEAN :
         IF IsDir(p) /\ memory /\ Cardinality(files) < MaxFiles
         THEN /\ files' = files \cup {[h |-> FreeHandle, ino |-> tree[p], write |-> FALSE,
                                       dir |-> TRUE, ro |-> op[t].m.ro]}
              /\ handles' = handles \cup {FreeHandle}
         ELSE UNCHANGED <<files, handles>>
  /\ Finish(t)
  /\ NoChange
  /\ UNCHANGED <<mounts, cwd, calls>>

\* The functions below change the host's tree, and are refused on a read-only
\* mount.
Writes(t, kind) == op[t].kind = kind

Effect(t, possible, tr, nd) ==
  /\ IF possible /\ ~_is_read_only(op[t].m) THEN Change(op[t].m, tr, nd) ELSE NoChange
  /\ Finish(t)
  /\ UNCHANGED <<mounts, cwd, files, handles, calls>>

_hostfs_mkdir(t) ==
  /\ Writes(t, "mkdir")
  /\ LET p == op[t].host
         n == IF CanCreate(p) THEN FreeNode ELSE 1
     IN  Effect(t, CanCreate(p), Extended(p, n), [nodes EXCEPT ![n] = "dir"])

_hostfs_rmdir(t) ==
  /\ Writes(t, "rmdir")
  /\ LET p == op[t].host
     IN  Effect(t, p # <<>> /\ IsDir(p) /\ Below(p) = {}, Removed({p}), nodes)

_hostfs_unlink(t) ==
  /\ Writes(t, "unlink")
  /\ LET p == op[t].host IN Effect(t, Exists(p) /\ ~IsDir(p), Removed({p}), nodes)

_hostfs_truncate(t) ==
  /\ Writes(t, "truncate")
  /\ LET p == op[t].host
     IN  Effect(t, Exists(p) /\ ~IsDir(p), tree,
                IF Exists(p) THEN [nodes EXCEPT ![tree[p]] = "file"] ELSE nodes)

_hostfs_rename(t) ==
  /\ Writes(t, "rename2")
  /\ LET p == op[t].host  q == op[t].new
     IN  Effect(t, CanRename(p, q), IF CanRename(p, q) THEN Renamed(p, q) ELSE tree, nodes)

_hostfs_link(t) ==
  /\ Writes(t, "link2")
  /\ LET p == op[t].host  q == op[t].new
         can == Exists(p) /\ ~IsDir(p) /\ q # <<>> /\ Parent(q) /\ ~Exists(q)
     IN  Effect(t, can, IF can THEN Extended(q, tree[p]) ELSE tree, nodes)

\* oe_chdir: oe_stat must find a directory.
Chdir(t) ==
  /\ op[t].kind = "chdir"
  /\ cwd' = IF IsDir(op[t].host) THEN op[t].path ELSE cwd
  /\ Finish(t)
  /\ NoChange
  /\ UNCHANGED <<mounts, files, handles, calls>>

-----------------------------------------------------------------------------
(* Open files. They keep no reference to the mount they came from.           *)

\* _hostfs_write and _hostfs_ftruncate on a file the host opened for writing.
WriteFile(t, f) ==
  /\ Call(t)
  /\ f.write /\ ~f.dir
  /\ \E kind \in {"file", "data"} :
       Change([ro |-> f.ro], tree, [nodes EXCEPT ![f.ino] = kind])
  /\ UNCHANGED <<mounts, cwd, op, files, handles>>

\* _hostfs_close: close_file or, through closedir, close_directory.
CloseFile(t, f) ==
  /\ Call(t)
  /\ handles' = handles \ {f.h}
  /\ files' = files \ {f}
  /\ NoChange
  /\ UNCHANGED <<mounts, cwd, op>>

-----------------------------------------------------------------------------
NoFlags == [write |-> FALSE, creat |-> FALSE, trunc |-> FALSE]

FileStep(t) ==
  \/ \E p \in Targets, s \in Sources, ro \in BOOLEAN : MountStat(t, p, s, ro)
  \/ MountTable(t)
  \/ \E p \in Targets : Umount(t, p)
  \/ \E p \in PathArgs :
       \/ \E k \in (PathKinds \cup PairKinds) \ {"open"} : Resolve(t, k, p, NoFlags)
       \/ \E fl \in OpenFlags : Resolve(t, "open", p, fl)
       \/ Resolve2(t, p)
  \/ OpenFile(t)
  \/ OpenDirectory(t)
  \/ _hostfs_mkdir(t) \/ _hostfs_rmdir(t) \/ _hostfs_unlink(t) \/ _hostfs_truncate(t)
  \/ _hostfs_rename(t) \/ _hostfs_link(t)
  \/ Chdir(t)
  \/ \E f \in files : WriteFile(t, f) \/ CloseFile(t, f)

-----------------------------------------------------------------------------
FilesSpec == FilesInit(0) /\ [][\E t \in Threads : FileStep(t)]_fileVars

-----------------------------------------------------------------------------
FilesTypeOK ==
  /\ \A i, j \in DOMAIN mounts : mounts[i].path = mounts[j].path => i = j
  /\ Len(mounts) <= MaxMounts
  /\ \A p \in DOMAIN tree : p # <<>> => IsDir(Front(p))
  /\ Cardinality(files) <= MaxFiles

\* The host path is in m's source directory or below it, and nothing in the rest
\* of it leads out again.
BelowSource(m, path) ==
  /\ IsPrefix(m.source, path)
  /\ \A i \in Len(m.source) + 1 .. Len(path) : path[i] \notin {".", ".."}

PathsBelowSource ==
  \A t \in Threads :
    /\ op[t].kind \in PathKinds \cup PairKinds \cup {"rename2", "link2"} =>
         BelowSource(op[t].m, op[t].host)
    /\ op[t].kind \in {"rename2", "link2"} => BelowSource(op[t].m, op[t].new)

(* Nothing done through a read-only mount changes the host's files: not by    *)
(* the path functions, not by a file opened through it and written later,     *)
(* whatever is mounted, unmounted or renamed in between. The exception is     *)
(* O_CREAT or O_TRUNC with O_RDONLY, which the device lets through. The paths *)
(* a function hands to the host stay below the source of the mount it         *)
(* resolved, whatever ".." the caller wrote. And every descriptor and         *)
(* directory handle the host has open belongs to exactly one file object of   *)
(* the enclave, also when an open fails half way.                             *)
FilesSound ==
  /\ FilesTypeOK
  /\ ~roChanged
  /\ PathsBelowSource
  /\ handles = {f.h : f \in files}
  /\ \A f, g \in files : f.h = g.h => f = g

=============================================================================
