------------------------------- MODULE Files -------------------------------
(***************************************************************************)
(* The file commands of the built-in shell, and the SFTP session, on one   *)
(* small file system.  A command that looks before it acts may find the    *)
(* file changed by an SFTP request in between.  Directories here are two   *)
(* levels deep to name, and a link leads to a name of the root.            *)
(***************************************************************************)
EXTENDS Naturals, Sequences, FiniteSets, Functions

CONSTANTS
  EntryNames,       (* names of directory entries                        *)
  Hidden,      (* those that begin with a dot                       *)
  DirLength,   (* the length the file system gives a directory      *)
  Inodes,      (* files, directories and links there may be         *)
  MaxLength,   (* bound on the length of a file                     *)
  MaxHandles   (* bound on the handles a session is given           *)

Root == "root"
Absent == "absent"
ASSUME FilesAssumption ==
  /\ Root \in Inodes /\ Absent \notin Inodes /\ IsFiniteSet(Inodes)
  /\ IsFiniteSet(EntryNames) /\ Hidden \subseteq EntryNames /\ DirLength \in Nat
  /\ MaxLength \in Nat \ {0} /\ MaxHandles \in Nat

Lengths == 0..MaxLength
Paths == {<<x>> : x \in EntryNames} \cup {<<x, y>> : x, y \in EntryNames}

VARIABLES
  disk,         \* inode: each inode's kind, length and where a link leads;
                \* entries: the inode that each directory has under each name
  handles,      \* the session's handles, by number: kind, inode, what it writes, read_done
  next_handle,  \* the number of the next one
  looked,       \* a command that has looked at its target, and what it saw
  answer        \* what a command has just reported done, with status 0, if it promises more than the call

FilesVars == <<disk, handles, next_handle, looked, answer>>

NoLook == [cmd |-> "none"]
Plain == [kind |-> "file", length |-> 0, to |-> "none"]
Empty == [x \in EntryNames |-> Absent]

FilesInit ==
  /\ disk = [inode |-> [i \in Inodes |-> IF i = Root THEN [Plain EXCEPT !.kind = "dir"] ELSE Plain],
             entries |-> [i \in Inodes |-> Empty]]
  /\ handles = <<>> /\ next_handle = 0
  /\ looked = NoLook /\ answer = NoLook

-----------------------------------------------------------------------------
(* The file system: what is at a path, and the disks a system call may       *)
(* leave, none when it fails.                                                *)

Kind(i) == IF i = Absent THEN "none" ELSE disk.inode[i].kind
Entry(d, x) == IF Kind(d) = "dir" THEN disk.entries[d][x] ELSE Absent
Nowhere == <<Absent, "none">>
At(place) == IF place = Nowhere THEN Absent ELSE Entry(place[1], place[2])

\* The directory and name that links lead to; nowhere, round a loop.
IsLink(place) == Kind(At(place)) = "link"
Hop(place) == IF IsLink(place) THEN <<Root, disk.inode[At(place)].to>> ELSE place
Led(from) ==
  LET to[k \in 0..Cardinality(Inodes)] == IF k = 0 THEN from ELSE Hop(to[k - 1])
      end == to[Cardinality(Inodes)]
  IN IF ~IsLink(from) THEN from ELSE IF IsLink(end) THEN Nowhere ELSE end

ParentOf(p) == IF Len(p) = 1 THEN Root ELSE At(Led(<<Root, p[1]>>))
\* Where a path is, its last link not followed; and where that leads.
Here(p) == LET parent == ParentOf(p) IN IF Kind(parent) = "dir" THEN <<parent, p[Len(p)]>> ELSE Nowhere
There(p) == Led(Here(p))
SymlinkMetadata(p) == At(Here(p))
Metadata(p) == At(There(p))

Opened(i) == \E h \in DOMAIN handles : handles[h].inode = i
Linked(i) == \E d \in Inodes, x \in EntryNames : disk.entries[d][x] = i
Spare == {i \in Inodes \ {Root} : ~Linked(i) /\ ~Opened(i)}
IsEmpty(d) == disk.entries[d] = Empty
Below(i) ==
  LET More(is) == is \cup {disk.entries[d][x] : d \in {d \in is : Kind(d) = "dir"}, x \in EntryNames}
      f[k \in 0..Cardinality(Inodes)] == IF k = 0 THEN {i} ELSE More(f[k - 1])
  IN f[Cardinality(Inodes)] \ {Absent}

Put(place, i) == [disk EXCEPT !.entries[place[1]][place[2]] = i]
\* A new inode where there is none, and none at a place: a directory goes with
\* all it has.
Made(place, new) ==
  {[Put(place, i) EXCEPT !.inode[i] = new, !.entries[i] = Empty] :
     i \in IF place # Nowhere /\ At(place) = Absent /\ Spare # {} THEN {CHOOSE i \in Spare : TRUE} ELSE {}}
Without(place, gone) ==
  [disk EXCEPT !.entries = [d \in Inodes |-> IF d \in gone THEN Empty ELSE Put(place, Absent).entries[d]]]

Written(p, n) ==
  LET place == There(p) IN
    IF Kind(At(place)) = "file" THEN {[disk EXCEPT !.inode[At(place)].length = n]}
    ELSE Made(place, [Plain EXCEPT !.length = n])
Appended(p, n) ==
  Written(p, IF Kind(Metadata(p)) = "file" THEN disk.inode[Metadata(p)].length + n ELSE n)
Unlinked(p) == IF Kind(SymlinkMetadata(p)) \in {"file", "link"} THEN {Without(Here(p), {})} ELSE {}
DirRemoved(p) ==
  LET i == SymlinkMetadata(p) IN IF Kind(i) = "dir" /\ IsEmpty(i) THEN {Without(Here(p), {i})} ELSE {}
\* remove_dir_all removes a link, not what it leads to.
TreeRemoved(p) ==
  LET i == SymlinkMetadata(p) IN
    IF Kind(i) = "dir" THEN {Without(Here(p), Below(i))} ELSE IF Kind(i) = "link" THEN Unlinked(p) ELSE {}
MayReplace(i, j) ==
  IF Kind(i) = "dir" THEN Kind(j) = "none" \/ (Kind(j) = "dir" /\ IsEmpty(j)) ELSE Kind(j) # "dir"
Renamed(src, dst) ==
  LET from == Here(src)  to == Here(dst)  i == At(from)  j == At(to) IN
    IF i = Absent \/ to = Nowhere THEN {}
    ELSE IF i = j THEN {disk}
    ELSE IF to[1] \in Below(i) \/ ~MayReplace(i, j) THEN {}
    ELSE {[Put(to, i) EXCEPT !.entries[from[1]][from[2]] = Absent]}
DirMade(p) == Made(Here(p), [Plain EXCEPT !.kind = "dir"])
SymlinkMade(x, p) == Made(Here(p), [Plain EXCEPT !.kind = "link", !.to = x])
HardLinked(src, p) ==
  LET i == SymlinkMetadata(src)  place == Here(p) IN
    IF Kind(i) \in {"file", "link"} /\ place # Nowhere /\ At(place) = Absent THEN {Put(place, i)} ELSE {}

-----------------------------------------------------------------------------
(* The shell's commands, on one operand: with several, each goes through     *)
(* the same steps in turn and the status is the worst.                       *)

\* One system call, and what is said when it worked; one that fails, in a command that
\* had not looked, changes nothing and is no step.  An inode no longer in use is blank.
Tidied(d, kept) ==
  [d EXCEPT !.inode = [i \in Inodes |->
     IF i \in kept \/ i = Root \/ \E e \in Inodes, x \in EntryNames : d.entries[e][x] = i THEN d.inode[i]
     ELSE Plain]]
Held(hs) == {hs[h].inode : h \in DOMAIN hs}
Calls(disks, a) ==
  /\ \/ disks = {} /\ looked # NoLook /\ UNCHANGED disk /\ answer' = NoLook
     \/ (\E d \in disks : disk' = Tidied(d, Held(handles))) /\ answer' = a
  /\ UNCHANGED <<handles, next_handle>>
Asked(name, p) == [cmd |-> name, path |-> p]
Shell == looked = NoLook /\ UNCHANGED looked
Looks(a) == looked = NoLook /\ looked' = a /\ answer' = NoLook /\ UNCHANGED <<disk, handles, next_handle>>
HasLooked(name, p) == looked.cmd = name /\ looked.path = p /\ looked' = NoLook

\* A file copied onto itself is emptied before it is read.
CmdCp(src, dst) ==
  LET i == Metadata(src)  n == IF i = Metadata(dst) THEN 0 ELSE disk.inode[i].length IN
    /\ Shell
    /\ Calls(IF Kind(i) = "file" THEN Written(dst, n) ELSE {},
             [cmd |-> "write", path |-> dst, length |-> n])
CmdMv(src, dst) ==
  /\ Shell
  /\ Calls(Renamed(src, dst), [cmd |-> "mv", inode |-> SymlinkMetadata(src), place |-> Here(dst)])

\* rm looks at what its operand leads to, and then removes the operand.
CmdRmLooks(p, recursive, force) ==
  LET i == Metadata(p) IN
    \/ looked = NoLook /\ i # Absent /\ (Kind(i) = "dir" => recursive)
       /\ Looks([cmd |-> "rm", path |-> p, dir |-> Kind(i) = "dir"])
    \/ Shell /\ i = Absent /\ force /\ Calls({disk}, NoLook)

\* What could not be removed is passed over.
BugRmActs(p) ==
  /\ HasLooked("rm", p)
  /\ Calls(TreeRemoved(p) \cup Unlinked(p) \cup {disk}, Asked("rm", p))

CmdRmActs(p) ==
  /\ HasLooked("rm", p)
  /\ Calls(IF looked.dir THEN TreeRemoved(p) ELSE Unlinked(p), Asked("rm", p))

CmdMkdir(p) == Shell /\ Calls(DirMade(p), Asked("mkdir", p))
\* mkdir -p: the parent when there is none, and then the directory, which may be
\* there by now.
CmdMkdirParent(p) ==
  /\ looked = NoLook /\ Len(p) = 2 /\ ParentOf(p) = Absent
  /\ answer' = NoLook /\ disk' \in DirMade(<<p[1]>>)
  /\ looked' = Asked("mkdir -p", p) /\ UNCHANGED <<handles, next_handle>>
CmdMkdirP(p) ==
  /\ (Shell /\ ~(Len(p) = 2 /\ ParentOf(p) = Absent)) \/ HasLooked("mkdir -p", p)
  /\ Calls(IF Kind(Metadata(p)) = "dir" THEN {disk} ELSE DirMade(p), Asked("mkdir", p))

\* touch opens a file that is there, and writes an empty one when it saw none.
CmdTouchLooks(p) == Looks([cmd |-> "touch", path |-> p, there |-> Metadata(p) # Absent])
CmdTouchActs(p) ==
  /\ HasLooked("touch", p)
  /\ Calls(IF ~looked.there THEN Written(p, 0)
           ELSE IF Kind(Metadata(p)) = "file" THEN {disk} ELSE {},
           Asked("touch", p))

CmdLn(src, p, symbolic) ==
  /\ Shell
  /\ Calls(IF symbolic THEN (IF Len(src) = 1 THEN SymlinkMade(src[1], p) ELSE {}) ELSE HardLinked(src, p),
           NoLook)

\* tee, > and >>: n is the length of what the command before it printed, be it
\* its error.
CmdWrite(p, n, append) ==
  /\ Shell /\ ((append /\ Kind(Metadata(p)) = "file") => disk.inode[Metadata(p)].length + n <= MaxLength)
  /\ Calls(IF append THEN Appended(p, n) ELSE Written(p, n),
           [cmd |-> "write", path |-> p, length |-> n])

-----------------------------------------------------------------------------
(* What the commands that only look print.                                   *)

\* ls, and ls -a: a listing that stops at names which are not directories.
CmdLs(p, all) ==
  IF Kind(Metadata(p)) = "dir"
  THEN {x \in EntryNames : disk.entries[Metadata(p)][x] # Absent /\ (all \/ x \notin Hidden)}
  ELSE {p}
\* find: the entries below a directory with their inodes, links not followed, down to
\* twenty directories below; one directory's, with what is found below each of its own.
\* Past ten thousand entries it is cut short, which the property leaves out.
FindLevels == 21
FindLimit == 10000
FoundUnder(below, d, x) ==
  LET i == disk.entries[d][x] IN
    IF i = Absent THEN {} ELSE {<<<<x>>, i>>} \cup {<<<<x>> \o q[1], q[2]>> : q \in below[i]}
FoundIn(below, d) == UNION {FoundUnder(below, d, x) : x \in EntryNames}
FindRecursive(d) ==
  LET found[k \in 0..Cardinality(Inodes)] ==
        LET below == found[k - 1] IN
          [e \in Inodes |-> IF k = 0 \/ Kind(e) # "dir" THEN {} ELSE FoundIn(below, e)]
      levels == IF Cardinality(Inodes) <= FindLevels THEN Cardinality(Inodes) ELSE FindLevels
  IN IF d = Absent THEN {} ELSE found[levels][d]
\* du: what the directory's entries add up to; a link has a length of its own.
Length(i) == IF Kind(i) = "link" THEN 1 ELSE IF Kind(i) = "file" THEN disk.inode[i].length ELSE 0
SizeUnder(below, d, x) ==
  LET i == disk.entries[d][x] IN IF Kind(i) = "dir" THEN below[i] ELSE Length(i)
SizeOf(below, d) == SumFunction([x \in EntryNames |-> SizeUnder(below, d, x)])
DirSize(d) ==
  LET size[k \in 0..Cardinality(Inodes)] ==
        LET below == size[k - 1] IN
          [e \in Inodes |-> IF k = 0 THEN 0 ELSE SizeOf(below, e)]
  IN IF Kind(d) = "dir" THEN size[Cardinality(Inodes)][d] ELSE 0
\* test -e, -f, -d, -s: of what the path leads to, -s of a directory as well.
CmdTest(op, p) ==
  CASE op = "-e" -> Metadata(p) # Absent
    [] op = "-f" -> Kind(Metadata(p)) = "file"
    [] op = "-d" -> Kind(Metadata(p)) = "dir"
    [] op = "-s" -> IF Kind(Metadata(p)) = "dir" THEN DirLength > 0 ELSE Length(Metadata(p)) > 0

-----------------------------------------------------------------------------
(* The SFTP session: a request is handled in one go.  A file's handle stays  *)
(* with the inode it was opened on, a directory's has its path only.  A      *)
(* request that fails changes nothing.                                       *)

Request(disks) ==
  /\ answer' = NoLook /\ UNCHANGED looked
  /\ \E d \in disks : disk' = Tidied(d, Held(handles'))
SameHandles == UNCHANGED <<handles, next_handle>>
MayOpen == next_handle < MaxHandles
AllocHandle(state) ==
  /\ next_handle' = next_handle + 1
  /\ handles' = [h \in DOMAIN handles \cup {next_handle} |-> IF h = next_handle THEN state ELSE handles[h]]

\* EXCLUDE makes a new file and nothing else will do; CREATE and TRUNCATE ask for
\* WRITE or APPEND, TRUNCATE not for APPEND; a directory can be opened to read.
Refused(flags) ==
  \/ flags \cap {"WRITE", "APPEND"} = {} /\ flags \cap {"CREATE", "TRUNCATE", "EXCLUDE"} # {}
  \/ {"APPEND", "TRUNCATE"} \subseteq flags /\ "EXCLUDE" \notin flags
Openable(p, flags) ==
  LET i == Metadata(p) IN
    IF Refused(flags) THEN {}
    ELSE IF "EXCLUDE" \in flags THEN Made(Here(p), Plain)
    ELSE IF Kind(i) = "none" /\ "CREATE" \in flags THEN Made(There(p), Plain)
    ELSE IF Kind(i) = "file" /\ "TRUNCATE" \in flags THEN Written(p, 0)
    ELSE IF Kind(i) = "file" \/ (Kind(i) = "dir" /\ flags = {"READ"}) THEN {disk} ELSE {}
Writes(flags) == IF "APPEND" \in flags THEN "end" ELSE IF "WRITE" \in flags THEN "at" ELSE "no"
SftpOpen(p, flags) ==
  /\ MayOpen
  /\ \E d \in Openable(p, flags) :
    LET place == There(p)  i == d.entries[place[1]][place[2]] IN
      /\ AllocHandle([kind |-> "file", inode |-> i, writes |-> Writes(flags), read_done |-> FALSE])
      /\ Request({d})
SftpClose(h) ==
  /\ handles' = [g \in DOMAIN handles \ {h} |-> handles[g]] /\ UNCHANGED next_handle
  /\ Request({disk})

\* One byte at an offset, or at the end of a file opened to append.
SftpWrite(h, offset) ==
  LET i == handles[h].inode  len == disk.inode[i].length
      upto == IF handles[h].writes = "end" THEN len + 1 ELSE IF offset < len THEN len ELSE offset + 1 IN
    /\ handles[h].kind = "file" /\ handles[h].writes # "no" /\ upto <= MaxLength
    /\ SameHandles /\ Request({[disk EXCEPT !.inode[i].length = upto]})

SftpOpendir(p) ==
  /\ MayOpen /\ Kind(Metadata(p)) = "dir"
  /\ AllocHandle([kind |-> "dir", inode |-> Absent, writes |-> "no", read_done |-> FALSE])
  /\ Request({disk})
\* The whole listing at once, and then the end.
SftpReaddir(h) ==
  /\ handles[h].kind = "dir" /\ ~handles[h].read_done
  /\ handles' = [handles EXCEPT ![h].read_done = TRUE] /\ UNCHANGED next_handle /\ Request({disk})

SftpRemove(p) == SameHandles /\ Request(Unlinked(p))
SftpMkdir(p) == SameHandles /\ Request(DirMade(p))
SftpRmdir(p) == SameHandles /\ Request(DirRemoved(p))
SftpRename(p, q) == SameHandles /\ Request(Renamed(p, q))
SftpSymlink(x, p) == SameHandles /\ Request(SymlinkMade(x, p))

-----------------------------------------------------------------------------
OpenFlags == {{"READ"}, {"WRITE", "CREATE", "TRUNCATE"}, {"WRITE", "CREATE", "EXCLUDE"},
              {"APPEND", "CREATE"}, {"READ", "CREATE"}}

ShellNext(p) ==
  \/ \E recursive, force \in BOOLEAN : CmdRmLooks(p, recursive, force)
  \/ CmdRmActs(p) \/ CmdMkdir(p) \/ CmdMkdirParent(p) \/ CmdMkdirP(p)
  \/ CmdTouchLooks(p) \/ CmdTouchActs(p)
  \/ \E q \in Paths : CmdCp(q, p) \/ CmdMv(q, p) \/ \E s \in BOOLEAN : CmdLn(q, p, s)
  \/ \E n \in Lengths, append \in BOOLEAN : CmdWrite(p, n, append)

SftpNext ==
  \/ \E p \in Paths :
       \/ \E flags \in OpenFlags : SftpOpen(p, flags)
       \/ \E q \in Paths : SftpRename(q, p)
       \/ \E x \in EntryNames : SftpSymlink(x, p)
       \/ SftpOpendir(p) \/ SftpRemove(p) \/ SftpMkdir(p) \/ SftpRmdir(p)
  \/ \E h \in DOMAIN handles :
       \/ SftpClose(h) \/ SftpReaddir(h)
       \/ \E offset \in Lengths : SftpWrite(h, offset)

FilesNext == SftpNext \/ \E p \in Paths : ShellNext(p)

FilesSpec == FilesInit /\ [][FilesNext]_FilesVars

-----------------------------------------------------------------------------
(* Properties.                                                               *)

\* The type invariant: every entry is of a directory, and a directory has one name.
FilesTypeOK ==
  /\ DOMAIN handles \subseteq 0..(MaxHandles - 1) /\ next_handle \in 0..MaxHandles
  /\ \A d \in Inodes, x \in EntryNames :
       /\ disk.entries[d][x] \in (Inodes \cup {Absent}) \ {Root}
       /\ disk.entries[d][x] # Absent => Kind(d) = "dir"
  /\ \A i \in Inodes : disk.inode[i].length \in Lengths

\* What du adds up is what find finds, each name once, in a tree no deeper than find goes
\* and with no more than it gives; ls -a lists its first level, and ls what is not hidden
\* of it.  A file that test -s is true of, du counts.
SizesAgree ==
  \A p \in {p \in Paths : Metadata(p) # Absent} : LET d == Metadata(p)  found == FindRecursive(d) IN
    /\ CmdTest("-e", p) /\ (CmdTest("-f", p) \/ CmdTest("-d", p))
    /\ CmdTest("-f", p) => \A all \in BOOLEAN : CmdLs(p, all) = {p}
    /\ Len(p) = 2 => p[2] \in CmdLs(<<p[1]>>, TRUE)
    /\ Len(p) = 2 /\ CmdTest("-f", p) /\ CmdTest("-s", p) => DirSize(Metadata(<<p[1]>>)) > 0
    /\ Cardinality(Inodes) <= FindLevels /\ Cardinality(found) <= FindLimit =>
         /\ DirSize(d) = SumFunction([q \in found |-> Length(q[2])])
         /\ CmdTest("-d", p) => LET first == {q[1][1] : q \in found} IN
                                 CmdLs(p, TRUE) = first /\ CmdLs(p, FALSE) = first \ Hidden

\* The answer of the last command, said of the disk it left.
AnswerTrue ==
  CASE answer.cmd = "rm" -> SymlinkMetadata(answer.path) = Absent
    [] answer.cmd = "mv" -> At(answer.place) = answer.inode
    [] answer.cmd = "mkdir" -> Kind(Metadata(answer.path)) = "dir"
    [] answer.cmd = "touch" -> Metadata(answer.path) # Absent
    [] answer.cmd = "write" -> Length(Metadata(answer.path)) >= answer.length
    [] OTHER -> TRUE

\* mod.rs: "Exit status of a standalone applet: 0 success, 1 failure": a command that
\* says 0 has done what it was asked, though the SFTP session may have changed its
\* operand since it looked: what it removed is gone, what it moved is at the new name,
\* a copy is as long as what was copied, unless it was copied
\* onto itself, a directory or a file that it makes is there.  And what du, find, ls
\* and test say of one tree agrees.
DoneAsSaid == SizesAgree /\ AnswerTrue

=============================================================================
