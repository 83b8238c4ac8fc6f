----------------------------- MODULE ReverseTree -----------------------------
(***************************************************************************)
(* semestr1/Task3/Task3_1/main.c: for every folder named on the command line *)
(* a folder beside it whose name is reversed, filled with the reversed       *)
(* copies of what the first one holds.                                       *)
(*                                                                           *)
(* A name is a sequence of characters (Dot is one), a path a sequence of     *)
(* names that begins with the folder the argument lies in, <<Dot>> when the  *)
(* argument has no slash.  Paths stay within the buffers, and a name is      *)
(* shorter than the paths of the entries beside it.  An argument with a      *)
(* slash overwrites path_to_folder up to the slash, so what is behind it     *)
(* keeps its place when the folders have names of one length: the command    *)
(* lines are those.                                                          *)
(* strncpy copies a name without its terminator, so what the buffer held     *)
(* before shows behind a shorter name: fresh says whether memory from malloc *)
(* reads as zeros or as Garbage.  Another process may change a file.         *)
(***************************************************************************)
EXTENDS Integers, Sequences

CONSTANTS Characters, Dot, Garbage,
          BUFFER_SIZE,
          Commands,      \* the argument lists, of records [dir, name]
          Disks,         \* the file systems: path -> [type, data]
          CHANGES        \* bound on the changes of files by others

Names == Seq(Characters)
Paths == {p \in Seq(Names) : p # <<>>}

Dots == {<<Dot>>, <<Dot, Dot>>}

\* A file system: what has a path is in a folder, that one in another, up to
\* the one an argument lies in, and nothing is called as the entries that
\* readdir gives of every folder.
InFolders(d) == \A p \in DOMAIN d : \A k \in 2 .. Len(p) - 1 :
    SubSeq(p, 1, k) \in DOMAIN d /\ d[SubSeq(p, 1, k)].type = "dir"
NoDots(d) == \A p \in DOMAIN d : \A k \in 3 .. Len(p) : p[k] \notin Dots

ASSUME TreeAssumption ==
    /\ BUFFER_SIZE \in Nat \ {0} /\ Dot \in Characters /\ Garbage \in Names
    /\ \A c \in Commands :
          /\ c \in Seq([dir : Names, name : Names \ {<<>>}])
          /\ \A j, k \in 1 .. Len(c) :
                j < k /\ c[k].dir # <<Dot>> => Len(c[j].dir) = Len(c[k].dir)
    /\ \A d \in Disks :
          /\ \A p \in DOMAIN d : p \in Paths /\ d[p].data \in Seq(Int)
          /\ InFolders(d) /\ NoDots(d)

VARIABLES args, disk, fresh, changes,
          i,               \* the argument run is at
          rev_folder,      \* the buffer for an argument's reversed name
          path_to_folder,  \* what the buffer of this name holds behind the slash
          stack,           \* the calls of fill_folder
          file,            \* the copy create_reverse_file is making, or NoFile
          copied,          \* output path, not changed since -> its input when measured
          made,            \* argument -> the folder made for it
          lost,            \* some fill_folder returned ERROR
          ret              \* what run returned

treeVars == <<args, disk, fresh, changes, i, rev_folder, path_to_folder, stack, file,
          copied, made, lost, ret>>
runVars == <<args, fresh, i, rev_folder, path_to_folder, made, ret>>

NoFile == [left |-> -1]
Unset == IF fresh THEN {<<>>} ELSE {<<>>, Garbage}

TreeInit ==
    /\ args \in Commands /\ disk \in Disks /\ fresh \in BOOLEAN
    /\ changes = 0 /\ i = 1
    /\ rev_folder \in Unset /\ path_to_folder \in Unset
    /\ stack = <<>> /\ file = NoFile /\ copied = <<>> /\ made = <<>>
    /\ lost = FALSE /\ ret = "none"
-----------------------------------------------------------------------------
\* strncpy(buffer, name, strlen(name)).
Strncpy(buffer, name) == name \o SubSeq(buffer, Len(name) + 1, Len(buffer))

\* The characters below size / 2 change places with those above.
reverse_line(line) ==
    LET mid_len == Len(line) \div 2
    IN  [k \in 1 .. Len(line) |->
            IF k <= mid_len \/ k > Len(line) - mid_len THEN line[Len(line) + 1 - k] ELSE line[k]]

Put(path, node) == [p \in DOMAIN disk \cup {path} |-> IF p = path THEN node ELSE disk[p]]
IsDir(path) == path \in DOMAIN disk /\ disk[path].type = "dir"
Entries(path) ==
    Dots \cup {p[Len(p)] : p \in {q \in DOMAIN disk : SubSeq(q, 1, Len(q) - 1) = path}}

\* The call of fill_folder that runs, and those that wait for it.
Top == stack[Len(stack)]
Callers == SubSeq(stack, 1, Len(stack) - 1)
Frames(from, to) ==
    {[from |-> from, to |-> to, left |-> Entries(from), name |-> name] : name \in Unset}

\* fill_folder returns ERROR, and create_reverse_folder says OK all the same.
FillFails(calls) == stack' = calls /\ lost' = TRUE

\* create_reverse_folder after its mkdir: fill_folder opens the folder, which
\* may be the one just made, and allocates its buffers, or fails.
Fill(calls, from, to) ==
    \/ /\ IsDir(from) \/ from = to
       /\ \E frame \in Frames(from, to) : stack' = Append(calls, frame)
       /\ UNCHANGED lost
    \/ FillFails(calls)

MkdirFails(to) == to \in DOMAIN disk \/ to[Len(to)] \in Dots
Folder == [type |-> "dir", data |-> <<>>]
-----------------------------------------------------------------------------
\* One argument of run: find_name_folder, the reversed name, and
\* create_reverse_folder.  The buffers keep what the last argument left.
Argument ==
    /\ ret = "none" /\ stack = <<>> /\ i <= Len(args)
    /\ LET arg == args[i]
           name == reverse_line(Strncpy(rev_folder, arg.name))
           rest == (IF arg.dir = <<Dot>> THEN <<>> ELSE path_to_folder) \o name
           to == <<arg.dir, rest>>
       IN  /\ rev_folder' = name /\ path_to_folder' = rest
           /\ \/ /\ ret' = "ERROR"                   \* mkdir failed
                 /\ UNCHANGED <<i, disk, made, stack, lost>>
              \/ /\ ~MkdirFails(to)
                 /\ disk' = Put(to, Folder)
                 /\ Fill(<<>>, <<arg.dir, arg.name>>, to)
                 /\ made' = Append(made, to) /\ i' = i + 1
                 /\ UNCHANGED ret
    /\ UNCHANGED <<args, fresh, changes, file, copied>>

Finish ==
    /\ ret = "none" /\ stack = <<>> /\ i > Len(args)
    /\ ret' = "OK"
    /\ UNCHANGED <<args, disk, fresh, changes, i, rev_folder, path_to_folder, stack, file,
                   copied, made, lost>>

AfterEntryKept(n, name) == [Top EXCEPT !.left = @ \ {n}, !.name = name]

\* The call goes on with the next entry.  The memset at the end of the loop
\* clears as many bytes of the name as the entry's path has, which is more than
\* a name has here.
AfterEntry(n, name) == [Top EXCEPT !.left = @ \ {n}, !.name = <<>>]

\* An entry of the folder, in whatever order readdir gives them.
Entry(n) ==
    /\ stack # <<>> /\ file = NoFile /\ n \in Top.left
    /\ LET name == reverse_line(Strncpy(Top.name, n))
           from == Append(Top.from, n)
           to == Append(Top.to, name)
       IN  \/ /\ n \in Dots
              /\ stack' = Append(Callers, AfterEntry(n, name))
              /\ UNCHANGED <<disk, file, copied, lost>>
           \/ /\ n \notin Dots /\ disk[from].type = "dir"
              /\ ~MkdirFails(to)
              /\ disk' = Put(to, Folder)
              /\ Fill(Append(Callers, AfterEntry(n, name)), from, to)
              /\ UNCHANGED <<file, copied>>
           \/ /\ n \notin Dots /\ disk[from].type = "reg"
              /\ ~IsDir(to)
              /\ disk' = Put(to, [type |-> "reg", data |-> <<>>])
              /\ file' = [from |-> from, to |-> to, before |-> disk[from].data, pos |-> 0,
                          left |-> Len(disk[from].data), written |-> TRUE, kept |-> TRUE]
              /\ copied' = [p \in DOMAIN copied \ {to} |-> copied[p]]
              /\ stack' = Append(Callers, AfterEntry(n, name))
              /\ UNCHANGED lost
           \/ /\ n \notin Dots                      \* neither, or mkdir or fopen failed
              /\ FillFails(Callers)
              /\ UNCHANGED <<disk, file, copied>>
    /\ UNCHANGED <<runVars, changes>>

FillReturns ==
    /\ stack # <<>> /\ file = NoFile /\ Top.left = {}
    /\ stack' = Callers
    /\ UNCHANGED <<runVars, disk, changes, file, copied, lost>>

\* fseek to offset and fwrite: a hole in front of the block reads as zeros.
Write(data, offset, block) ==
    [k \in 1 .. (IF Len(data) > offset + Len(block) THEN Len(data) ELSE offset + Len(block)) |->
        IF k > offset /\ k <= offset + Len(block) THEN block[k - offset]
        ELSE IF k <= Len(data) THEN data[k] ELSE 0]

OffsetTooLate(bytes_left, bytes_read) == bytes_left

\* Where the block goes: bytes_left, less the block, from the start of the output.
Offset(bytes_left, bytes_read) == bytes_left - bytes_read

\* One turn of create_reverse_file's loop.  stdio reads ahead, so the block is
\* what the file holds now or held when it was measured.  Nobody notices a
\* write that fails: fwrite's count is never the ERROR it is compared with.
ReadBlock ==
    /\ file.left > 0
    /\ LET bytes == IF file.left < BUFFER_SIZE THEN file.left ELSE BUFFER_SIZE
           Turn(written) == file' = [file EXCEPT !.pos = @ + bytes, !.left = @ - bytes,
                                                 !.written = @ /\ written]
       IN  \E data \in {disk[file.from].data, file.before} :
             /\ file.pos + bytes <= Len(data)
             /\ \/ /\ disk' = Put(file.to, [type |-> "reg", data |->
                           Write(disk[file.to].data, Offset(file.left, bytes),
                                 reverse_line(SubSeq(data, file.pos + 1, file.pos + bytes)))])
                   /\ Turn(TRUE)
                \/ Turn(FALSE) /\ UNCHANGED disk
    /\ UNCHANGED <<runVars, changes, stack, copied, lost>>

\* The end of the file before bytes_left bytes, an error of fread or of fseek.
FileFails ==
    /\ file.left > 0
    /\ file' = NoFile /\ FillFails(Callers)
    /\ UNCHANGED <<runVars, disk, changes, copied>>

FileDone ==
    /\ file # NoFile /\ file.left = 0
    /\ copied' = IF ~(file.written /\ file.kept) THEN copied
                 ELSE [p \in DOMAIN copied \cup {file.to} |->
                          IF p = file.to THEN file.before ELSE copied[p]]
    /\ file' = NoFile
    /\ UNCHANGED <<runVars, disk, changes, stack, lost>>

\* Another process cuts the file being copied short, appends to it or overwrites
\* a byte.  Overwriting, and appending to a file that has been cut, may put other
\* bytes where those measured were (kept).  A file so changed may be an earlier
\* copy, which then is one no longer.
Change ==
    /\ file # NoFile /\ changes < CHANGES
    /\ LET data == disk[file.from].data
           To(new, kept) ==
               /\ disk' = Put(file.from, [type |-> "reg", data |-> new])
               /\ file' = [file EXCEPT !.kept = @ /\ kept]
       IN  \/ To(SubSeq(data, 1, Len(data) - 1), TRUE)
           \/ To(Append(data, 1), Len(data) >= Len(file.before))
           \/ \E k \in 1 .. Len(data) : To([data EXCEPT ![k] = 0], k > Len(file.before))
    /\ copied' = [p \in DOMAIN copied \ {file.from} |-> copied[p]]
    /\ changes' = changes + 1
    /\ UNCHANGED <<runVars, stack, lost>>

Over == ret # "none" /\ UNCHANGED treeVars
TreeNext ==
    \/ Argument \/ Finish \/ FillReturns \/ ReadBlock \/ FileFails \/ FileDone \/ Change \/ Over
    \/ stack # <<>> /\ \E n \in Top.left : Entry(n)

TreeSpec == TreeInit /\ [][TreeNext]_treeVars
-----------------------------------------------------------------------------
(* Properties.                                                               *)

Below(path) == {SubSeq(p, 3, Len(p)) : p \in {q \in DOMAIN disk : SubSeq(q, 1, 2) = path /\ Len(q) > 2}}
Reversed(s) == [k \in 1 .. Len(s) |-> s[Len(s) + 1 - k]]
Mirrored(paths) == {[k \in 1 .. Len(p) |-> Reversed(p[k])] : p \in paths}

\* The arguments whose names run gets right: only the first may have a slash,
\* and no name is shorter than the one before it.
Orderly == \A k \in 2 .. Len(args) :
    args[k].dir = <<Dot>> /\ Len(args[k].name) >= Len(args[k - 1].name)

\* When memory from malloc reads as zeros, the arguments are orderly, no call of
\* fill_folder has failed and run returns OK, every folder has a copy beside it
\* that holds all it holds, at every depth, each under its reversed name.
MirrorsFolder ==
    ret = "OK" /\ ~lost /\ fresh /\ Orderly =>
        \A k \in 1 .. Len(args) :
            LET from == <<args[k].dir, args[k].name>>
                to == <<args[k].dir, Reversed(args[k].name)>>
            IN  made[k] = to /\ Below(to) = Mirrored(Below(from))

\* A copy that create_reverse_file finished, all its writes done, is the reverse
\* of what the file held when its size was taken, although it is read block by
\* block and another process may append to it or cut it short in between; copies
\* of a file in which bytes that had been measured were overwritten, or cut and
\* then appended again, are left out.
ReversesFile == \A p \in DOMAIN copied : disk[p].data = Reversed(copied[p])
-----------------------------------------------------------------------------
(* The inductive invariants: TreeInv, behind ReversesFile.                   *)

Calls == [from : Paths, to : Paths, left : SUBSET Names, name : Names]
Files == [from : Paths, to : Paths, before : Seq(Int), pos : Nat, left : Nat,
          written : BOOLEAN, kept : BOOLEAN]

TreeTypes ==
    /\ args \in Seq([dir : Names, name : Names]) /\ i \in Nat \ {0}
    /\ rev_folder \in Names /\ path_to_folder \in Names
    /\ \A p \in DOMAIN disk : p \in Paths /\ disk[p].data \in Seq(Int)
    /\ stack \in Seq(Calls) /\ file \in Files \cup {NoFile}

\* A call of fill_folder fills another folder than it reads, unless there is
\* nothing in it, and what is left for it to read exists.
CallInv(call) ==
    /\ call.from # call.to \/ call.left \subseteq Dots
    /\ \A n \in call.left \ Dots : Append(call.from, n) \in DOMAIN disk
StackInv == \A k \in 1 .. Len(stack) : CallInv(stack[k])

\* The file that is copied still begins as it did, as far as it goes, and what
\* has been read of it stands reversed at the end of the output.
CopyInv ==
    LET in == disk[file.from].data
        out == disk[file.to].data
        size == Len(file.before)
    IN  /\ {file.from, file.to} \subseteq DOMAIN disk /\ file.from # file.to
        /\ file.to \notin DOMAIN copied
        /\ file.pos + file.left = size
        /\ file.kept => \A k \in 1 .. size : k <= Len(in) => in[k] = file.before[k]
        /\ file.written /\ file.kept =>
              /\ file.pos = 0 => Len(out) = 0
              /\ file.pos > 0 => Len(out) = size
              /\ \A k \in 1 .. size : k > file.left => out[k] = file.before[size + 1 - k]

CopiedInv == \A p \in DOMAIN copied : p \in DOMAIN disk /\ copied[p] \in Seq(Int)

TreeInv ==
    /\ TreeTypes /\ StackInv /\ CopiedInv /\ ReversesFile
    /\ file # NoFile => CopyInv
-----------------------------------------------------------------------------
(* ShapeInv, the disk stays a file system, and MirrorInv, behind             *)
(* MirrorsFolder.                                                            *)

ShapeInv ==
    /\ InFolders(disk)
    /\ \A k \in 1 .. Len(stack) : IsDir(stack[k].to)
    /\ file # NoFile => disk[file.from].type = "reg" /\ disk[file.to].type = "reg"

\* No failure that fill_folder hides, and none of run's mistakes with names.
AsMeant == ~lost /\ fresh /\ Orderly /\ ret # "ERROR"

\* Where the copy of a path belongs, and where the argument's folder is.
Image(path) == [k \in 1 .. Len(path) |-> IF k = 1 THEN path[1] ELSE Reversed(path[k])]
Origin(k) == <<args[k].dir, args[k].name>>

\* The call has yet to come to this path, or to a folder above it.
Pending(path, call) ==
    /\ Len(path) > Len(call.from) /\ SubSeq(path, 1, Len(call.from)) = call.from
    /\ path[Len(call.from) + 1] \in call.left

\* The buffers of run are not longer than the name that comes next.
BuffersInv ==
    /\ i <= Len(args) + 1
    /\ i = 1 => rev_folder = <<>> /\ path_to_folder = <<>>
    /\ i > 1 => Len(rev_folder) = Len(args[i - 1].name)

\* Every call fills the image of what it reads, and its name buffer is clear.
ImageInv == \A k \in 1 .. Len(stack) :
    /\ stack[k].name = <<>> /\ Len(stack[k].from) >= 2
    /\ stack[k].to = Image(stack[k].from)

\* What lies below an argument's folder or below its copy has its counterpart,
\* unless some call has yet to come to it.
Paired(path) ==
    \/ Image(path) \in DOMAIN disk
    \/ \E k \in 1 .. Len(stack) : Pending(path, stack[k])
PairedInv == \A k \in 1 .. i - 1 : \A path \in DOMAIN disk :
    Len(path) > 2 /\ SubSeq(path, 1, 2) \in {Origin(k), Image(Origin(k))} => Paired(path)

MadeInv == made \in Seq(Paths) /\ Len(made) = i - 1 /\ \A k \in 1 .. i - 1 : made[k] = Image(Origin(k))

Mirroring ==
    /\ NoDots(disk) /\ BuffersInv /\ ImageInv /\ PairedInv /\ MadeInv
    /\ ret = "OK" => stack = <<>> /\ i > Len(args)
MirrorInv == AsMeant => Mirroring
=============================================================================
