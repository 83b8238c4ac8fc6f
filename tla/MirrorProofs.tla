---------------------------- MODULE MirrorProofs -----------------------------
(***************************************************************************)
(* ReversesFile and MirrorsFolder of the reversing copy, for any file        *)
(* system, command lines, buffer size and number of changes by others.       *)
(* Two invariants carry the second besides TreeInv.  ShapeInv: every path    *)
(* lies in a folder, so what is below a folder is below one of its entries.  *)
(* MirrorInv, as long as nothing has gone wrong: a path below a folder or    *)
(* its copy has its image on the disk, or a call of fill_folder that runs    *)
(* has yet to come to it.  When none runs, nothing is left to come to.       *)
(***************************************************************************)
EXTENDS TreeProofs

(* No folder is lost and none becomes a file. *)
DirsStay == \A p \in DOMAIN disk : p \in DOMAIN disk' /\ (disk[p].type = "dir" => disk'[p].type = "dir")

(* What Put changes. *)
LEMMA PutIs ==
    ASSUME NEW path, NEW node, disk' = Put(path, node)
    PROVE  /\ DOMAIN disk' = DOMAIN disk \cup {path} /\ disk'[path] = node
           /\ \A p \in DOMAIN disk : p # path => disk'[p] = disk[p]
BY DEF Put

(* A file or folder put into a folder, over no folder: what there is stays in
   folders. *)
LEMMA PutInFolder ==
    ASSUME TreeTypes, InFolders(disk), NEW path \in Paths, NEW node, disk' = Put(path, node),
           node.type = "dir" \/ ~IsDir(path),
           path \in DOMAIN disk \/ Len(path) <= 2 \/ IsDir(SubSeq(path, 1, Len(path) - 1))
    PROVE  InFolders(disk') /\ DirsStay
<1>1. /\ DOMAIN disk' = DOMAIN disk \cup {path} /\ disk'[path] = node
      /\ \A p \in DOMAIN disk : p # path => disk'[p] = disk[p]
  BY PutIs
<1>2. DirsStay
  BY <1>1 DEF DirsStay, IsDir
<1>3. ASSUME NEW p \in DOMAIN disk', NEW k \in 2 .. Len(p) - 1
      PROVE  SubSeq(p, 1, k) \in DOMAIN disk /\ disk[SubSeq(p, 1, k)].type = "dir"
  <2>1. CASE p \in DOMAIN disk
    BY <2>1, <1>3 DEF InFolders
  <2>2. CASE p \notin DOMAIN disk
    <3>1. p = path /\ p \in Seq(Names) /\ p # <<>> /\ Len(p) \in Nat \ {0} /\ k \in Nat /\ k >= 2 /\ k <= Len(p) - 1
      BY <1>1, <1>3, <2>2 DEF Paths
    <3>2. PICK f : f = SubSeq(p, 1, Len(p) - 1)
      OBVIOUS
    <3>3. f \in Seq(Names) /\ Len(f) = Len(p) - 1
      BY <3>1, <3>2, FrontLast
    <3>4. IsDir(f)
      BY <2>2, <3>1, <3>2
    <3>5. SubSeq(p, 1, k) = SubSeq(f, 1, k)
      <4>1. Len(p) - 1 \in Nat /\ Len(p) - 1 <= Len(p)
        BY <3>1
      <4> QED
        BY <3>1, <3>2, <4>1, PrefixOfPrefix
    <3>6. CASE k = Len(p) - 1
      BY <3>2, <3>4, <3>6 DEF IsDir
    <3>7. CASE k # Len(p) - 1
      <4>1. k \in 2 .. Len(f) - 1
        BY <3>1, <3>3, <3>7
      <4> QED
        BY <3>4, <3>5, <4>1 DEF InFolders, IsDir
    <3> QED
      BY <3>6, <3>7
  <2> QED
    BY <2>1, <2>2
<1>4. InFolders(disk')
  BY <1>2, <1>3 DEF InFolders, DirsStay
<1> QED
  BY <1>2, <1>4

(* What lies below a folder is or lies in an entry of it. *)
LEMMA InAnEntry ==
    ASSUME TreeTypes, InFolders(disk), NEW p \in DOMAIN disk, NEW from \in Paths, Len(from) >= 2,
           Len(p) > Len(from), SubSeq(p, 1, Len(from)) = from
    PROVE  p[Len(from) + 1] \in Entries(from)
<1>1. p \in Seq(Names) /\ p # <<>> /\ Len(p) \in Nat \ {0}
  BY DEF TreeTypes, Paths
<1>2. PICK m : m = Len(from) + 1
  OBVIOUS
<1>3. m \in Nat /\ m >= 3 /\ m <= Len(p) /\ m - 1 = Len(from) /\ Len(from) \in Nat
  BY <1>1, <1>2 DEF Paths
<1>4. PICK s : s = SubSeq(p, 1, m)
  OBVIOUS
<1>5. s \in Seq(Names) /\ Len(s) = m /\ s[m] = p[m]
  BY <1>1, <1>3, <1>4, Prefix
<1>6. s \in DOMAIN disk
  <2>1. CASE m = Len(p)
    BY <1>1, <1>4, <2>1, WholePrefix
  <2>2. CASE m # Len(p)
    <3>1. m \in 2 .. Len(p) - 1
      BY <1>1, <1>3, <2>2
    <3> QED
      BY <1>4, <3>1 DEF InFolders
  <2> QED
    BY <2>1, <2>2
<1>7. SubSeq(s, 1, m - 1) = from
  <2>1. SubSeq(s, 1, Len(from)) = SubSeq(p, 1, Len(from))
    <3>1. Len(from) <= m
      BY <1>3
    <3> QED
      BY <1>1, <1>3, <1>4, <3>1, PrefixOfPrefix
  <2> QED
    BY <1>3, <2>1
<1> QED
  BY <1>2, <1>5, <1>6, <1>7 DEF Entries

(* A path a call has yet to come to is, or lies in, the entry it comes to. *)
LEMMA PendingEntry ==
    ASSUME NEW p \in Paths, NEW call, call.from \in Paths, Pending(p, call)
    PROVE  LET n == p[Len(call.from) + 1]
               from == Append(call.from, n)
           IN  /\ n \in call.left /\ n \in Names /\ from \in Paths /\ Len(from) = Len(call.from) + 1
               /\ Len(p) >= Len(from) /\ SubSeq(p, 1, Len(from)) = from
<1>1. PICK f : f = call.from
  OBVIOUS
<1>2. PICK n : n = p[Len(f) + 1]
  OBVIOUS
<1>3. PICK from : from = Append(f, n)
  OBVIOUS
<1>4. /\ p \in Seq(Names) /\ f \in Seq(Names) /\ Len(f) \in Nat /\ Len(p) \in Nat
      /\ Len(p) > Len(f) /\ SubSeq(p, 1, Len(f)) = f /\ n \in call.left
  BY <1>1, <1>2 DEF Pending, Paths
<1>5. n \in Names
  BY <1>2, <1>4
<1>6. /\ from \in Seq(Names) /\ Len(from) = Len(f) + 1 /\ from[Len(f) + 1] = n
      /\ \A k \in 1 .. Len(f) : from[k] = f[k]
  BY <1>3, <1>4, <1>5
<1>7. PICK s : s = SubSeq(p, 1, Len(f) + 1)
  OBVIOUS
<1>8. s \in Seq(Names) /\ Len(s) = Len(f) + 1 /\ \A k \in 1 .. Len(f) + 1 : s[k] = p[k]
  <2>1. Len(f) + 1 \in Nat /\ Len(f) + 1 <= Len(p)
    BY <1>4
  <2> QED
    BY <1>4, <1>7, <2>1, Prefix
<1>9. \A k \in 1 .. Len(f) : p[k] = f[k]
  <2>1. Len(f) <= Len(p)
    BY <1>4
  <2>2. \A k \in 1 .. Len(f) : SubSeq(p, 1, Len(f))[k] = p[k]
    BY <1>4, <2>1, Prefix
  <2> QED
    BY <1>4, <2>2
<1>10. \A k \in 1 .. Len(s) : s[k] = from[k]
  <2> SUFFICES ASSUME NEW k \in 1 .. Len(f) + 1 PROVE s[k] = from[k]
    BY <1>8
  <2>1. CASE k = Len(f) + 1
    BY <1>2, <1>6, <1>8, <2>1
  <2>2. CASE k # Len(f) + 1
    <3>1. k \in 1 .. Len(f)
      BY <1>4, <2>2
    <3> QED
      BY <1>6, <1>8, <1>9, <3>1
  <2> QED
    BY <2>1, <2>2
<1>11. s = from
  BY <1>6, <1>8, <1>10, SameSeq
<1>12. from \in Paths /\ Len(p) >= Len(from)
  BY <1>4, <1>6 DEF Paths
<1> QED
  BY <1>1, <1>2, <1>3, <1>4, <1>5, <1>6, <1>7, <1>11, <1>12

(* The files change, but not what is there and of which type. *)
LEMMA SameShape ==
    ASSUME TreeInv, ShapeInv, MirrorInv,
           DOMAIN disk' = DOMAIN disk, \A p \in DOMAIN disk : disk'[p].type = disk[p].type,
           UNCHANGED <<runVars, stack, lost>>,
           file' = NoFile \/ (file # NoFile /\ file'.from = file.from /\ file'.to = file.to)
    PROVE  ShapeInv' /\ MirrorInv'
<1>1. InFolders(disk)'
  BY DEF ShapeInv, InFolders
<1>2. (\A k \in 1 .. Len(stack) : IsDir(stack[k].to))'
  BY DEF ShapeInv, IsDir
<1>3. (file # NoFile => disk[file.from].type = "reg" /\ disk[file.to].type = "reg")'
  BY DEF ShapeInv, TreeInv, CopyInv
<1>4. ASSUME AsMeant' PROVE Mirroring'
  <2>1. Mirroring
    BY <1>4 DEF MirrorInv, AsMeant, Orderly, runVars
  <2>2. NoDots(disk)'
    BY <2>1 DEF Mirroring, NoDots
  <2>3. BuffersInv' /\ ImageInv' /\ MadeInv' /\ (ret = "OK" => stack = <<>> /\ i > Len(args))'
    BY <2>1 DEF Mirroring, BuffersInv, ImageInv, MadeInv, Origin, runVars
  <2>4. PairedInv'
    BY <2>1 DEF Mirroring, PairedInv, Paired, Origin, runVars
  <2> QED
    BY <2>2, <2>3, <2>4 DEF Mirroring
<1> QED
  BY <1>1, <1>2, <1>3, <1>4 DEF ShapeInv, MirrorInv

(* The steps of create_reverse_file and of the other process change data. *)
LEMMA CopyingMirrors ==
    ASSUME TreeInv, ShapeInv, MirrorInv, ReadBlock \/ Change \/ FileDone
    PROVE  ShapeInv' /\ MirrorInv'
<1>1. CASE FileDone
  <2>1. UNCHANGED <<disk, runVars, stack, lost>> /\ file' = NoFile
    BY <1>1 DEF FileDone
  <2> QED
    BY <2>1, SameShape
<1>2. ASSUME NEW path \in {file.from, file.to}, NEW data, file # NoFile,
             disk' = Put(path, [type |-> "reg", data |-> data]),
             UNCHANGED <<runVars, stack, lost>>,
             file'.from = file.from, file'.to = file.to
      PROVE  ShapeInv' /\ MirrorInv'
  <2>1. path \in DOMAIN disk /\ disk[path].type = "reg"
    BY <1>2 DEF TreeInv, ShapeInv, CopyInv
  <2>2. /\ DOMAIN disk' = DOMAIN disk \cup {path} /\ disk'[path] = [type |-> "reg", data |-> data]
        /\ \A p \in DOMAIN disk : p # path => disk'[p] = disk[p]
    BY <1>2, PutIs
  <2>3. DOMAIN disk' = DOMAIN disk /\ \A p \in DOMAIN disk : disk'[p].type = disk[p].type
    BY <2>1, <2>2
  <2> QED
    BY <1>2, <2>3, SameShape
<1>3. CASE Change
  <2>1. file # NoFile /\ UNCHANGED <<runVars, stack, lost>>
    BY <1>3 DEF Change
  <2>2. PICK new, kept : /\ disk' = Put(file.from, [type |-> "reg", data |-> new])
                         /\ file' = [file EXCEPT !.kept = @ /\ kept]
    BY <1>3, Zenon DEF Change
  <2>3. file'.from = file.from /\ file'.to = file.to
    <3>1. file \in Files
      BY <2>1 DEF TreeInv, TreeTypes
    <3> QED
      BY <2>2, <3>1 DEF Files
  <2> QED
    BY <1>2, <2>1, <2>2, <2>3
<1>4. CASE ReadBlock
  <2>1. file.left > 0 /\ UNCHANGED <<runVars, stack, lost>>
    BY <1>4 DEF ReadBlock
  <2>2. file # NoFile
    BY <2>1 DEF NoFile
  <2>3. PICK bytes, written, data :
          /\ file' = [file EXCEPT !.pos = @ + bytes, !.left = @ - bytes, !.written = @ /\ written]
          /\ \/ disk' = Put(file.to, [type |-> "reg", data |-> data])
             \/ UNCHANGED disk
    <3>1. PICK f : f = file
      OBVIOUS
    <3>2. PICK b : b = IF f.left < BUFFER_SIZE THEN f.left ELSE BUFFER_SIZE
      OBVIOUS
    <3>3. PICK in : in = disk[f.from].data
      OBVIOUS
    <3>4. PICK out : out = disk[f.to].data
      OBVIOUS
    <3>5. PICK d \in {in, f.before}, w \in BOOLEAN :
            /\ file' = [f EXCEPT !.pos = @ + b, !.left = @ - b, !.written = @ /\ w]
            /\ \/ /\ w
                  /\ disk' = Put(f.to, [type |-> "reg", data |->
                        Write(out, Offset(f.left, b),
                              reverse_line(SubSeq(d, f.pos + 1, f.pos + b)))])
               \/ ~w /\ UNCHANGED disk
      BY <1>4, <3>1, <3>2, <3>3, <3>4 DEF ReadBlock
    <3>6. PICK data : data = Write(out, Offset(f.left, b),
                                  reverse_line(SubSeq(d, f.pos + 1, f.pos + b)))
      OBVIOUS
    <3>7. \/ disk' = Put(f.to, [type |-> "reg", data |-> data])
          \/ UNCHANGED disk
      BY <3>5, <3>6, Zenon
    <3> QED
      BY <3>1, <3>5, <3>7, Zenon
  <2>4. file'.from = file.from /\ file'.to = file.to
    <3>1. file \in Files
      BY <2>2 DEF TreeInv, TreeTypes
    <3> QED
      BY <2>3, <3>1 DEF Files
  <2>5. CASE UNCHANGED disk
    BY <2>1, <2>2, <2>4, <2>5, SameShape
  <2>6. CASE disk' = Put(file.to, [type |-> "reg", data |-> data])
    BY <1>2, <2>1, <2>2, <2>4, <2>6
  <2> QED
    BY <2>3, <2>5, <2>6
<1> QED
  BY <1>1, <1>3, <1>4

(* run ends, or nothing happens. *)
LEMMA EndMirrors ==
    ASSUME TreeInv, ShapeInv, MirrorInv, Finish \/ Over \/ UNCHANGED treeVars
    PROVE  ShapeInv' /\ MirrorInv'
<1>1. CASE Over \/ UNCHANGED treeVars
  <2>1. UNCHANGED <<disk, runVars, stack, lost, file>>
    BY <1>1 DEF Over, treeVars, runVars
  <2> QED
    BY <2>1, SameShape
<1>2. CASE Finish
  <2>1. /\ UNCHANGED <<args, disk, fresh, i, rev_folder, path_to_folder, stack, file, made, lost>>
        /\ ret = "none" /\ stack = <<>> /\ i > Len(args)
    BY <1>2 DEF Finish
  <2>2. ShapeInv'
    BY <2>1 DEF ShapeInv, InFolders, IsDir
  <2>3. ASSUME AsMeant' PROVE Mirroring'
    <3>1. Mirroring
      BY <2>1, <2>3 DEF MirrorInv, AsMeant, Orderly
    <3>2. NoDots(disk)' /\ BuffersInv' /\ ImageInv' /\ MadeInv'
      BY <2>1, <3>1 DEF Mirroring, NoDots, BuffersInv, ImageInv, MadeInv, Origin
    <3>3. PairedInv'
      BY <2>1, <3>1 DEF Mirroring, PairedInv, Paired, Origin
    <3> QED
      BY <2>1, <3>2, <3>3 DEF Mirroring
  <2> QED
    BY <2>2, <2>3 DEF MirrorInv
<1> QED
  BY <1>1, <1>2

(* A call returns after its last entry: nothing in its folder is pending. *)
LEMMA ReturnMirrors ==
    ASSUME TreeInv, ShapeInv, MirrorInv, FillReturns
    PROVE  ShapeInv' /\ MirrorInv'
<1>1. /\ stack # <<>> /\ stack' = Callers /\ Top.left = {}
      /\ UNCHANGED <<runVars, disk, file, lost>>
  BY DEF FillReturns
<1>2. /\ Len(stack) \in Nat \ {0} /\ Len(stack') = Len(stack) - 1 /\ Top = stack[Len(stack)]
      /\ \A k \in 1 .. Len(stack) - 1 : stack'[k] = stack[k]
  BY <1>1, FrontLast DEF TreeInv, TreeTypes, Callers, Top
<1>3. ShapeInv'
  <2>1. \A k \in 1 .. Len(stack') : k \in 1 .. Len(stack) /\ stack'[k] = stack[k]
    BY <1>2
  <2> QED
    BY <1>1, <2>1 DEF ShapeInv, InFolders, IsDir
<1>4. ASSUME AsMeant' PROVE Mirroring'
  <2>1. Mirroring
    BY <1>1, <1>4 DEF MirrorInv, AsMeant, Orderly, runVars
  <2>2. NoDots(disk)' /\ BuffersInv' /\ MadeInv'
    BY <1>1, <2>1 DEF Mirroring, NoDots, BuffersInv, MadeInv, Origin, runVars
  <2>3. ImageInv'
    BY <1>2, <2>1 DEF Mirroring, ImageInv
  <2>4. PairedInv'
    <3>1. \A p \in DOMAIN disk : Paired(p) => Paired(p)'
      <4> SUFFICES ASSUME NEW p \in DOMAIN disk, NEW k \in 1 .. Len(stack), Pending(p, stack[k])
                   PROVE  \E j \in 1 .. Len(stack') : Pending(p, stack'[j])
        BY <1>1 DEF Paired
      <4>1. k # Len(stack)
        BY <1>1, <1>2 DEF Pending
      <4>2. k \in 1 .. Len(stack') /\ stack'[k] = stack[k]
        BY <1>2, <4>1
      <4> QED
        BY <4>2
    <3> QED
      BY <1>1, <2>1, <3>1 DEF Mirroring, PairedInv, Origin, runVars
  <2>5. (ret = "OK" => stack = <<>> /\ i > Len(args))'
    BY <1>1, <2>1 DEF Mirroring, runVars
  <2> QED
    BY <2>2, <2>3, <2>4, <2>5 DEF Mirroring
<1> QED
  BY <1>3, <1>4 DEF MirrorInv

(* create_reverse_file fails, and fill_folder with it. *)
LEMMA FailureMirrors ==
    ASSUME TreeInv, ShapeInv, FillFails(Callers), UNCHANGED disk, file' = NoFile
    PROVE  ShapeInv' /\ MirrorInv'
<1>1. stack' = Callers /\ lost'
  BY DEF FillFails
<1>2. \A k \in 1 .. Len(stack') : k \in 1 .. Len(stack) /\ stack'[k] = stack[k]
  <2>1. CASE stack = <<>>
    BY <1>1, <2>1 DEF Callers
  <2>2. CASE stack # <<>>
    <3>1. /\ Len(stack) \in Nat \ {0} /\ Len(stack') = Len(stack) - 1
          /\ \A k \in 1 .. Len(stack) - 1 : stack'[k] = stack[k]
      BY <1>1, <2>2, FrontLast DEF TreeInv, TreeTypes, Callers
    <3> QED
      BY <3>1
  <2> QED
    BY <2>1, <2>2
<1>3. ShapeInv'
  BY <1>2 DEF ShapeInv, InFolders, IsDir
<1> QED
  BY <1>1, <1>3 DEF MirrorInv, AsMeant

(* A name copied over a shorter one: the buffer holds the name. *)
LEMMA StrncpyOver ==
    ASSUME NEW b \in Names, NEW n \in Names, Len(b) <= Len(n) PROVE Strncpy(b, n) = n
<1>1. b \in Seq(Characters) /\ n \in Seq(Characters) /\ Len(b) \in Nat /\ Len(n) \in Nat
  BY DEF Names
<1>2. SubSeq(b, Len(n) + 1, Len(b)) = <<>>
  BY <1>1
<1> QED
  BY <1>1, <1>2 DEF Strncpy

(* The calls after an entry: all but the last as before. *)
Advanced(s, n) ==
    /\ s \in Seq(Calls) /\ Len(s) = Len(stack) /\ Len(stack) \in Nat \ {0}
    /\ \A k \in 1 .. Len(stack) : k # Len(stack) => s[k] = stack[k]
    /\ Top = stack[Len(stack)] /\ Top \in Calls
    /\ s[Len(stack)].from = Top.from /\ s[Len(stack)].to = Top.to
    /\ s[Len(stack)].left = Top.left \ {n} /\ s[Len(stack)].name = <<>>

(* fill_folder goes on with its next entry so. *)
LEMMA NextCalls ==
    ASSUME TreeInv, stack # <<>>, NEW n, NEW name, NEW s, s = Append(Callers, AfterEntry(n, name))
    PROVE  Advanced(s, n)
<1>1. /\ Top \in Calls /\ Top = stack[Len(stack)] /\ Len(stack) \in Nat \ {0}
      /\ Callers \in Seq(Calls) /\ Len(Callers) = Len(stack) - 1
      /\ \A k \in 1 .. Len(stack) - 1 : Callers[k] = stack[k]
  BY FrontLast DEF TreeInv, TreeTypes, Top, Callers
<1>2. PICK c : c = Callers
  OBVIOUS
<1>3. PICK call : call = AfterEntry(n, name)
  OBVIOUS
<1>4. call \in Calls
  BY <1>3, AfterEntryIs
<1>5. /\ s \in Seq(Calls) /\ Len(s) = Len(c) + 1 /\ s[Len(c) + 1] = call
      /\ \A k \in 1 .. Len(c) : s[k] = c[k]
  BY <1>1, <1>2, <1>3, <1>4
<1>6. call.from = Top.from /\ call.to = Top.to /\ call.left = Top.left \ {n} /\ call.name = <<>>
  BY <1>1, <1>3 DEF AfterEntry, Calls
<1>7. \A k \in 1 .. Len(stack) : k # Len(stack) => k \in 1 .. Len(stack) - 1
  BY <1>1
<1>8. Len(c) + 1 = Len(stack)
  BY <1>1, <1>2
<1> QED
  BY <1>1, <1>2, <1>5, <1>6, <1>7, <1>8 DEF Advanced

(* What was pending still is, unless it is in the entry dealt with. *)
LEMMA StillPending ==
    ASSUME TreeInv, stack # <<>>, NEW n, NEW name, NEW s, s = Append(Callers, AfterEntry(n, name)),
           NEW from, from = Append(Top.from, n),
           NEW p \in DOMAIN disk, NEW k \in 1 .. Len(stack), Pending(p, stack[k])
    PROVE  Pending(p, s[k]) \/ (Len(p) >= Len(from) /\ SubSeq(p, 1, Len(from)) = from)
<1>0. Advanced(s, n)
  BY NextCalls
<1>1. CASE k # Len(stack)
  BY <1>0, <1>1 DEF Advanced
<1>2. CASE k = Len(stack)
  <2>1. /\ Top = stack[k] /\ Top \in Calls /\ s[k].from = Top.from /\ s[k].left = Top.left \ {n}
    BY <1>0, <1>2 DEF Advanced
  <2>2. CASE p[Len(Top.from) + 1] # n
    BY <2>1, <2>2 DEF Pending
  <2>3. CASE p[Len(Top.from) + 1] = n
    <3>1. p \in Paths /\ Top.from \in Paths
      BY <2>1 DEF TreeInv, TreeTypes, Calls
    <3> QED
      BY <2>1, <2>3, <3>1, PendingEntry
  <2> QED
    BY <2>2, <2>3
<1> QED
  BY <1>1, <1>2

(* PairedInv when folders and files are added whose image is there. *)
LEMMA PairedGrows ==
    ASSUME PairedInv, UNCHANGED <<i, args>>, DOMAIN disk \subseteq DOMAIN disk',
           \A p \in DOMAIN disk' : p \notin DOMAIN disk => Image(p) \in DOMAIN disk',
           \A p \in DOMAIN disk : \A k \in 1 .. Len(stack) : Pending(p, stack[k]) => Paired(p)'
    PROVE  PairedInv'
<1>1. \A p \in DOMAIN disk : Paired(p) => Paired(p)'
  BY DEF Paired
<1> QED
  BY <1>1 DEF PairedInv, Paired, Origin

(* A new name that is the image of a name other than the dots. *)
LEMMA NotDots ==
    ASSUME NEW n \in Names, n \notin Dots PROVE Reversed(n) \notin Dots
<1> SUFFICES ASSUME Reversed(n) \in Dots PROVE FALSE
  OBVIOUS
<1>1. Reversed(Reversed(n)) = n
  BY ReversedIs DEF Names
<1>2. Reversed(<<Dot>>) = <<Dot>>
  BY DEF Reversed
<1>3. Reversed(<<Dot, Dot>>) = <<Dot, Dot>>
  BY DEF Reversed
<1> QED
  BY <1>1, <1>2, <1>3 DEF Dots

(* fill_folder takes an entry: its image comes to be, or the call fails. *)
LEMMA EntryMirrors ==
    ASSUME TreeInv, ShapeInv, MirrorInv, NEW n, Entry(n)
    PROVE  ShapeInv' /\ MirrorInv'
<1>0. TreeTypes /\ InFolders(disk) /\ stack # <<>> /\ file = NoFile /\ n \in Top.left
  BY Zenon DEF TreeInv, ShapeInv, Entry
<1>1. Top \in Calls /\ CallInv(Top) /\ Top = stack[Len(stack)] /\ Len(stack) \in Nat \ {0}
  BY <1>0, AfterEntryIs, FrontLast DEF Top, TreeTypes
<1>2. PICK name : name = reverse_line(Strncpy(Top.name, n))
  OBVIOUS
<1>3. n \in Names /\ Top.name \in Names /\ Top.from \in Paths /\ Top.to \in Paths
  BY <1>0, <1>1 DEF Calls
<1>4. name \in Names
  <2>1. Strncpy(Top.name, n) \in Names
    BY <1>3, StrncpyType
  <2> QED
    BY <1>2, <2>1, ReverseLine DEF Names
<1>5. PICK from : from = Append(Top.from, n)
  OBVIOUS
<1>6. PICK to : to = Append(Top.to, name)
  OBVIOUS
<1>7. PICK s : s = Append(Callers, AfterEntry(n, name))
  OBVIOUS
<1>8. /\ s \in Seq(Calls) /\ Len(s) = Len(stack)
      /\ \A k \in 1 .. Len(stack) : k # Len(stack) => s[k] = stack[k]
      /\ s[Len(stack)].from = Top.from /\ s[Len(stack)].to = Top.to
      /\ s[Len(stack)].left = Top.left \ {n} /\ s[Len(stack)].name = <<>>
  <2>1. Advanced(s, n)
    BY <1>0, <1>7, NextCalls
  <2> QED
    BY <2>1 DEF Advanced
<1>9. \/ /\ n \in Dots /\ stack' = s
         /\ UNCHANGED <<disk, file, lost>>
      \/ /\ n \notin Dots /\ ~MkdirFails(to) /\ disk' = Put(to, Folder)
         /\ Fill(s, from, to)
         /\ UNCHANGED file
      \/ /\ n \notin Dots /\ disk[from].type = "reg" /\ ~IsDir(to)
         /\ disk' = Put(to, [type |-> "reg", data |-> <<>>])
         /\ file' = [from |-> from, to |-> to, before |-> disk[from].data, pos |-> 0,
                     left |-> Len(disk[from].data), written |-> TRUE, kept |-> TRUE]
         /\ stack' = s /\ UNCHANGED lost
      \/ FillFails(Callers) /\ UNCHANGED <<disk, file>>
  BY <1>2, <1>5, <1>6, <1>7, Zenon DEF Entry
<1>10. UNCHANGED <<args, fresh, i, rev_folder, path_to_folder, made, ret>>
  BY DEF Entry, runVars
<1>11. /\ IsDir(Top.to) /\ \A k \in 1 .. Len(stack) : IsDir(s[k].to)
  BY <1>1, <1>8 DEF ShapeInv
<1>12. /\ from \in Paths /\ to \in Paths /\ Len(to) = Len(Top.to) + 1
       /\ Len(from) = Len(Top.from) + 1 /\ SubSeq(to, 1, Len(to) - 1) = Top.to
       /\ Len(Top.to) \in Nat \ {0} /\ Len(Top.from) \in Nat \ {0}
       /\ to[Len(to)] = name /\ \A k \in 1 .. Len(Top.to) : to[k] = Top.to[k]
  <2>1. PICK f : f = Top.from
    OBVIOUS
  <2>2. PICK g : g = Top.to
    OBVIOUS
  <2>3. /\ f \in Seq(Names) /\ g \in Seq(Names) /\ Len(g) \in Nat \ {0} /\ Len(f) \in Nat \ {0}
        /\ from = Append(f, n) /\ to = Append(g, name)
    BY <1>3, <1>5, <1>6, <2>1, <2>2 DEF Paths
  <2>4. /\ from \in Seq(Names) /\ to \in Seq(Names) /\ Len(from) = Len(f) + 1 /\ Len(to) = Len(g) + 1
        /\ to[Len(g) + 1] = name /\ \A k \in 1 .. Len(g) : to[k] = g[k]
    BY <1>3, <1>4, <2>3
  <2>5. SubSeq(to, 1, Len(g)) = g
    BY <1>4, <2>3, PrefixOfAppend, WholePrefix
  <2>6. Len(to) - 1 = Len(g)
    BY <2>3, <2>4
  <2> QED
    BY <2>1, <2>2, <2>3, <2>4, <2>5, <2>6 DEF Paths
<1>13. n \notin Dots => from \in DOMAIN disk
  BY <1>0, <1>1, <1>5 DEF CallInv
<1>14. ASSUME NEW node, disk' = Put(to, node), node.type = "dir" \/ ~IsDir(to)
       PROVE  /\ InFolders(disk') /\ DirsStay /\ DOMAIN disk' = DOMAIN disk \cup {to}
              /\ disk'[to] = node /\ \A p \in DOMAIN disk : p # to => disk'[p] = disk[p]
  <2>1. IsDir(SubSeq(to, 1, Len(to) - 1))
    BY <1>11, <1>12
  <2> QED
    BY <1>0, <1>12, <1>14, <2>1, PutInFolder, PutIs
<1>15. ASSUME AsMeant', lost' = lost
       PROVE  /\ Mirroring /\ name = Reversed(n) /\ to = Image(from) /\ Image(to) = from
              /\ Len(Top.from) >= 2
              /\ \A k \in 1 .. Len(stack) : /\ s[k].name = <<>> /\ Len(s[k].from) >= 2
                                            /\ s[k].to = Image(s[k].from)
  <2>1. Mirroring
    BY <1>10, <1>15 DEF MirrorInv, AsMeant, Orderly
  <2>2. Top.name = <<>> /\ Len(Top.from) >= 2 /\ Top.to = Image(Top.from)
    BY <1>1, <2>1 DEF Mirroring, ImageInv
  <2>3. name = Reversed(n)
    <3>1. Len(n) \in Nat /\ Len(Top.name) = 0
      BY <1>3, <2>2 DEF Names
    <3>2. Strncpy(Top.name, n) = n
      BY <1>3, <3>1, StrncpyOver
    <3> QED
      BY <1>2, <1>3, <3>2, ReversedIs DEF Names
  <2>4. to = Image(from) /\ Image(to) = from
    <3>1. PICK f : f = Top.from
      OBVIOUS
    <3>2. f \in Paths /\ from = Append(f, n) /\ to = Append(Image(f), Reversed(n))
      BY <1>3, <1>5, <1>6, <2>2, <2>3, <3>1
    <3> QED
      BY <1>3, <3>2, ImageOfEntry
  <2>5. \A k \in 1 .. Len(stack) : /\ s[k].name = <<>> /\ Len(s[k].from) >= 2
                                   /\ s[k].to = Image(s[k].from)
    BY <1>1, <1>8, <2>1, <2>2 DEF Mirroring, ImageInv
  <2> QED
    BY <2>1, <2>2, <2>3, <2>4, <2>5
<1>16. ASSUME AsMeant', lost' = lost, DOMAIN disk' = DOMAIN disk \cup {to}, n \notin Dots
       PROVE  NoDots(disk') /\ BuffersInv' /\ MadeInv' /\ ret' # "OK"
  <2>1. NoDots(disk) /\ BuffersInv /\ MadeInv /\ ret # "OK" /\ ImageInv
    BY <1>0, <1>15, <1>16 DEF Mirroring
  <2>2. \A k \in 3 .. Len(to) : to[k] \notin Dots
    <3> SUFFICES ASSUME NEW k \in 3 .. Len(to) PROVE to[k] \notin Dots
      OBVIOUS
    <3>1. CASE k = Len(to)
      BY <1>3, <1>12, <1>15, <1>16, <3>1, NotDots
    <3>2. CASE k # Len(to)
      <4>1. k \in 3 .. Len(Top.to) /\ to[k] = Top.to[k]
        BY <1>12, <3>2
      <4> QED
        BY <1>11, <2>1, <4>1 DEF NoDots, IsDir
    <3> QED
      BY <3>1, <3>2
  <2>3. NoDots(disk')
    BY <1>16, <2>1, <2>2 DEF NoDots
  <2> QED
    BY <1>10, <2>1, <2>3 DEF BuffersInv, MadeInv, Origin
<1>17. CASE n \in Dots /\ stack' = s /\ UNCHANGED <<disk, file, lost>>
  <2>1. ShapeInv'
    BY <1>0, <1>8, <1>11, <1>17 DEF ShapeInv, InFolders, IsDir
  <2>2. ASSUME AsMeant' PROVE Mirroring'
    <3>1. Mirroring
      BY <1>15, <1>17, <2>2
    <3>2. NoDots(disk') /\ BuffersInv' /\ MadeInv' /\ ret' # "OK"
      BY <1>0, <1>10, <1>17, <3>1 DEF Mirroring, NoDots, BuffersInv, MadeInv, Origin
    <3>3. ImageInv'
      BY <1>8, <1>15, <1>17, <2>2 DEF ImageInv
    <3>4. ASSUME NEW p \in DOMAIN disk, NEW k \in 1 .. Len(stack), Pending(p, stack[k])
          PROVE  Paired(p)'
      <4>1. CASE Pending(p, s[k])
        BY <1>8, <1>17, <4>1 DEF Paired
      <4>2. CASE Len(p) >= Len(from) /\ SubSeq(p, 1, Len(from)) = from
        <5>1. PICK m : m = Len(Top.from) + 1
          OBVIOUS
        <5>2. p \in Seq(Names) /\ Len(p) \in Nat /\ m \in 3 .. Len(p) /\ m = Len(from)
          BY <1>0, <1>12, <1>15, <1>17, <2>2, <4>2, <5>1 DEF TreeTypes, Paths
        <5>3. from[m] = n
          <6>1. PICK f : f = Top.from
            OBVIOUS
          <6>2. f \in Seq(Names) /\ from = Append(f, n) /\ m = Len(f) + 1
            BY <1>3, <1>5, <5>1, <6>1 DEF Paths
          <6> QED
            BY <1>3, <6>2
        <5>4. p[m] = from[m]
          <6>1. m \in Nat /\ m <= Len(p) /\ m \in 1 .. m
            BY <5>2
          <6>2. SubSeq(p, 1, m)[m] = p[m]
            BY <5>2, <6>1, Prefix
          <6> QED
            BY <4>2, <5>2, <6>2
        <5> QED
          BY <1>17, <3>1, <5>2, <5>3, <5>4 DEF Mirroring, NoDots
      <4> QED
        BY <1>0, <1>5, <1>7, <3>4, <4>1, <4>2, StillPending
    <3>5. PairedInv'
      <4>1. UNCHANGED <<i, args>> /\ DOMAIN disk' = DOMAIN disk /\ PairedInv
        BY <1>10, <1>17, <3>1 DEF Mirroring
      <4> QED
        BY <3>4, <4>1, PairedGrows
    <3> QED
      BY <3>2, <3>3, <3>5 DEF Mirroring
  <2> QED
    BY <2>1, <2>2 DEF MirrorInv
<1>18. CASE FillFails(Callers) /\ UNCHANGED <<disk, file>>
  BY <1>0, <1>18, FailureMirrors
<1>19. CASE /\ n \notin Dots /\ disk[from].type = "reg" /\ ~IsDir(to)
            /\ disk' = Put(to, [type |-> "reg", data |-> <<>>])
            /\ file' = [from |-> from, to |-> to, before |-> disk[from].data, pos |-> 0,
                        left |-> Len(disk[from].data), written |-> TRUE, kept |-> TRUE]
            /\ stack' = s /\ UNCHANGED lost
  <2>1. PICK node : node = [type |-> "reg", data |-> <<>>]
    OBVIOUS
  <2>2. /\ InFolders(disk') /\ DirsStay /\ DOMAIN disk' = DOMAIN disk \cup {to}
        /\ disk'[to] = node /\ \A p \in DOMAIN disk : p # to => disk'[p] = disk[p]
    BY <1>14, <1>19, <2>1
  <2>3. ShapeInv'
    <3>1. InFolders(disk)'
      BY <2>2 DEF InFolders
    <3>2. (\A k \in 1 .. Len(stack) : IsDir(stack[k].to))'
      BY <1>8, <1>11, <1>19, <2>2 DEF IsDir, DirsStay
    <3>3. file'.from = from /\ file'.to = to /\ disk'[to].type = "reg"
      <4>1. file'.from = from /\ file'.to = to
        BY ONLY <1>19
      <4>2. disk'[to].type = "reg"
        BY ONLY <2>1, <2>2
      <4> QED
        BY <4>1, <4>2
    <3>4. disk'[from].type = "reg"
      BY <1>13, <1>19, <2>2, <3>3
    <3> QED
      BY <3>1, <3>2, <3>3, <3>4 DEF ShapeInv
  <2>4. ASSUME AsMeant' PROVE Mirroring'
    <3>1. Mirroring /\ to = Image(from) /\ Image(to) = from
      BY <1>15, <1>19, <2>4
    <3>2. NoDots(disk') /\ BuffersInv' /\ MadeInv' /\ ret' # "OK"
      BY <1>16, <1>19, <2>2, <2>4
    <3>3. ImageInv'
      BY <1>8, <1>15, <1>19, <2>4 DEF ImageInv
    <3>4. ASSUME NEW p \in DOMAIN disk, NEW k \in 1 .. Len(stack), Pending(p, stack[k])
          PROVE  Paired(p)'
      <4>1. CASE Pending(p, s[k])
        BY <1>8, <1>19, <4>1 DEF Paired
      <4>2. CASE Len(p) >= Len(from) /\ SubSeq(p, 1, Len(from)) = from
        <5>1. p \in Seq(Names) /\ Len(p) \in Nat /\ Len(from) \in Nat /\ Len(from) >= 2
          BY <1>0, <1>12 DEF TreeTypes, Paths
        <5>2. CASE Len(p) = Len(from)
          <6>1. p = from
            BY <4>2, <5>1, <5>2, WholePrefix
          <6> QED
            BY <2>2, <3>1, <6>1 DEF Paired
        <5>3. CASE Len(p) # Len(from)
          <6>1. Len(from) \in 2 .. Len(p) - 1
            BY <4>2, <5>1, <5>3
          <6> QED
            BY <1>0, <1>19, <4>2, <6>1 DEF InFolders
        <5> QED
          BY <5>2, <5>3
      <4> QED
        BY <1>0, <1>5, <1>7, <3>4, <4>1, <4>2, StillPending
    <3>5. PairedInv'
      <4>1. UNCHANGED <<i, args>> /\ PairedInv
        BY <1>10, <3>1 DEF Mirroring
      <4>2. \A p \in DOMAIN disk' : p \notin DOMAIN disk => Image(p) \in DOMAIN disk'
        BY <1>13, <1>19, <2>2, <3>1
      <4> QED
        BY <2>2, <3>4, <4>1, <4>2, PairedGrows
    <3> QED
      BY <3>2, <3>3, <3>5 DEF Mirroring
  <2> QED
    BY <2>3, <2>4 DEF MirrorInv
<1>20. CASE /\ n \notin Dots /\ ~MkdirFails(to) /\ disk' = Put(to, Folder)
            /\ Fill(s, from, to) /\ UNCHANGED file
  <2>1. /\ InFolders(disk') /\ DirsStay /\ DOMAIN disk' = DOMAIN disk \cup {to}
        /\ disk'[to] = Folder
    BY <1>14, <1>20 DEF Folder
  <2>2. IsDir(to)'
    BY <2>1 DEF IsDir, Folder
  <2>3. CASE FillFails(s)
    <3>1. stack' = s /\ lost'
      BY <2>3 DEF FillFails
    <3>2. ShapeInv'
      <4>1. InFolders(disk)'
        BY <2>1 DEF InFolders
      <4>2. (\A k \in 1 .. Len(stack) : IsDir(stack[k].to))'
        BY <1>8, <1>11, <2>1, <3>1 DEF IsDir, DirsStay
      <4> QED
        BY <1>0, <1>20, <4>1, <4>2 DEF ShapeInv
    <3> QED
      BY <3>1, <3>2 DEF MirrorInv, AsMeant
  <2>4. CASE (\E frame \in Frames(from, to) : stack' = Append(s, frame)) /\ UNCHANGED lost
    <3>1. PICK frame \in Frames(from, to) : stack' = Append(s, frame)
      BY <2>4
    <3>2. /\ frame.from = from /\ frame.to = to /\ frame.left = Entries(from)
          /\ frame.name \in Unset
      BY <3>1 DEF Frames
    <3>3. /\ Len(stack') = Len(stack) + 1 /\ stack'[Len(stack) + 1] = frame
          /\ \A k \in 1 .. Len(stack) : stack'[k] = s[k]
      BY <1>8, <3>1
    <3>4. \A k \in 1 .. Len(stack') : k = Len(stack) + 1 \/ k \in 1 .. Len(stack)
      BY <1>1, <3>3
    <3>5. ShapeInv'
      <4>1. InFolders(disk)'
        BY <2>1 DEF InFolders
      <4>2. (\A k \in 1 .. Len(stack) : IsDir(stack[k].to))'
        BY <1>11, <2>1, <2>2, <3>2, <3>3, <3>4 DEF IsDir, DirsStay
      <4> QED
        BY <1>0, <1>20, <4>1, <4>2 DEF ShapeInv
    <3>6. ASSUME AsMeant' PROVE Mirroring'
      <4>1. Mirroring /\ to = Image(from) /\ Image(to) = from /\ Len(Top.from) >= 2
        BY <1>15, <2>4, <3>6
      <4>2. NoDots(disk') /\ BuffersInv' /\ MadeInv' /\ ret' # "OK"
        BY <1>16, <1>20, <2>1, <2>4, <3>6
      <4>3. frame.name = <<>> /\ Len(from) >= 2
        BY <1>10, <1>12, <3>2, <3>6 DEF AsMeant, Unset
      <4>4. ImageInv'
        <5>1. \A k \in 1 .. Len(stack) : /\ s[k].name = <<>> /\ Len(s[k].from) >= 2
                                         /\ s[k].to = Image(s[k].from)
          BY <1>15, <2>4, <3>6
        <5> QED
          BY <3>2, <3>3, <3>4, <4>1, <4>3, <5>1 DEF ImageInv
      <4>5. ASSUME NEW p \in DOMAIN disk, NEW k \in 1 .. Len(stack), Pending(p, stack[k])
            PROVE  Paired(p)'
        <5>0. k \in 1 .. Len(stack') /\ Len(stack) + 1 \in 1 .. Len(stack')
          BY <1>1, <3>3
        <5>1. CASE Pending(p, s[k])
          BY <3>3, <5>0, <5>1 DEF Paired
        <5>2. CASE Len(p) >= Len(from) /\ SubSeq(p, 1, Len(from)) = from
          <6>1. p \in Seq(Names) /\ Len(p) \in Nat /\ Len(from) \in Nat
            BY <1>0, <1>12 DEF TreeTypes, Paths
          <6>2. CASE Len(p) = Len(from)
            <7>1. p = from
              BY <5>2, <6>1, <6>2, WholePrefix
            <7> QED
              BY <2>1, <4>1, <7>1 DEF Paired
          <6>3. CASE Len(p) # Len(from)
            <7>1. Len(p) > Len(from)
              BY <5>2, <6>1, <6>3
            <7>2. p[Len(from) + 1] \in Entries(from)
              BY <1>0, <1>12, <4>3, <5>2, <7>1, InAnEntry
            <7>3. Pending(p, frame)
              <8>1. frame.from = from /\ frame.left = Entries(from)
                BY ONLY <3>2
              <8> QED
                BY <5>2, <7>1, <7>2, <8>1, Zenon DEF Pending
            <7> QED
              BY <3>3, <5>0, <7>3 DEF Paired
          <6> QED
            BY <6>2, <6>3
        <5> QED
          BY <1>0, <1>5, <1>7, <4>5, <5>1, <5>2, StillPending
      <4>6. PairedInv'
        <5>1. UNCHANGED <<i, args>> /\ PairedInv
          BY <1>10, <4>1 DEF Mirroring
        <5>2. \A p \in DOMAIN disk' : p \notin DOMAIN disk => Image(p) \in DOMAIN disk'
          BY <1>13, <1>20, <2>1, <4>1
        <5> QED
          BY <2>1, <4>5, <5>1, <5>2, PairedGrows
      <4> QED
        BY <4>2, <4>4, <4>6 DEF Mirroring
    <3> QED
      BY <3>5, <3>6 DEF MirrorInv
  <2> QED
    BY <1>20, <2>3, <2>4 DEF Fill
<1> QED
  BY <1>9, <1>17, <1>18, <1>19, <1>20

(* run takes an argument: nothing of its folder has its image yet, and all of it
   is pending. *)
LEMMA ArgumentMirrors ==
    ASSUME TreeInv, ShapeInv, MirrorInv, Argument
    PROVE  ShapeInv' /\ MirrorInv'
<1>0. /\ TreeTypes /\ InFolders(disk) /\ stack = <<>> /\ i \in Nat \ {0} /\ i <= Len(args)
      /\ Len(args) \in Nat
  <2>1. TreeTypes /\ InFolders(disk) /\ stack = <<>> /\ i <= Len(args)
    BY Zenon DEF TreeInv, ShapeInv, Argument
  <2> QED
    BY <2>1 DEF TreeTypes
<1>1. PICK arg : arg = args[i]
  OBVIOUS
<1>2. arg.dir \in Names /\ arg.name \in Names
  <2> DEFINE R == [dir : Names, name : Names]
  <2>1. args \in Seq(R) /\ i \in 1 .. Len(args)
    BY <1>0 DEF TreeTypes
  <2> HIDE DEF R
  <2>2. arg \in R
    BY <1>1, <2>1
  <2> QED
    BY <2>2 DEF R
<1>3. PICK name : name = reverse_line(Strncpy(rev_folder, arg.name))
  OBVIOUS
<1>4. name \in Names /\ rev_folder \in Names /\ path_to_folder \in Names
  <2>1. Strncpy(rev_folder, arg.name) \in Names
    BY <1>0, <1>2, StrncpyType DEF TreeTypes
  <2> QED
    BY <1>0, <1>3, <2>1, ReverseLine DEF Names, TreeTypes
<1>5. PICK rest : rest = (IF arg.dir = <<Dot>> THEN <<>> ELSE path_to_folder) \o name
  OBVIOUS
<1>6. rest \in Names
  <2>1. CASE arg.dir = <<Dot>>
    BY <1>4, <1>5, <2>1 DEF Names
  <2>2. CASE arg.dir # <<Dot>>
    BY <1>4, <1>5, <2>2 DEF Names
  <2> QED
    BY <2>1, <2>2
<1>7. PICK to : to = <<arg.dir, rest>>
  OBVIOUS
<1>8. PICK from : from = <<arg.dir, arg.name>>
  OBVIOUS
<1>9. to \in Paths /\ from \in Paths /\ Len(to) = 2 /\ Len(from) = 2 /\ from = Origin(i)
  <2>1. to \in Seq(Names) /\ from \in Seq(Names)
    BY <1>2, <1>6, <1>7, <1>8
  <2>2. Len(to) = 2 /\ Len(from) = 2
    BY <1>7, <1>8, <2>1
  <2> QED
    BY <1>1, <1>8, <2>1, <2>2 DEF Paths, Origin
<1>10. /\ rev_folder' = name /\ path_to_folder' = rest
       /\ \/ ret' = "ERROR" /\ UNCHANGED <<i, disk, made, stack, lost>>
          \/ /\ ~MkdirFails(to) /\ disk' = Put(to, Folder) /\ Fill(<<>>, from, to)
             /\ made' = Append(made, to) /\ i' = i + 1 /\ UNCHANGED ret
       /\ UNCHANGED <<args, fresh, file>> /\ ret = "none"
  BY <1>1, <1>3, <1>5, <1>7, <1>8, Zenon DEF Argument
<1>11. CASE ret' = "ERROR" /\ UNCHANGED <<i, disk, made, stack, lost>>
  <2>1. ShapeInv'
    BY <1>10, <1>11 DEF ShapeInv, InFolders, IsDir
  <2> QED
    BY <1>11, <2>1 DEF MirrorInv, AsMeant
<1>12. CASE /\ ~MkdirFails(to) /\ disk' = Put(to, Folder) /\ Fill(<<>>, from, to)
            /\ made' = Append(made, to) /\ i' = i + 1 /\ UNCHANGED ret
  <2>1. /\ InFolders(disk') /\ DirsStay /\ DOMAIN disk' = DOMAIN disk \cup {to}
        /\ disk'[to] = Folder /\ \A p \in DOMAIN disk : p # to => disk'[p] = disk[p]
    <3>1. Folder.type = "dir" /\ Len(to) <= 2
      BY <1>9 DEF Folder
    <3> QED
      BY <1>0, <1>9, <1>12, <3>1, PutInFolder, PutIs
  <2>2. to \notin DOMAIN disk
    BY <1>12 DEF MkdirFails
  <2>3. (file # NoFile => disk[file.from].type = "reg" /\ disk[file.to].type = "reg")'
    BY <1>10, <2>1, <2>2 DEF ShapeInv, TreeInv, CopyInv
  <2>4. InFolders(disk)'
    BY <2>1 DEF InFolders
  <2>5. CASE FillFails(<<>>)
    <3>1. stack' = <<>> /\ lost'
      BY <2>5 DEF FillFails
    <3>2. (\A k \in 1 .. Len(stack) : IsDir(stack[k].to))'
      BY <3>1
    <3> QED
      BY <2>3, <2>4, <3>1, <3>2 DEF ShapeInv, MirrorInv, AsMeant
  <2>6. CASE (\E frame \in Frames(from, to) : stack' = Append(<<>>, frame)) /\ UNCHANGED lost
    <3>1. PICK frame \in Frames(from, to) : stack' = Append(<<>>, frame)
      BY <2>6
    <3>2. /\ frame.from = from /\ frame.to = to /\ frame.left = Entries(from)
          /\ frame.name \in Unset
      BY <3>1 DEF Frames
    <3>3. Len(stack') = 1 /\ stack'[1] = frame
      BY <3>1
    <3>4. \A k \in 1 .. Len(stack') : k = 1
      BY <3>3
    <3>5. ShapeInv'
      <4>1. (\A k \in 1 .. Len(stack) : IsDir(stack[k].to))'
        BY <2>1, <3>2, <3>3, <3>4 DEF IsDir, Folder
      <4> QED
        BY <2>3, <2>4, <4>1 DEF ShapeInv
    <3>6. ASSUME AsMeant' PROVE Mirroring'
      <4>1. Mirroring /\ fresh /\ Orderly
        BY <1>10, <2>6, <3>6 DEF MirrorInv, AsMeant, Orderly
      <4>2. Len(rev_folder) <= Len(arg.name)
        <5>1. Len(arg.name) \in Nat
          BY <1>2 DEF Names
        <5>2. CASE i = 1
          BY <4>1, <5>1, <5>2 DEF Mirroring, BuffersInv
        <5>3. CASE i # 1
          <6>1. i \in 2 .. Len(args) /\ i > 1
            BY <1>0, <5>3
          <6>2. Len(rev_folder) = Len(args[i - 1].name)
            BY <4>1, <6>1 DEF Mirroring, BuffersInv
          <6>3. Len(args[i].name) >= Len(args[i - 1].name)
            BY <4>1, <6>1 DEF Orderly
          <6>4. Len(rev_folder) \in Nat
            BY <1>4 DEF Names
          <6> QED
            BY <1>1, <5>1, <6>2, <6>3, <6>4
        <5> QED
          BY <5>2, <5>3
      <4>3. name = Reversed(arg.name) /\ Len(name) = Len(arg.name)
        <5>1. Strncpy(rev_folder, arg.name) = arg.name
          BY <1>2, <1>4, <4>2, StrncpyOver
        <5> QED
          BY <1>2, <1>3, <5>1, ReversedIs DEF Names
      <4>4. rest = name
        <5>1. <<>> \o name = name
          BY <1>4 DEF Names
        <5>2. CASE i = 1
          <6>1. path_to_folder = <<>>
            BY <4>1, <5>2 DEF Mirroring, BuffersInv
          <6> QED
            BY <1>5, <5>1, <6>1
        <5>3. CASE i # 1
          <6>1. i \in 2 .. Len(args)
            BY <1>0, <5>3
          <6>2. arg.dir = <<Dot>>
            BY <1>1, <4>1, <6>1 DEF Orderly
          <6> QED
            BY <1>5, <5>1, <6>2
        <5> QED
          BY <5>2, <5>3
      <4>5. to = Image(from)
        <5>1. PICK q : q = Image(from)
          OBVIOUS
        <5>2. /\ q \in Seq(Names) /\ Len(q) = 2 /\ q[1] = from[1] /\ q[2] = Reversed(from[2])
          BY <1>9, <5>1, ImageIs DEF Paths
        <5>3. to \in Seq(Names) /\ to[1] = arg.dir /\ to[2] = name
          BY <1>7, <1>9, <4>4 DEF Paths
        <5>4. from[1] = arg.dir /\ from[2] = arg.name
          BY <1>8
        <5>5. \A k \in 1 .. 2 : q[k] = to[k]
          BY <4>3, <5>2, <5>3, <5>4
        <5> QED
          BY <1>9, <5>1, <5>2, <5>3, <5>5, SameSeq
      <4>6. NoDots(disk)'
        BY <1>9, <2>1, <4>1 DEF Mirroring, NoDots
      <4>7. BuffersInv'
        <5>1. i' <= Len(args') + 1 /\ i' # 1 /\ i' - 1 = i
          BY <1>0, <1>10, <1>12
        <5>2. Len(rev_folder') = Len(args'[i' - 1].name)
          BY <1>1, <1>10, <4>3, <5>1
        <5> QED
          BY <5>1, <5>2 DEF BuffersInv
      <4>8. ImageInv'
        <5>1. frame.name = <<>>
          <6>1. fresh
            BY <4>1
          <6>2. Unset = {<<>>}
            BY <6>1, Zenon DEF Unset
          <6> QED
            BY <3>2, <6>2
        <5>2. frame.name = <<>> /\ Len(frame.from) >= 2 /\ frame.to = Image(frame.from)
          <6>1. Len(from) >= 2
            BY <1>9
          <6> QED
            BY <3>2, <4>5, <5>1, <6>1, Zenon
        <5>3. \A m \in 1 .. Len(stack') : stack'[m] = frame
          BY <3>3, <3>4
        <5> QED
          BY <5>2, <5>3 DEF ImageInv
      <4>9. MadeInv'
        <5>1. /\ made \in Seq(Paths) /\ Len(made) = i - 1
              /\ \A k \in 1 .. i - 1 : made[k] = Image(Origin(k))
          BY <4>1 DEF Mirroring, MadeInv
        <5>2. /\ made' \in Seq(Paths) /\ Len(made') = i /\ made'[i] = to
              /\ \A k \in 1 .. i - 1 : made'[k] = made[k]
          BY <1>0, <1>9, <1>12, <5>1
        <5>3. \A k \in 1 .. i : made'[k] = Image(Origin(k))
          <6>1. \A k \in 1 .. i : k = i \/ k \in 1 .. i - 1
            BY <1>0
          <6> QED
            BY <1>9, <4>5, <5>1, <5>2, <6>1
        <5>4. i' - 1 = i
          BY <1>0, <1>12
        <5> QED
          BY <1>10, <5>2, <5>3, <5>4 DEF MadeInv, Origin
      <4>10. PairedInv'
        <5> SUFFICES ASSUME NEW k \in 1 .. i, NEW p \in DOMAIN disk', Len(p) > 2,
                            SubSeq(p, 1, 2) \in {Origin(k), Image(Origin(k))}
                     PROVE  Paired(p)'
          <6>1. i' - 1 = i
            BY <1>0, <1>12
          <6> QED
            BY <1>10, <6>1 DEF PairedInv, Origin
        <5>1. p \in DOMAIN disk
          <6>1. p # to
            <7>1. Len(to) = 2 /\ ~(2 > 2)
              BY <1>9
            <7> QED
              BY <7>1, Zenon
          <6> QED
            BY <2>1, <6>1, Zenon
        <5>2. p \in Seq(Names) /\ Len(p) \in Nat
          BY <1>0, <5>1 DEF TreeTypes, Paths
        <5>3. CASE k # i
          <6>1. k \in 1 .. i - 1
            BY <1>0, <5>3
          <6>2. Paired(p)
            BY <4>1, <5>1, <6>1 DEF Mirroring, PairedInv
          <6>3. Image(p) \in DOMAIN disk
            BY <1>0, <6>2 DEF Paired
          <6> QED
            BY <2>1, <6>3 DEF Paired
        <5>4. CASE k = i
          <6>1. SubSeq(p, 1, 2) = from \/ SubSeq(p, 1, 2) = to
            BY <1>9, <4>5, <5>4
          <6>2. CASE SubSeq(p, 1, 2) = from
            <7>1. p[Len(from) + 1] \in Entries(from)
              <8>1. Len(from) >= 2 /\ Len(p) > Len(from) /\ SubSeq(p, 1, Len(from)) = from
                BY <1>9, <6>2
              <8> QED
                BY <1>0, <1>9, <5>1, <8>1, InAnEntry
            <7>2. Pending(p, frame)
              BY <1>9, <3>2, <6>2, <7>1 DEF Pending
            <7>3. 1 \in 1 .. Len(stack')
              BY <3>3
            <7> QED
              BY <3>3, <7>2, <7>3 DEF Paired
          <6>3. CASE SubSeq(p, 1, 2) = to
            <7>1. 2 \in 2 .. Len(p) - 1
              BY <5>2
            <7> QED
              BY <1>0, <2>2, <5>1, <6>3, <7>1 DEF InFolders
          <6> QED
            BY <6>1, <6>2, <6>3
        <5> QED
          BY <5>3, <5>4
      <4> QED
        BY <1>10, <1>12, <4>6, <4>7, <4>8, <4>9, <4>10 DEF Mirroring
    <3> QED
      BY <3>5, <3>6 DEF MirrorInv
  <2> QED
    BY <1>12, <2>5, <2>6 DEF Fill
<1> QED
  BY <1>10, <1>11, <1>12

(* Every step keeps the three invariants. *)
LEMMA MirrorInductive ==
    TreeInv /\ ShapeInv /\ MirrorInv /\ [TreeNext]_treeVars => ShapeInv' /\ MirrorInv'
<1> SUFFICES ASSUME TreeInv, ShapeInv, MirrorInv, [TreeNext]_treeVars PROVE ShapeInv' /\ MirrorInv'
  OBVIOUS
<1>1. CASE Argument
  BY <1>1, ArgumentMirrors
<1>2. CASE FillReturns
  BY <1>2, ReturnMirrors
<1>3. CASE ReadBlock \/ Change \/ FileDone
  BY <1>3, CopyingMirrors
<1>4. CASE FileFails
  <2>1. FillFails(Callers) /\ UNCHANGED disk /\ file' = NoFile
    BY <1>4 DEF FileFails
  <2> QED
    BY <2>1, FailureMirrors
<1>5. ASSUME NEW n \in Top.left, Entry(n) PROVE ShapeInv' /\ MirrorInv'
  BY <1>5, EntryMirrors
<1>6. CASE Finish \/ Over \/ UNCHANGED treeVars
  BY <1>6, EndMirrors
<1> QED
  BY <1>1, <1>2, <1>3, <1>4, <1>5, <1>6 DEF TreeNext

(* The invariants hold when run begins. *)
LEMMA TreeStarts == TreeInit => TreeInv /\ ShapeInv /\ MirrorInv
<1> SUFFICES ASSUME TreeInit PROVE TreeInv /\ ShapeInv /\ MirrorInv
  OBVIOUS
<1>1. rev_folder \in Names /\ path_to_folder \in Names
  BY UnsetIs DEF TreeInit
<1>2. args \in Seq([dir : Names, name : Names])
  <2> DEFINE R == [dir : Names, name : Names]
             Q == [dir : Names, name : Names \ {<<>>}]
  <2>1. args \in Seq(Q)
    BY TreeAssumption DEF TreeInit
  <2>2. Q \subseteq R
    OBVIOUS
  <2> HIDE DEF Q, R
  <2>3. args \in Seq(R)
    BY <2>1, <2>2
  <2> QED
    BY <2>3 DEF R
<1>3. /\ \A p \in DOMAIN disk : p \in Paths /\ disk[p].data \in Seq(Int)
      /\ InFolders(disk) /\ NoDots(disk)
  BY TreeAssumption DEF TreeInit
<1>4. i = 1 /\ stack = <<>> /\ file = NoFile /\ copied = <<>> /\ made = <<>> /\ ret = "none"
  BY DEF TreeInit
<1>5. TreeTypes /\ StackInv
  BY <1>1, <1>2, <1>3, <1>4 DEF TreeTypes, StackInv
<1>6. CopiedInv /\ ReversesFile
  BY <1>4 DEF CopiedInv, ReversesFile
<1>7. ShapeInv
  BY <1>3, <1>4 DEF ShapeInv
<1>8. ASSUME AsMeant PROVE Mirroring
  <2>1. rev_folder = <<>> /\ path_to_folder = <<>>
    BY <1>8 DEF AsMeant, TreeInit, Unset
  <2>2. Len(args) \in Nat
    BY <1>2
  <2>3. BuffersInv /\ ImageInv /\ PairedInv /\ MadeInv
    BY <1>4, <2>1, <2>2 DEF BuffersInv, ImageInv, PairedInv, MadeInv
  <2> QED
    BY <1>3, <1>4, <2>3 DEF Mirroring
<1> QED
  BY <1>4, <1>5, <1>6, <1>7, <1>8 DEF TreeInv, MirrorInv

(* The two ends of a path's image: the folder it is in, and where it is there. *)
LEMMA ImageOfPath ==
    ASSUME NEW p \in Paths, Len(p) > 2
    PROVE  /\ Image(p) \in Paths /\ Len(Image(p)) = Len(p) /\ Image(Image(p)) = p
           /\ SubSeq(Image(p), 1, 2) = Image(SubSeq(p, 1, 2))
           /\ SubSeq(Image(p), 3, Len(p)) =
                 [j \in 1 .. Len(SubSeq(p, 3, Len(p))) |-> Reversed(SubSeq(p, 3, Len(p))[j])]
<1>1. PICK q : q = Image(p)
  OBVIOUS
<1>2. /\ q \in Paths /\ Len(q) = Len(p) /\ q[1] = p[1] /\ Image(q) = p
      /\ \A j \in 1 .. Len(p) : j # 1 => q[j] = Reversed(p[j])
  BY <1>1, ImageIs
<1>3. p \in Seq(Names) /\ q \in Seq(Names) /\ Len(p) \in Nat /\ Len(p) > 2
  BY <1>2 DEF Paths
<1>4. PICK a : a = SubSeq(p, 1, 2)
  OBVIOUS
<1>5. a \in Seq(Names) /\ Len(a) = 2 /\ a[1] = p[1] /\ a[2] = p[2]
  BY <1>3, <1>4
<1>6. a \in Paths
  <2>1. a \in Seq(Names)
    BY <1>5
  <2>2. Len(a) > 0
    BY <1>5
  <2>3. a # <<>>
    BY <2>1, <2>2, NonEmpty
  <2> QED
    BY <2>1, <2>3 DEF Paths
<1>7. PICK b : b = Image(a)
  OBVIOUS
<1>8. b \in Seq(Names) /\ Len(b) = 2 /\ b[1] = a[1] /\ b[2] = Reversed(a[2])
  BY <1>5, <1>6, <1>7, ImageIs DEF Paths
<1>9. PICK c : c = SubSeq(q, 1, 2)
  OBVIOUS
<1>10. c \in Seq(Names) /\ Len(c) = 2 /\ c[1] = q[1] /\ c[2] = q[2]
  BY <1>2, <1>3, <1>9
<1>11. b = c
  <2>1. \A j \in 1 .. 2 : b[j] = c[j]
    BY <1>2, <1>3, <1>5, <1>8, <1>10
  <2> QED
    BY <1>8, <1>10, <2>1, SameSeq
<1>12. PICK t : t = SubSeq(p, 3, Len(p))
  OBVIOUS
<1>13. PICK u : u = SubSeq(q, 3, Len(p))
  OBVIOUS
<1>14. /\ Len(t) = Len(p) - 2 /\ \A j \in 1 .. Len(p) - 2 : t[j] = p[j + 2]
  BY <1>3, <1>12
<1>15. u = [j \in 1 .. Len(p) - 2 |-> q[j + 2]]
  BY <1>2, <1>3, <1>13
<1>16. \A j \in 1 .. Len(p) - 2 : j + 2 \in 1 .. Len(p) /\ j + 2 # 1
  BY <1>3
<1>17. u = [j \in 1 .. Len(t) |-> Reversed(t[j])]
  BY <1>2, <1>14, <1>15, <1>16
<1> QED
  BY <1>1, <1>2, <1>4, <1>7, <1>9, <1>11, <1>12, <1>13, <1>17

(* At the end every path has its image: one folder mirrors the other. *)
LEMMA PairsMirror ==
    ASSUME TreeInv, MirrorInv PROVE MirrorsFolder
<1> SUFFICES ASSUME ret = "OK", ~lost, fresh, Orderly, NEW k \in 1 .. Len(args),
                    NEW from, from = <<args[k].dir, args[k].name>>,
                    NEW to, to = <<args[k].dir, Reversed(args[k].name)>>
             PROVE  made[k] = to /\ Below(to) = Mirrored(Below(from))
  BY DEF MirrorsFolder
<1>1. Mirroring /\ TreeTypes
  BY DEF MirrorInv, AsMeant, TreeInv
<1>2. stack = <<>> /\ k \in 1 .. i - 1 /\ from = Origin(k)
  <2>1. stack = <<>> /\ i > Len(args) /\ i \in Nat /\ Len(args) \in Nat
    BY <1>1 DEF Mirroring, TreeTypes
  <2> QED
    BY <2>1 DEF Origin
<1>3. args[k].dir \in Names /\ args[k].name \in Names
  <2> DEFINE R == [dir : Names, name : Names]
  <2>1. args \in Seq(R)
    BY <1>1 DEF TreeTypes
  <2> HIDE DEF R
  <2>2. args[k] \in R
    BY <2>1
  <2> QED
    BY <2>2 DEF R
<1>4. from \in Paths /\ Len(from) = 2 /\ to = Image(from) /\ to \in Paths
  <2>1. PICK d : d = args[k].dir
    OBVIOUS
  <2>2. PICK n : n = args[k].name
    OBVIOUS
  <2>3. Reversed(n) \in Names /\ d \in Names /\ n \in Names
    BY <1>3, <2>1, <2>2, ReversedIs DEF Names
  <2>4. from \in Seq(Names) /\ to \in Seq(Names) /\ from = <<d, n>> /\ to = <<d, Reversed(n)>>
    BY <2>1, <2>2, <2>3
  <2>5. Len(from) = 2 /\ Len(to) = 2 /\ from[1] = d /\ from[2] = n /\ to[1] = d /\ to[2] = Reversed(n)
    BY <2>4
  <2>6. from \in Paths /\ to \in Paths
    BY <2>4, <2>5 DEF Paths
  <2>7. PICK q : q = Image(from)
    OBVIOUS
  <2>8. q \in Seq(Names) /\ Len(q) = 2 /\ q[1] = from[1] /\ q[2] = Reversed(from[2])
    <3>1. /\ q \in Paths /\ Len(q) = Len(from) /\ q[1] = from[1]
          /\ \A j \in 1 .. Len(from) : j # 1 => q[j] = Reversed(from[j])
      BY <2>6, <2>7, ImageIs
    <3>2. 2 \in 1 .. Len(from) /\ 2 # 1
      BY <2>5
    <3> QED
      BY <2>5, <3>1, <3>2 DEF Paths
  <2>9. \A j \in 1 .. 2 : q[j] = to[j]
    BY <2>5, <2>8
  <2>10. q = to
    BY <2>4, <2>5, <2>8, <2>9, SameSeq
  <2> QED
    BY <2>5, <2>6, <2>7, <2>10
<1>5. made[k] = to
  BY <1>1, <1>2, <1>4 DEF Mirroring, MadeInv
<1>6. ASSUME NEW p \in DOMAIN disk, Len(p) > 2, SubSeq(p, 1, 2) \in {from, to}
      PROVE  Image(p) \in DOMAIN disk
  <2>1. Paired(p)
    BY <1>1, <1>2, <1>4, <1>6 DEF Mirroring, PairedInv
  <2> QED
    BY <1>2, <2>1 DEF Paired
<1>7. ASSUME NEW p \in Paths, Len(p) > 2
      PROVE  /\ Image(p) \in Paths /\ Len(Image(p)) = Len(p) /\ Image(Image(p)) = p
             /\ SubSeq(Image(p), 1, 2) = Image(SubSeq(p, 1, 2))
             /\ SubSeq(Image(p), 3, Len(p)) =
                   [j \in 1 .. Len(SubSeq(p, 3, Len(p))) |-> Reversed(SubSeq(p, 3, Len(p))[j])]
  BY <1>7, ImageOfPath
<1>8. Image(to) = from
  BY <1>4, ImageIs
<1>9. \A p \in DOMAIN disk : p \in Paths
  BY <1>1 DEF TreeTypes
<1>10. Below(to) \subseteq Mirrored(Below(from))
  <2> SUFFICES ASSUME NEW p \in DOMAIN disk, SubSeq(p, 1, 2) = to, Len(p) > 2
               PROVE  SubSeq(p, 3, Len(p)) \in Mirrored(Below(from))
    BY DEF Below
  <2>1. PICK q : q = Image(p)
    OBVIOUS
  <2>2. q \in DOMAIN disk /\ Len(q) = Len(p) /\ SubSeq(q, 1, 2) = from /\ Image(q) = p
    BY <1>6, <1>7, <1>8, <1>9, <2>1
  <2>3. SubSeq(q, 3, Len(q)) \in Below(from)
    BY <2>2 DEF Below
  <2>4. SubSeq(p, 3, Len(p)) =
           [j \in 1 .. Len(SubSeq(q, 3, Len(q))) |-> Reversed(SubSeq(q, 3, Len(q))[j])]
    BY <1>7, <1>9, <2>2
  <2> QED
    BY <2>3, <2>4 DEF Mirrored
<1>11. Mirrored(Below(from)) \subseteq Below(to)
  <2> SUFFICES ASSUME NEW t \in Below(from)
               PROVE  [j \in 1 .. Len(t) |-> Reversed(t[j])] \in Below(to)
    BY DEF Mirrored
  <2>0. PICK p \in DOMAIN disk : SubSeq(p, 1, 2) = from /\ Len(p) > 2 /\ t = SubSeq(p, 3, Len(p))
    BY DEF Below
  <2>1. PICK q : q = Image(p)
    OBVIOUS
  <2>2. q \in DOMAIN disk /\ Len(q) = Len(p) /\ SubSeq(q, 1, 2) = to
    BY <1>4, <1>6, <1>7, <1>9, <2>0, <2>1
  <2>3. SubSeq(q, 3, Len(q)) \in Below(to)
    BY <2>0, <2>2 DEF Below
  <2>4. SubSeq(q, 3, Len(q)) = [j \in 1 .. Len(t) |-> Reversed(t[j])]
    <3>1. SubSeq(q, 3, Len(p)) =
             [j \in 1 .. Len(SubSeq(p, 3, Len(p))) |-> Reversed(SubSeq(p, 3, Len(p))[j])]
      BY <1>7, <1>9, <2>0, <2>1
    <3> QED
      BY <2>0, <2>2, <3>1
  <2> QED
    BY <2>3, <2>4
<1> QED
  BY <1>5, <1>10, <1>11

(* Task3_1's create_reverse_file: a copy that is finished, all its writes done,
   is the reverse of what the file held when it was measured. *)
THEOREM CopiesAreReversed == TreeSpec => []ReversesFile
<1>1. TreeInv => ReversesFile
  BY DEF TreeInv
<1> QED
  BY <1>1, TreeStarts, TreeInductive, MirrorInductive, PTL DEF TreeSpec

(* Task3_1's run: when malloc's memory reads as zeros, the arguments are orderly
   and no call of fill_folder has failed, run returns OK only when every folder
   named has a copy beside it that holds all the folder holds, at every depth,
   and nothing else, each file and folder under its reversed name. *)
THEOREM FoldersAreMirrored == TreeSpec => []MirrorsFolder
<1>1. TreeInv /\ MirrorInv => MirrorsFolder
  BY PairsMirror
<1> QED
  BY <1>1, TreeStarts, TreeInductive, MirrorInductive, PTL DEF TreeSpec
=============================================================================
