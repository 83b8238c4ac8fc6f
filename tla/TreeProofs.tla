----------------------------- MODULE TreeProofs ------------------------------
(***************************************************************************)
(* The reversing copy of semestr1/Task3_1, for any file system, command      *)
(* lines, buffer size and number of changes by others: every step keeps      *)
(* TreeInv of ReverseTree.  What has been read of a file stands reversed at  *)
(* the end of its copy, and input and copy are two files.  MirrorProofs adds *)
(* the folders and states the theorems.                                      *)
(***************************************************************************)
EXTENDS ReverseTree, TLAPS

(* The exchange of the two halves reverses the line. *)
LEMMA ReverseLine ==
    ASSUME NEW S, NEW s \in Seq(S)
    PROVE  /\ reverse_line(s) \in Seq(S) /\ Len(reverse_line(s)) = Len(s)
           /\ \A k \in 1 .. Len(s) : reverse_line(s)[k] = s[Len(s) + 1 - k]
<1> DEFINE m == Len(s) \div 2
<1>1. Len(s) \in Nat /\ m \in Nat /\ (Len(s) = 2 * m \/ Len(s) = 2 * m + 1)
  OBVIOUS
<1> DEFINE r == [k \in 1 .. Len(s) |->
                    IF k <= m \/ k > Len(s) - m THEN s[Len(s) + 1 - k] ELSE s[k]]
<1>2. reverse_line(s) = r
  BY DEF reverse_line
<1> HIDE DEF m
<1>3. ASSUME NEW k \in 1 .. Len(s) PROVE r[k] = s[Len(s) + 1 - k] /\ r[k] \in S
  <2>1. CASE k <= m \/ k > Len(s) - m
    BY <1>1, <1>3, <2>1
  <2>2. CASE ~(k <= m \/ k > Len(s) - m)
    <3>1. Len(s) + 1 - k = k
      BY <1>1, <1>3, <2>2
    <3> QED
      BY <1>3, <2>2, <3>1
  <2> QED
    BY <2>1, <2>2
<1>4. r \in Seq(S) /\ Len(r) = Len(s)
  BY <1>1, <1>3
<1> QED
  BY <1>2, <1>3, <1>4

(* The caller's part of the stack, and the call that runs. *)
LEMMA FrontLast ==
    ASSUME NEW S, NEW s \in Seq(S), s # <<>>
    PROVE  /\ SubSeq(s, 1, Len(s) - 1) \in Seq(S)
           /\ Len(SubSeq(s, 1, Len(s) - 1)) = Len(s) - 1
           /\ \A k \in 1 .. Len(s) - 1 : SubSeq(s, 1, Len(s) - 1)[k] = s[k]
           /\ s[Len(s)] \in S /\ Len(s) \in Nat \ {0}
           /\ Append(SubSeq(s, 1, Len(s) - 1), s[Len(s)]) = s
<1>1. Len(s) \in Nat \ {0} /\ s[Len(s)] \in S
  OBVIOUS
<1> DEFINE m == Len(s) - 1
           f == SubSeq(s, 1, m)
<1>2. m \in Nat /\ m <= Len(s) /\ Len(s) = m + 1
  BY <1>1
<1>3. f = [k \in 1 .. m |-> s[k]]
  BY <1>2
<1>4. \A k \in 1 .. m : s[k] \in S
  BY <1>1, <1>2
<1> HIDE DEF m, f
<1>5. f \in Seq(S) /\ Len(f) = m /\ \A k \in 1 .. m : f[k] = s[k]
  BY <1>2, <1>3, <1>4
<1>6. Append(f, s[Len(s)]) = s
  BY <1>1, <1>2, <1>5
<1> QED
  BY <1>1, <1>5, <1>6 DEF m, f

(* Sequences are equal when their elements are. *)
LEMMA SameSeq ==
    ASSUME NEW S, NEW s \in Seq(S), NEW t \in Seq(S), Len(s) = Len(t),
           \A k \in 1 .. Len(s) : s[k] = t[k]
    PROVE  s = t
OBVIOUS

(* A sequence with elements is not the empty one. *)
LEMMA NonEmpty ==
    ASSUME NEW S, NEW s \in Seq(S), Len(s) > 0
    PROVE  s # <<>>
OBVIOUS

(* A part of a sequence. *)
LEMMA Segment ==
    ASSUME NEW S, NEW s \in Seq(S), NEW a \in Nat \ {0}, NEW b \in Nat, a <= b, b <= Len(s)
    PROVE  /\ SubSeq(s, a, b) \in Seq(S) /\ Len(SubSeq(s, a, b)) = b - a + 1
           /\ \A k \in 1 .. b - a + 1 : SubSeq(s, a, b)[k] = s[a + k - 1]
OBVIOUS

(* The first elements of a sequence. *)
LEMMA Prefix ==
    ASSUME NEW S, NEW s \in Seq(S), NEW m \in Nat, m <= Len(s)
    PROVE  /\ SubSeq(s, 1, m) \in Seq(S) /\ Len(SubSeq(s, 1, m)) = m
           /\ \A k \in 1 .. m : SubSeq(s, 1, m)[k] = s[k]
OBVIOUS

(* A prefix of a prefix. *)
LEMMA PrefixOfPrefix ==
    ASSUME NEW S, NEW s \in Seq(S), NEW m \in Nat, m <= Len(s), NEW k \in Nat, k <= m
    PROVE  SubSeq(SubSeq(s, 1, m), 1, k) = SubSeq(s, 1, k)
<1>1. PICK t : t = SubSeq(s, 1, m)
  OBVIOUS
<1>2. t \in Seq(S) /\ Len(t) = m /\ \A j \in 1 .. m : t[j] = s[j]
  BY <1>1, Prefix
<1>3. PICK u : u = SubSeq(t, 1, k)
  OBVIOUS
<1>4. u \in Seq(S) /\ Len(u) = k /\ \A j \in 1 .. k : u[j] = t[j]
  BY <1>2, <1>3, Prefix
<1>5. PICK v : v = SubSeq(s, 1, k)
  OBVIOUS
<1>6. v \in Seq(S) /\ Len(v) = k /\ \A j \in 1 .. k : v[j] = s[j]
  <2>1. Len(s) \in Nat /\ k <= Len(s)
    OBVIOUS
  <2> QED
    BY <1>5, <2>1, Prefix
<1>7. u = v
  <2>1. \A j \in 1 .. k : j \in 1 .. m
    OBVIOUS
  <2>2. \A j \in 1 .. k : u[j] = v[j]
    BY <1>2, <1>4, <1>6, <2>1
  <2> QED
    BY <1>4, <1>6, <2>2, SameSeq
<1> QED
  BY <1>1, <1>3, <1>5, <1>7

(* A sequence with one more element: its prefixes are those of the sequence. *)
LEMMA PrefixOfAppend ==
    ASSUME NEW S, NEW s \in Seq(S), NEW e \in S, NEW m \in Nat, m <= Len(s)
    PROVE  SubSeq(Append(s, e), 1, m) = SubSeq(s, 1, m)
<1>1. PICK t : t = Append(s, e)
  OBVIOUS
<1>2. t \in Seq(S) /\ Len(t) = Len(s) + 1 /\ Len(s) \in Nat /\ \A j \in 1 .. Len(s) : t[j] = s[j]
  BY <1>1
<1>3. PICK u : u = SubSeq(t, 1, m)
  OBVIOUS
<1>4. u \in Seq(S) /\ Len(u) = m /\ \A j \in 1 .. m : u[j] = t[j]
  BY <1>2, <1>3, Prefix
<1>5. PICK v : v = SubSeq(s, 1, m)
  OBVIOUS
<1>6. v \in Seq(S) /\ Len(v) = m /\ \A j \in 1 .. m : v[j] = s[j]
  BY <1>5, Prefix
<1>7. u = v
  <2>1. \A j \in 1 .. m : j \in 1 .. Len(s)
    BY <1>2
  <2>2. \A j \in 1 .. m : u[j] = v[j]
    BY <1>2, <1>4, <1>6, <2>1, Zenon
  <2> QED
    BY <1>4, <1>6, <2>2, SameSeq
<1> QED
  BY <1>1, <1>3, <1>5, <1>7

(* A sequence is its first elements. *)
LEMMA WholePrefix ==
    ASSUME NEW S, NEW s \in Seq(S)
    PROVE  SubSeq(s, 1, Len(s)) = s
<1>1. SubSeq(s, 1, Len(s)) \in Seq(S) /\ Len(SubSeq(s, 1, Len(s))) = Len(s)
  BY Prefix
<1>2. \A k \in 1 .. Len(s) : SubSeq(s, 1, Len(s))[k] = s[k]
  BY Prefix
<1> QED
  BY <1>1, <1>2, SameSeq

(* Reversing twice gives back the line, and reverse_line reverses it. *)
LEMMA ReversedIs ==
    ASSUME NEW S, NEW s \in Seq(S)
    PROVE  /\ Reversed(s) \in Seq(S) /\ Len(Reversed(s)) = Len(s)
           /\ Reversed(Reversed(s)) = s /\ reverse_line(s) = Reversed(s)
<1>1. ASSUME NEW t \in Seq(S)
      PROVE  /\ Reversed(t) \in Seq(S) /\ Len(Reversed(t)) = Len(t)
             /\ \A k \in 1 .. Len(t) : Reversed(t)[k] = t[Len(t) + 1 - k]
  <2>1. Len(t) \in Nat /\ \A k \in 1 .. Len(t) : t[Len(t) + 1 - k] \in S
    OBVIOUS
  <2> QED
    BY <2>1 DEF Reversed
<1>2. PICK r : r = Reversed(s)
  OBVIOUS
<1>3. /\ r \in Seq(S) /\ Len(r) = Len(s) /\ Len(s) \in Nat
      /\ \A k \in 1 .. Len(s) : r[k] = s[Len(s) + 1 - k]
  BY <1>1, <1>2
<1>4. Reversed(r) = s
  <2>1. /\ Reversed(r) \in Seq(S) /\ Len(Reversed(r)) = Len(s)
        /\ \A k \in 1 .. Len(s) : Reversed(r)[k] = r[Len(s) + 1 - k]
    BY <1>1, <1>3
  <2>2. \A k \in 1 .. Len(s) : Len(s) + 1 - k \in 1 .. Len(s) /\ Len(s) + 1 - (Len(s) + 1 - k) = k
    BY <1>3
  <2>3. \A k \in 1 .. Len(s) : Reversed(r)[k] = s[k]
    BY <1>3, <2>1, <2>2
  <2> QED
    BY <2>1, <2>3, SameSeq
<1>5. reverse_line(s) = r
  BY <1>3, ReverseLine, SameSeq
<1> QED
  BY <1>2, <1>3, <1>4, <1>5

(* The image of a path, and that the image of the image is the path. *)
LEMMA ImageIs ==
    ASSUME NEW q \in Paths
    PROVE  /\ Image(q) \in Paths /\ Len(Image(q)) = Len(q) /\ Image(q)[1] = q[1]
           /\ \A k \in 1 .. Len(q) : k # 1 => Image(q)[k] = Reversed(q[k])
           /\ Image(Image(q)) = q
<1>1. ASSUME NEW p \in Paths
      PROVE  /\ Image(p) \in Paths /\ Len(Image(p)) = Len(p) /\ Image(p)[1] = p[1]
             /\ \A k \in 1 .. Len(p) : k # 1 => Image(p)[k] = Reversed(p[k])
  <2>1. p \in Seq(Names) /\ Len(p) \in Nat \ {0}
    BY DEF Paths
  <2>2. \A k \in 1 .. Len(p) : p[k] \in Names /\ Reversed(p[k]) \in Names
    BY <2>1, ReversedIs DEF Names
  <2>3. PICK r : r = Image(p)
    OBVIOUS
  <2>4. r = [k \in 1 .. Len(p) |-> IF k = 1 THEN p[1] ELSE Reversed(p[k])]
    BY <2>3 DEF Image
  <2>5. /\ \A k \in 1 .. Len(p) : r[k] \in Names /\ (k # 1 => r[k] = Reversed(p[k]))
        /\ r[1] = p[1]
    BY <2>1, <2>2, <2>4
  <2>6. r \in Seq(Names) /\ Len(r) = Len(p)
    BY <2>1, <2>4, <2>5
  <2>7. r # <<>>
    BY <2>1, <2>6
  <2> QED
    BY <2>3, <2>5, <2>6, <2>7 DEF Paths
<1>2. PICK r : r = Image(q)
  OBVIOUS
<1>3. /\ r \in Paths /\ Len(r) = Len(q) /\ r[1] = q[1]
      /\ \A k \in 1 .. Len(q) : k # 1 => r[k] = Reversed(q[k])
  BY <1>1, <1>2
<1>4. PICK t : t = Image(r)
  OBVIOUS
<1>5. /\ t \in Paths /\ Len(t) = Len(q) /\ t[1] = q[1]
      /\ \A k \in 1 .. Len(q) : k # 1 => t[k] = Reversed(r[k])
  BY <1>1, <1>3, <1>4
<1>6. q \in Seq(Names) /\ \A k \in 1 .. Len(q) : q[k] \in Names
  BY DEF Paths
<1>7. \A k \in 1 .. Len(q) : Reversed(Reversed(q[k])) = q[k]
  BY <1>6, ReversedIs DEF Names
<1>8. \A k \in 1 .. Len(q) : t[k] = q[k]
  BY <1>3, <1>5, <1>7
<1>9. t = q
  BY <1>5, <1>6, <1>8, SameSeq DEF Paths
<1> QED
  BY <1>2, <1>3, <1>4, <1>9

(* The image of an entry is in the image of its folder. *)
LEMMA ImageOfEntry ==
    ASSUME NEW p \in Paths, NEW n \in Names
    PROVE  /\ Append(p, n) \in Paths /\ Reversed(n) \in Names
           /\ Image(Append(p, n)) = Append(Image(p), Reversed(n))
           /\ Image(Append(Image(p), Reversed(n))) = Append(p, n)
<1>1. p \in Seq(Names) /\ Len(p) \in Nat \ {0} /\ Reversed(n) \in Names
  BY ReversedIs DEF Paths, Names
<1>2. PICK q : q = Append(p, n)
  OBVIOUS
<1>3. /\ q \in Seq(Names) /\ Len(q) = Len(p) + 1 /\ q[Len(p) + 1] = n
      /\ \A k \in 1 .. Len(p) : q[k] = p[k]
  BY <1>1, <1>2
<1>4. q \in Paths
  BY <1>1, <1>3 DEF Paths
<1>5. PICK r : r = Image(q)
  OBVIOUS
<1>6. /\ r \in Seq(Names) /\ Len(r) = Len(p) + 1 /\ r[1] = q[1]
      /\ \A k \in 1 .. Len(p) + 1 : k # 1 => r[k] = Reversed(q[k])
  BY <1>3, <1>4, <1>5, ImageIs DEF Paths
<1>7. PICK i1 : i1 = Image(p)
  OBVIOUS
<1>8. /\ i1 \in Seq(Names) /\ Len(i1) = Len(p) /\ i1[1] = p[1]
      /\ \A k \in 1 .. Len(p) : k # 1 => i1[k] = Reversed(p[k])
  BY <1>7, ImageIs DEF Paths
<1>9. PICK t : t = Append(i1, Reversed(n))
  OBVIOUS
<1>10. /\ t \in Seq(Names) /\ Len(t) = Len(p) + 1 /\ t[Len(p) + 1] = Reversed(n)
       /\ \A k \in 1 .. Len(p) : t[k] = i1[k]
  BY <1>1, <1>8, <1>9
<1>11. \A k \in 1 .. Len(p) + 1 : r[k] = t[k]
  <2> SUFFICES ASSUME NEW k \in 1 .. Len(p) + 1 PROVE r[k] = t[k]
    OBVIOUS
  <2>1. CASE k = Len(p) + 1
    BY <1>1, <1>3, <1>6, <1>10, <2>1
  <2>2. CASE k # Len(p) + 1
    <3>1. k \in 1 .. Len(p)
      BY <1>1, <2>2
    <3>2. CASE k = 1
      BY <1>3, <1>6, <1>8, <1>10, <3>1, <3>2
    <3>3. CASE k # 1
      BY <1>3, <1>6, <1>8, <1>10, <3>1, <3>3
    <3> QED
      BY <3>2, <3>3
  <2> QED
    BY <2>1, <2>2
<1>12. r = t
  BY <1>6, <1>10, <1>11, SameSeq
<1>13. Image(r) = q
  BY <1>4, <1>5, ImageIs
<1> QED
  BY <1>1, <1>2, <1>4, <1>5, <1>7, <1>9, <1>12, <1>13

(* A name copied into a buffer that holds one is a name (strncpy). *)
LEMMA StrncpyType ==
    ASSUME NEW b \in Names, NEW n \in Names PROVE Strncpy(b, n) \in Names
BY DEF Names, Strncpy

(* What a write leaves: the block at its offset, the rest as before. *)
Written(w, data, offset, block) ==
    /\ w \in Seq(Int)
    /\ Len(data) > offset + Len(block) => Len(w) = Len(data)
    /\ Len(data) <= offset + Len(block) => Len(w) = offset + Len(block)
    /\ \A k \in 1 .. Len(block) : w[offset + k] = block[k]
    /\ \A k \in 1 .. Len(data) : k > offset + Len(block) => w[k] = data[k]

(* fseek and fwrite do so. *)
LEMMA WriteIs ==
    ASSUME NEW data \in Seq(Int), NEW offset \in Nat, NEW block \in Seq(Int)
    PROVE  Written(Write(data, offset, block), data, offset, block)
<1>0. PICK w : w = Write(data, offset, block)
  OBVIOUS
<1> DEFINE n == IF Len(data) > offset + Len(block)
                THEN Len(data) ELSE offset + Len(block)
<1>1. /\ n \in Nat /\ Len(data) \in Nat /\ Len(block) \in Nat
      /\ n >= offset + Len(block) /\ n >= Len(data)
      /\ Len(data) > offset + Len(block) => n = Len(data)
      /\ Len(data) <= offset + Len(block) => n = offset + Len(block)
  OBVIOUS
<1>2. w = [k \in 1 .. n |->
              IF k > offset /\ k <= offset + Len(block) THEN block[k - offset]
              ELSE IF k <= Len(data) THEN data[k] ELSE 0]
  BY <1>0 DEF Write
<1> HIDE DEF n
<1>3. ASSUME NEW k \in 1 .. n
      PROVE  w[k] = IF k > offset /\ k <= offset + Len(block) THEN block[k - offset]
                    ELSE IF k <= Len(data) THEN data[k] ELSE 0
  BY <1>2
<1>4. ASSUME NEW k \in 1 .. n PROVE w[k] \in Int
  <2>1. CASE k > offset /\ k <= offset + Len(block)
    BY <1>1, <1>3, <2>1
  <2>2. CASE ~(k > offset /\ k <= offset + Len(block))
    BY <1>1, <1>3, <2>2
  <2> QED
    BY <2>1, <2>2
<1>5. w \in Seq(Int) /\ Len(w) = n
  BY <1>1, <1>2, <1>4
<1>6. ASSUME NEW k \in 1 .. Len(block) PROVE w[offset + k] = block[k]
  BY <1>1, <1>3
<1>7. ASSUME NEW k \in 1 .. Len(data), k > offset + Len(block) PROVE w[k] = data[k]
  BY <1>1, <1>3, <1>7
<1>8. Written(w, data, offset, block)
  BY <1>1, <1>5, <1>6, <1>7 DEF Written
<1> QED
  BY <1>0, <1>8

(* What readdir gives: the two dots, and names of things that exist. *)
LEMMA EntriesIs ==
    ASSUME TreeTypes, NEW path \in Paths, NEW n \in Entries(path)
    PROVE  n \in Names /\ (n \notin Dots => Append(path, n) \in DOMAIN disk)
<1>1. CASE n \in Dots
  <2>1. <<Dot>> \in Seq(Characters) /\ <<Dot, Dot>> \in Seq(Characters)
    BY TreeAssumption
  <2> QED
    BY <1>1, <2>1 DEF Dots, Names
<1>2. CASE n \notin Dots
  <2>1. PICK q \in DOMAIN disk : SubSeq(q, 1, Len(q) - 1) = path /\ n = q[Len(q)]
    BY <1>2 DEF Entries
  <2>2. q \in Seq(Names) /\ q # <<>>
    BY <2>1 DEF TreeTypes, Paths
  <2> QED
    BY <2>1, <2>2, FrontLast
<1> QED
  BY <1>1, <1>2

(* A path that is free has nothing below it. *)
LEMMA NothingInside ==
    ASSUME TreeTypes, InFolders(disk), NEW path \in Paths, Len(path) >= 2, path \notin DOMAIN disk
    PROVE  Entries(path) \subseteq Dots
<1> SUFFICES ASSUME NEW n \in Entries(path), n \notin Dots PROVE FALSE
  OBVIOUS
<1>1. PICK q \in DOMAIN disk : SubSeq(q, 1, Len(q) - 1) = path /\ n = q[Len(q)]
  BY DEF Entries
<1>2. q \in Seq(Names) /\ q # <<>>
  BY <1>1 DEF TreeTypes, Paths
<1>3. Len(q) \in Nat \ {0}
  BY <1>2
<1>4. Len(path) = Len(q) - 1
  <2>1. PICK m : m = Len(q) - 1
    OBVIOUS
  <2>2. m \in Nat /\ m <= Len(q)
    BY <1>3, <2>1
  <2>3. Len(SubSeq(q, 1, m)) = m
    BY <1>2, <2>2
  <2> QED
    BY <1>1, <2>1, <2>3
<1>5. Len(path) \in 2 .. Len(q) - 1
  BY <1>3, <1>4
<1> QED
  BY <1>1, <1>4, <1>5 DEF InFolders

(* What a buffer from malloc reads as. *)
LEMMA UnsetIs == Unset \subseteq Names
<1>1. <<>> \in Seq(Characters)
  OBVIOUS
<1>2. Garbage \in Names
  BY TreeAssumption
<1> QED
  BY <1>1, <1>2 DEF Unset, Names

-----------------------------------------------------------------------------
(* A step that leaves the files and the copies alone. *)
LEMMA SameDisk ==
    ASSUME TreeInv, stack' \in Seq(Calls), StackInv',
           UNCHANGED <<args, i, rev_folder, path_to_folder, disk, file, copied>>
    PROVE  TreeInv'
<1>1. TreeTypes'
  BY DEF TreeInv, TreeTypes
<1> QED
  BY <1>1 DEF TreeInv, CopiedInv, ReversesFile, CopyInv

(* One more call whose folders are in order. *)
LEMMA PushKeeps ==
    ASSUME NEW calls \in Seq(Calls), NEW call \in Calls,
           \A k \in 1 .. Len(calls) : CallInv(calls[k])', CallInv(call)',
           stack' = Append(calls, call)
    PROVE  stack' \in Seq(Calls) /\ StackInv'
<1>1. /\ stack' \in Seq(Calls) /\ Len(stack') = Len(calls) + 1
      /\ \A k \in 1 .. Len(calls) : stack'[k] = calls[k]
      /\ stack'[Len(calls) + 1] = call /\ Len(calls) \in Nat
  OBVIOUS
<1>2. ASSUME NEW k \in 1 .. Len(stack') PROVE CallInv(stack[k])'
  <2>1. CASE k = Len(calls) + 1
    BY <1>1, <2>1 DEF CallInv
  <2>2. CASE k # Len(calls) + 1
    <3>1. k \in 1 .. Len(calls)
      BY <1>1, <2>2
    <3> QED
      BY <1>1, <3>1 DEF CallInv
  <2> QED
    BY <2>1, <2>2
<1> QED
  BY <1>1, <1>2 DEF StackInv

(* A folder or an empty file at a path that was free. *)
LEMMA NewNode ==
    ASSUME TreeInv, NEW path \in Paths, path \notin DOMAIN disk,
           NEW node, node.data \in Seq(Int),
           disk' = Put(path, node), UNCHANGED <<file, copied>>
    PROVE  /\ DOMAIN disk \subseteq DOMAIN disk'
           /\ \A p \in DOMAIN disk' : p \in Paths /\ disk'[p].data \in Seq(Int)
           /\ CopiedInv' /\ ReversesFile' /\ (file # NoFile => CopyInv)'
<1>1. /\ DOMAIN disk' = DOMAIN disk \cup {path} /\ disk'[path] = node
      /\ \A p \in DOMAIN disk : disk'[p] = disk[p]
  <2>1. /\ DOMAIN Put(path, node) = DOMAIN disk \cup {path}
        /\ Put(path, node)[path] = node
        /\ \A p \in DOMAIN disk : p # path => Put(path, node)[p] = disk[p]
    BY DEF Put
  <2> QED
    BY <2>1
<1>2. \A p \in DOMAIN disk' : p \in Paths /\ disk'[p].data \in Seq(Int)
  BY <1>1 DEF TreeInv, TreeTypes
<1>3. CopiedInv' /\ ReversesFile'
  BY <1>1 DEF TreeInv, CopiedInv, ReversesFile
<1>4. (file # NoFile => CopyInv)'
  BY <1>1 DEF TreeInv, CopyInv
<1> QED
  BY <1>1, <1>2, <1>3, <1>4

(* create_reverse_folder: fill_folder starts on a new folder, or fails. *)
LEMMA FillKeeps ==
    ASSUME TreeInv, NEW calls \in Seq(Calls), NEW from \in Paths, NEW to \in Paths,
           \A k \in 1 .. Len(calls) : CallInv(calls[k]),
           to \notin DOMAIN disk, DOMAIN disk \subseteq DOMAIN disk', Fill(calls, from, to),
           from = to => Entries(from) \subseteq Dots
    PROVE  stack' \in Seq(Calls) /\ StackInv'
<1>0. TreeTypes /\ StackInv /\ stack \in Seq(Calls)
  BY DEF TreeInv, TreeTypes
<1>1. \A k \in 1 .. Len(calls) : CallInv(calls[k])'
  BY DEF CallInv
<1>2. CASE stack' = calls
  BY <1>1, <1>2 DEF StackInv
<1>3. CASE \E frame \in Frames(from, to) : stack' = Append(calls, frame)
  <2>1. PICK name \in Unset :
           stack' = Append(calls, [from |-> from, to |-> to, left |-> Entries(from), name |-> name])
    BY <1>3 DEF Frames
  <2>2. name \in Names
    BY <2>1, UnsetIs
  <2>3. \A n \in Entries(from) : n \in Names /\ (n \notin Dots => Append(from, n) \in DOMAIN disk)
    BY <1>0, EntriesIs
  <2>4. PICK call : call = [from |-> from, to |-> to, left |-> Entries(from), name |-> name]
    OBVIOUS
  <2>5. call \in Calls
    <3>1. Entries(from) \in SUBSET Names
      BY <2>3
    <3> QED
      BY <2>2, <2>4, <3>1 DEF Calls
  <2>6. from # to \/ Entries(from) \subseteq Dots
    OBVIOUS
  <2>7. CallInv(call)'
    <3>1. call.from = from /\ call.to = to /\ call.left = Entries(from)
      BY <2>4
    <3>2. \A n \in call.left \ Dots : Append(call.from, n) \in DOMAIN disk'
      BY <2>3, <3>1
    <3> QED
      BY <2>6, <3>1, <3>2 DEF CallInv, Dots
  <2>8. stack' = Append(calls, call)
    BY <2>1, <2>4
  <2> QED
    BY <1>1, <2>5, <2>7, <2>8, PushKeeps
<1> QED
  BY <1>2, <1>3 DEF Fill, FillFails

(* run takes an argument: its folder is made and filled, or run ends. *)
LEMMA ArgumentKeeps == TreeInv /\ InFolders(disk) /\ Argument => TreeInv'
<1> SUFFICES ASSUME TreeInv, InFolders(disk), Argument PROVE TreeInv'
  OBVIOUS
<1>0. TreeTypes /\ StackInv /\ stack = <<>> /\ args[i] \in [dir : Names, name : Names]
  <2>1. TreeTypes /\ StackInv /\ stack = <<>> /\ i <= Len(args)
    BY Zenon DEF TreeInv, Argument
  <2> DEFINE R == [dir : Names, name : Names]
  <2>2. args \in Seq(R) /\ i \in Nat \ {0}
    BY <2>1 DEF TreeTypes
  <2> HIDE DEF R
  <2>3. args[i] \in R
    BY <2>1, <2>2
  <2> QED
    BY <2>1, <2>3 DEF R
<1>1. PICK arg : arg = args[i]
  OBVIOUS
<1>2. arg \in [dir : Names, name : Names]
  BY <1>0, <1>1
<1>3. PICK name : name = reverse_line(Strncpy(rev_folder, arg.name))
  OBVIOUS
<1>4. name \in Names
  <2>1. Strncpy(rev_folder, arg.name) \in Names
    BY <1>0, <1>2, StrncpyType DEF TreeTypes, Names
  <2> QED
    BY <1>3, <2>1, ReverseLine DEF Names
<1>5. PICK rest : rest = (IF arg.dir = <<Dot>> THEN <<>> ELSE path_to_folder) \o name
  OBVIOUS
<1>6. rest \in Names
  <2>1. CASE arg.dir = <<Dot>>
    BY <1>4, <1>5, <2>1 DEF Names
  <2>2. CASE arg.dir # <<Dot>>
    BY <1>0, <1>4, <1>5, <2>2 DEF Names, TreeTypes
  <2> QED
    BY <2>1, <2>2
<1>7. PICK to : to = <<arg.dir, rest>>
  OBVIOUS
<1>8. PICK from : from = <<arg.dir, arg.name>>
  OBVIOUS
<1>9. to \in Paths /\ from \in Paths
  BY <1>2, <1>6, <1>7, <1>8 DEF Paths
<1>10. /\ rev_folder' = name /\ path_to_folder' = rest
       /\ \/ ret' = "ERROR" /\ UNCHANGED <<i, disk, made, stack, lost>>
          \/ /\ ~MkdirFails(to) /\ disk' = Put(to, Folder) /\ Fill(<<>>, from, to)
             /\ i' = i + 1
       /\ UNCHANGED <<args, file, copied>>
  BY <1>1, <1>3, <1>5, <1>7, <1>8, Zenon DEF Argument
<1>11. CASE ret' = "ERROR" /\ UNCHANGED <<i, disk, made, stack, lost>>
  <2>1. UNCHANGED <<i, disk, stack, args, file, copied>>
    BY <1>10, <1>11
  <2>2. TreeTypes'
    BY <1>0, <1>4, <1>6, <1>10, <2>1 DEF TreeTypes
  <2> QED
    BY <2>1, <2>2 DEF TreeInv, StackInv, CallInv, CopiedInv, ReversesFile, CopyInv
<1>12. CASE /\ ~MkdirFails(to) /\ disk' = Put(to, Folder) /\ Fill(<<>>, from, to)
            /\ i' = i + 1
  <2>1. to \notin DOMAIN disk /\ Folder.data \in Seq(Int)
    BY <1>12 DEF MkdirFails, Folder
  <2>2. /\ DOMAIN disk \subseteq DOMAIN disk'
        /\ \A p \in DOMAIN disk' : p \in Paths /\ disk'[p].data \in Seq(Int)
        /\ CopiedInv' /\ ReversesFile' /\ (file # NoFile => CopyInv)'
    BY <1>9, <1>10, <1>12, <2>1, NewNode DEF Folder
  <2>3. PICK calls : calls = <<>>
    OBVIOUS
  <2>4. calls \in Seq(Calls) /\ \A k \in 1 .. Len(calls) : CallInv(calls[k])
    BY <2>3
  <2>5. Fill(calls, from, to)
    BY <1>12, <2>3
  <2>6. stack' \in Seq(Calls) /\ StackInv'
    <3>1. Entries(to) \subseteq Dots
      <4>1. Len(to) >= 2
        BY ONLY <1>2, <1>6, <1>7
      <4> QED
        BY <1>0, <1>9, <2>1, <4>1, NothingInside
    <3> QED
      BY <1>9, <2>1, <2>2, <2>4, <2>5, <3>1, FillKeeps
  <2>7. TreeTypes'
    <3>1. i' \in Nat \ {0} /\ args' = args /\ file' = file
      BY <1>0, <1>10, <1>12 DEF TreeTypes
    <3>2. rev_folder' \in Names /\ path_to_folder' \in Names
      BY <1>4, <1>6, <1>10
    <3> QED
      BY <1>0, <2>2, <2>6, <3>1, <3>2 DEF TreeTypes
  <2> QED
    BY <2>2, <2>6, <2>7 DEF TreeInv
<1> QED
  BY <1>10, <1>11, <1>12

(* A call returns: its caller goes on. *)
LEMMA CallerKeeps ==
    ASSUME TreeInv, stack # <<>>, DOMAIN disk \subseteq DOMAIN disk', stack' = Callers
    PROVE  stack' \in Seq(Calls) /\ StackInv'
<1>1. /\ stack' \in Seq(Calls) /\ Len(stack') = Len(stack) - 1 /\ Len(stack) \in Nat \ {0}
      /\ \A k \in 1 .. Len(stack) - 1 : stack'[k] = stack[k]
  BY FrontLast DEF TreeInv, TreeTypes, Callers
<1>2. ASSUME NEW k \in 1 .. Len(stack') PROVE CallInv(stack[k])'
  <2>1. CallInv(stack[k]) /\ stack'[k] = stack[k]
    BY <1>1 DEF TreeInv, StackInv
  <2> QED
    BY <2>1 DEF CallInv, Dots
<1> QED
  BY <1>1, <1>2 DEF StackInv

(* The call that has dealt with an entry. *)
LEMMA AfterEntryIs ==
    ASSUME TreeInv, stack # <<>>, NEW n, NEW name
    PROVE  /\ AfterEntry(n, name) \in Calls /\ CallInv(AfterEntry(n, name))
           /\ Top \in Calls /\ CallInv(Top) /\ Callers \in Seq(Calls)
           /\ \A k \in 1 .. Len(Callers) : CallInv(Callers[k])
<1>1. /\ Top \in Calls /\ Top = stack[Len(stack)] /\ Len(stack) \in Nat \ {0}
      /\ Callers \in Seq(Calls) /\ Len(Callers) = Len(stack) - 1
      /\ \A k \in 1 .. Len(stack) - 1 : Callers[k] = stack[k]
  BY FrontLast DEF TreeInv, TreeTypes, Top, Callers
<1>2. CallInv(Top) /\ \A k \in 1 .. Len(Callers) : CallInv(Callers[k])
  BY <1>1 DEF TreeInv, StackInv
<1>3. <<>> \in Names
  BY DEF Names
<1> DEFINE call == AfterEntry(n, name)
<1>4. /\ call \in Calls /\ call.from = Top.from /\ call.to = Top.to
      /\ call.left = Top.left \ {n}
  BY <1>1, <1>3 DEF AfterEntry, Calls
<1>5. CallInv(call)
  BY <1>2, <1>4 DEF CallInv
<1> QED
  BY <1>1, <1>2, <1>4, <1>5

(* The call goes on with its next entry. *)
LEMMA NextEntryKeeps ==
    ASSUME TreeInv, stack # <<>>, NEW n, NEW name, DOMAIN disk \subseteq DOMAIN disk',
           stack' = Append(Callers, AfterEntry(n, name))
    PROVE  stack' \in Seq(Calls) /\ StackInv'
<1>1. PICK calls : calls = Callers
  OBVIOUS
<1>2. PICK call : call = AfterEntry(n, name)
  OBVIOUS
<1>3. /\ calls \in Seq(Calls) /\ call \in Calls /\ CallInv(call)
      /\ \A k \in 1 .. Len(calls) : CallInv(calls[k])
  BY <1>1, <1>2, AfterEntryIs
<1>4. CallInv(call)' /\ \A k \in 1 .. Len(calls) : CallInv(calls[k])'
  BY <1>3 DEF CallInv, Dots
<1>5. stack' = Append(calls, call)
  BY <1>1, <1>2
<1> QED
  BY <1>3, <1>4, <1>5, PushKeeps

(* fill_folder takes the next entry of the folder. *)
LEMMA EntryKeeps ==
    ASSUME TreeInv, NEW n, Entry(n)
    PROVE  TreeInv'
<1>0. TreeTypes /\ stack # <<>> /\ file = NoFile /\ n \in Top.left
  BY Zenon DEF TreeInv, Entry
<1>1. Top \in Calls /\ CallInv(Top)
  BY <1>0, AfterEntryIs
<1>2. PICK name : name = reverse_line(Strncpy(Top.name, n))
  OBVIOUS
<1>3. n \in Names /\ Top.name \in Names /\ Top.from \in Paths /\ Top.to \in Paths
  BY <1>0, <1>1 DEF Calls
<1>4. name \in Names
  <2>1. Strncpy(Top.name, n) \in Names
    BY <1>3, StrncpyType
  <2> QED
    BY <1>2, <2>1, ReverseLine DEF Names
<1>5. PICK from : from = Append(Top.from, n)
  OBVIOUS
<1>6. PICK to : to = Append(Top.to, name)
  OBVIOUS
<1>7. from \in Paths /\ to \in Paths /\ (n \notin Dots => from # to)
  <2>1. PICK f : f = Top.from
    OBVIOUS
  <2>2. PICK g : g = Top.to
    OBVIOUS
  <2>3. f \in Seq(Names) /\ g \in Seq(Names) /\ (n \notin Dots => f # g)
    BY <1>0, <1>1, <1>3, <2>1, <2>2 DEF Paths, CallInv
  <2>4. from = Append(f, n) /\ to = Append(g, name)
    BY <1>5, <1>6, <2>1, <2>2
  <2>5. n \notin Dots => from # to
    <3> SUFFICES ASSUME n \notin Dots, from = to PROVE FALSE
      OBVIOUS
    <3>0. f \in Seq(Names) /\ g \in Seq(Names) /\ n \in Names /\ name \in Names
      BY <1>3, <1>4, <2>3
    <3>1. Len(from) = Len(f) + 1 /\ Len(to) = Len(g) + 1 /\ Len(f) \in Nat /\ Len(g) \in Nat
      BY ONLY <2>4, <3>0
    <3>2. Len(f) = Len(g)
      BY <3>1
    <3>3. /\ \A k \in 1 .. Len(f) : from[k] = f[k]
          /\ \A k \in 1 .. Len(g) : to[k] = g[k]
      BY ONLY <2>4, <3>0
    <3>4. \A k \in 1 .. Len(f) : f[k] = g[k]
      BY <3>2, <3>3
    <3>5. f = g
      BY <3>0, <3>2, <3>4, SameSeq
    <3> QED
      BY <2>3, <3>5
  <2>6. /\ from \in Seq(Names) /\ Len(from) > 0
        /\ to \in Seq(Names) /\ Len(to) > 0
    BY <1>3, <1>4, <2>3, <2>4
  <2>7. from # <<>> /\ to # <<>>
    BY <2>6, NonEmpty
  <2> QED
    BY <2>5, <2>6, <2>7 DEF Paths
<1>8. n \notin Dots => from \in DOMAIN disk
  BY <1>0, <1>1, <1>5 DEF CallInv
<1>9. UNCHANGED <<args, i, rev_folder, path_to_folder>>
  BY DEF Entry, runVars
<1>10. \/ /\ stack' = Append(Callers, AfterEntry(n, name))
          /\ UNCHANGED <<disk, file, copied, lost>>
       \/ /\ n \notin Dots /\ ~MkdirFails(to) /\ disk' = Put(to, Folder)
          /\ Fill(Append(Callers, AfterEntry(n, name)), from, to)
          /\ UNCHANGED <<file, copied>>
       \/ /\ n \notin Dots
          /\ disk' = Put(to, [type |-> "reg", data |-> <<>>])
          /\ file' = [from |-> from, to |-> to, before |-> disk[from].data, pos |-> 0,
                      left |-> Len(disk[from].data), written |-> TRUE, kept |-> TRUE]
          /\ copied' = [p \in DOMAIN copied \ {to} |-> copied[p]]
          /\ stack' = Append(Callers, AfterEntry(n, name))
       \/ FillFails(Callers) /\ UNCHANGED <<disk, file, copied>>
  BY <1>2, <1>5, <1>6, Zenon DEF Entry
<1>11. CASE /\ stack' = Append(Callers, AfterEntry(n, name))
            /\ UNCHANGED <<disk, file, copied, lost>>
  <2>1. stack' \in Seq(Calls) /\ StackInv'
    BY <1>0, <1>11, NextEntryKeeps
  <2> QED
    BY <1>9, <1>11, <2>1, SameDisk
<1>12. CASE /\ n \notin Dots /\ ~MkdirFails(to) /\ disk' = Put(to, Folder)
            /\ Fill(Append(Callers, AfterEntry(n, name)), from, to)
            /\ UNCHANGED <<file, copied>>
  <2>1. to \notin DOMAIN disk /\ Folder.data \in Seq(Int)
    BY <1>12 DEF MkdirFails, Folder
  <2>2. /\ DOMAIN disk \subseteq DOMAIN disk'
        /\ \A p \in DOMAIN disk' : p \in Paths /\ disk'[p].data \in Seq(Int)
        /\ CopiedInv' /\ ReversesFile' /\ (file # NoFile => CopyInv)'
    BY <1>7, <1>12, <2>1, NewNode DEF Folder
  <2>3. PICK calls : calls = Append(Callers, AfterEntry(n, name))
    OBVIOUS
  <2>4. calls \in Seq(Calls) /\ \A k \in 1 .. Len(calls) : CallInv(calls[k])
    <3>1. PICK s : s = Callers
      OBVIOUS
    <3>2. PICK c : c = AfterEntry(n, name)
      OBVIOUS
    <3>3. /\ s \in Seq(Calls) /\ c \in Calls /\ CallInv(c)
          /\ \A k \in 1 .. Len(s) : CallInv(s[k])
      BY <1>0, <3>1, <3>2, AfterEntryIs
    <3>4. /\ calls \in Seq(Calls) /\ Len(calls) = Len(s) + 1 /\ Len(s) \in Nat
          /\ \A k \in 1 .. Len(s) : calls[k] = s[k]
          /\ calls[Len(s) + 1] = c
      BY <2>3, <3>1, <3>2, <3>3
    <3> QED
      BY <3>3, <3>4
  <2>5. Fill(calls, from, to)
    BY <1>12, <2>3
  <2>6. stack' \in Seq(Calls) /\ StackInv'
    BY <1>7, <1>12, <2>1, <2>2, <2>4, <2>5, FillKeeps
  <2>7. TreeTypes'
    BY <1>0, <1>9, <1>12, <2>2, <2>6 DEF TreeTypes
  <2> QED
    BY <2>2, <2>6, <2>7 DEF TreeInv
<1>13. CASE /\ n \notin Dots
            /\ disk' = Put(to, [type |-> "reg", data |-> <<>>])
            /\ file' = [from |-> from, to |-> to, before |-> disk[from].data, pos |-> 0,
                        left |-> Len(disk[from].data), written |-> TRUE, kept |-> TRUE]
            /\ copied' = [p \in DOMAIN copied \ {to} |-> copied[p]]
            /\ stack' = Append(Callers, AfterEntry(n, name))
  <2>1. /\ DOMAIN disk' = DOMAIN disk \cup {to} /\ disk'[to].data = <<>>
        /\ \A p \in DOMAIN disk : p # to => disk'[p] = disk[p]
    BY <1>13 DEF Put
  <2>2. stack' \in Seq(Calls) /\ StackInv'
    BY <1>0, <1>13, <2>1, NextEntryKeeps
  <2>3. \A p \in DOMAIN disk' : p \in Paths /\ disk'[p].data \in Seq(Int)
    <3>1. <<>> \in Seq(Int)
      OBVIOUS
    <3> QED
      BY <1>0, <1>7, <2>1, <3>1 DEF TreeTypes
  <2>4. CopiedInv' /\ ReversesFile'
    BY <1>13, <2>1 DEF TreeInv, CopiedInv, ReversesFile
  <2>5. PICK before : before = disk[from].data
    OBVIOUS
  <2>6. before \in Seq(Int) /\ from \in DOMAIN disk
    BY <1>0, <1>8, <1>13, <2>5 DEF TreeTypes
  <2>7. file' = [from |-> from, to |-> to, before |-> before, pos |-> 0,
                 left |-> Len(before), written |-> TRUE, kept |-> TRUE]
    BY <1>13, <2>5
  <2>8. file' \in Files
    <3>1. Len(before) \in Nat /\ 0 \in Nat
      BY <2>6
    <3> QED
      BY <1>7, <2>6, <2>7, <3>1 DEF Files
  <2>9. TreeTypes'
    BY <1>0, <1>9, <2>2, <2>3, <2>8 DEF TreeTypes
  <2>10. disk'[from].data = before /\ to \notin DOMAIN copied' /\ Len(before) \in Nat
    <3>1. disk'[from].data = before
      BY <1>7, <1>13, <2>1, <2>5, <2>6
    <3>2. DOMAIN copied' = DOMAIN copied \ {to}
      BY <1>13
    <3>3. Len(before) \in Nat
      BY <2>6
    <3> QED
      BY <3>1, <3>2, <3>3
  <2>11. CopyInv'
    <3>1. /\ file'.from = from /\ file'.to = to /\ file'.before = before /\ file'.pos = 0
          /\ file'.left = Len(before)
      BY <2>7
    <3>2. \A k \in 1 .. Len(before) : ~(k > Len(before))
      BY <2>10
    <3>3. Len(disk'[to].data) = 0 /\ 0 + Len(before) = Len(before) /\ ~(0 > 0)
      BY <2>1, <2>10
    <3>4. {from, to} \subseteq DOMAIN disk'
      BY <2>1, <2>6
    <3> QED
      BY <1>7, <1>13, <2>10, <3>1, <3>2, <3>3, <3>4 DEF CopyInv
  <2> QED
    BY <2>2, <2>4, <2>9, <2>11 DEF TreeInv
<1>14. CASE FillFails(Callers) /\ UNCHANGED <<disk, file, copied>>
  <2>1. stack' = Callers
    BY <1>14 DEF FillFails
  <2>2. stack' \in Seq(Calls) /\ StackInv'
    BY <1>0, <1>14, <2>1, CallerKeeps
  <2> QED
    BY <1>9, <1>14, <2>2, SameDisk
<1> QED
  BY <1>10, <1>11, <1>12, <1>13, <1>14

(* fill_folder has read its folder to the end. *)
LEMMA FillReturnsKeeps == TreeInv /\ FillReturns => TreeInv'
<1> SUFFICES ASSUME TreeInv, FillReturns PROVE TreeInv'
  OBVIOUS
<1>1. /\ stack # <<>> /\ stack' = Callers
      /\ UNCHANGED <<args, i, rev_folder, path_to_folder, disk, file, copied>>
  BY DEF FillReturns, runVars
<1>2. stack' \in Seq(Calls) /\ StackInv'
  BY <1>1, CallerKeeps
<1> QED
  BY <1>1, <1>2, SameDisk

(* create_reverse_file gives up, and fill_folder with it. *)
LEMMA FileFailsKeeps == TreeInv /\ FileFails => TreeInv'
<1> SUFFICES ASSUME TreeInv, FileFails PROVE TreeInv'
  OBVIOUS
<1>1. /\ file' = NoFile /\ stack' = Callers
      /\ UNCHANGED <<args, i, rev_folder, path_to_folder, disk, copied>>
  BY DEF FileFails, FillFails, runVars
<1>2. stack' \in Seq(Calls) /\ StackInv'
  <2>1. CASE stack # <<>>
    BY <1>1, <2>1, CallerKeeps
  <2>2. CASE stack = <<>>
    <3>1. stack' = <<>>
      BY <1>1, <2>2 DEF Callers
    <3> QED
      BY <3>1 DEF StackInv
  <2> QED
    BY <2>1, <2>2
<1>3. TreeTypes'
  BY <1>1, <1>2 DEF TreeInv, TreeTypes
<1> QED
  BY <1>1, <1>2, <1>3 DEF TreeInv, CopiedInv, ReversesFile

(* The copy is finished: what stands in the output is the input reversed. *)
LEMMA FileDoneKeeps == TreeInv /\ FileDone => TreeInv'
<1> SUFFICES ASSUME TreeInv, FileDone PROVE TreeInv'
  OBVIOUS
<1>1. /\ file # NoFile /\ file.left = 0 /\ file' = NoFile
      /\ UNCHANGED <<args, i, rev_folder, path_to_folder, disk, stack>>
      /\ copied' = IF ~(file.written /\ file.kept) THEN copied
                   ELSE [p \in DOMAIN copied \cup {file.to} |->
                            IF p = file.to THEN file.before ELSE copied[p]]
  BY DEF FileDone, runVars
<1>2. TreeTypes' /\ StackInv'
  BY <1>1 DEF TreeInv, TreeTypes, StackInv, CallInv
<1>3. CASE ~(file.written /\ file.kept)
  BY <1>1, <1>2, <1>3 DEF TreeInv, CopiedInv, ReversesFile
<1>4. CASE file.written /\ file.kept
  <2>1. PICK to : to = file.to
    OBVIOUS
  <2>2. PICK before : before = file.before
    OBVIOUS
  <2>3. PICK out : out = disk[to].data
    OBVIOUS
  <2>4. CopyInv /\ file \in Files
    BY <1>1 DEF TreeInv, TreeTypes
  <2>5. before \in Seq(Int) /\ to \in DOMAIN disk /\ out \in Seq(Int)
    BY <2>1, <2>2, <2>3, <2>4 DEF TreeInv, TreeTypes, CopyInv, Files
  <2>6. file.pos \in Nat /\ file.pos + 0 = Len(before)
    BY <1>1, <2>2, <2>4 DEF CopyInv, Files
  <2>7. /\ file.pos = 0 => Len(out) = 0
        /\ file.pos > 0 => Len(out) = Len(before)
        /\ \A k \in 1 .. Len(before) : k > 0 => out[k] = before[Len(before) + 1 - k]
    BY <1>1, <1>4, <2>1, <2>2, <2>3, <2>4 DEF CopyInv
  <2>8. Len(before) \in Nat /\ Len(out) = Len(before)
    BY <2>5, <2>6, <2>7
  <2>9. \A k \in 1 .. Len(before) : out[k] = before[Len(before) + 1 - k]
    <3>1. \A k \in 1 .. Len(before) : k > 0 /\ (Len(before) - k) + 1 = Len(before) + 1 - k
      BY <2>8
    <3> QED
      BY <2>7, <3>1
  <2>10. out = Reversed(before)
    <3>1. out = [k \in 1 .. Len(out) |-> out[k]]
      BY <2>5
    <3> QED
      BY <2>8, <2>9, <3>1 DEF Reversed
  <2>11. /\ DOMAIN copied' = DOMAIN copied \cup {to} /\ copied'[to] = before
         /\ \A p \in DOMAIN copied : p # to => copied'[p] = copied[p]
    BY <1>1, <1>4, <2>1, <2>2
  <2>12. CopiedInv'
    BY <1>1, <2>5, <2>11 DEF TreeInv, CopiedInv
  <2>13. ReversesFile'
    BY <1>1, <2>3, <2>10, <2>11 DEF TreeInv, ReversesFile
  <2> QED
    BY <1>1, <1>2, <2>12, <2>13 DEF TreeInv
<1> QED
  BY <1>3, <1>4

(* Another process appends to the file being copied, cuts it short or overwrites a byte. *)
LEMMA ChangeKeeps == TreeInv /\ Change => TreeInv'
<1> SUFFICES ASSUME TreeInv, Change PROVE TreeInv'
  OBVIOUS
<1>1. /\ file # NoFile /\ UNCHANGED <<args, i, rev_folder, path_to_folder, stack>>
      /\ copied' = [p \in DOMAIN copied \ {file.from} |-> copied[p]]
  BY DEF Change, runVars
<1>2. PICK data : data = disk[file.from].data
  OBVIOUS
<1>3. PICK new, kept :
        /\ disk' = Put(file.from, [type |-> "reg", data |-> new])
        /\ file' = [file EXCEPT !.kept = @ /\ kept]
        /\ \/ new = SubSeq(data, 1, Len(data) - 1) /\ kept = TRUE
           \/ new = Append(data, 1) /\ kept = (Len(data) >= Len(file.before))
           \/ \E j \in 1 .. Len(data) : new = [data EXCEPT ![j] = 0] /\ kept = (j > Len(file.before))
  BY <1>2, Zenon DEF Change
<1>4. CopyInv /\ file \in Files
  BY <1>1 DEF TreeInv, TreeTypes
<1>5. PICK f : f = file
  OBVIOUS
<1>6. f \in Files /\ f.from \in DOMAIN disk /\ f.to \in DOMAIN disk
  BY <1>4, <1>5 DEF CopyInv
<1>7. data \in Seq(Int) /\ Len(data) \in Nat /\ f.from \in Paths
  BY <1>2, <1>5, <1>6 DEF TreeInv, TreeTypes, Files
<1>8. /\ new \in Seq(Int) /\ kept \in BOOLEAN
      /\ kept => \A k \in 1 .. Len(f.before) : k <= Len(new) => k <= Len(data) /\ new[k] = data[k]
  <2>0. f.before \in Seq(Int) /\ Len(f.before) \in Nat
    BY <1>6 DEF Files
  <2>1. CASE new = SubSeq(data, 1, Len(data) - 1) /\ kept = TRUE
    <3>1. CASE Len(data) = 0
      <4>1. data = <<>> /\ new = <<>>
        BY <1>7, <2>1, <3>1
      <4> QED
        BY <2>0, <2>1, <4>1
    <3>2. CASE Len(data) # 0
      <4>1. PICK m : m = Len(data) - 1
        OBVIOUS
      <4>2. m \in Nat /\ m <= Len(data) /\ new = SubSeq(data, 1, m)
        BY <1>7, <2>1, <3>2, <4>1
      <4>3. new \in Seq(Int) /\ Len(new) = m /\ \A k \in 1 .. m : new[k] = data[k]
        <5>1. data \in Seq(Int)
          BY <1>7
        <5>2. m \in Nat /\ m <= Len(data) /\ Len(data) \in Nat /\ new = SubSeq(data, 1, m)
          BY <1>7, <4>2
        <5> QED
          BY ONLY <5>1, <5>2
      <4>4. ASSUME NEW k \in 1 .. Len(f.before), k <= Len(new)
            PROVE  k <= Len(data) /\ new[k] = data[k]
        <5>1. k \in Nat \ {0} /\ k <= m /\ m <= Len(data) /\ Len(data) \in Nat /\ m \in Nat
          BY <1>7, <2>0, <4>2, <4>3, <4>4
        <5> QED
          BY ONLY <4>3, <5>1
      <4> QED
        BY <2>1, <4>3, <4>4
    <3> QED
      BY <3>1, <3>2
  <2>2. CASE new = Append(data, 1) /\ kept = (Len(data) >= Len(f.before))
    <3>1. new \in Seq(Int) /\ \A k \in 1 .. Len(data) : new[k] = data[k]
      BY <1>7, <2>2
    <3>2. kept \in BOOLEAN
      BY <2>2
    <3>3. ASSUME kept, NEW k \in 1 .. Len(f.before) PROVE k <= Len(data) /\ new[k] = data[k]
      <4>1. Len(data) >= Len(f.before)
        BY <2>2, <3>3
      <4>2. k \in 1 .. Len(data)
        BY <1>7, <2>0, <4>1
      <4> QED
        BY <1>7, <3>1, <4>2
    <3> QED
      BY <3>1, <3>2, <3>3
  <2>3. CASE \E j \in 1 .. Len(data) : new = [data EXCEPT ![j] = 0] /\ kept = (j > Len(f.before))
    <3>1. PICK j \in 1 .. Len(data) : new = [data EXCEPT ![j] = 0] /\ kept = (j > Len(f.before))
      BY <2>3
    <3>2. new \in Seq(Int) /\ Len(new) = Len(data) /\ \A k \in 1 .. Len(data) : k # j => new[k] = data[k]
      <4>1. data \in Seq(Int) /\ new = [data EXCEPT ![j] = 0] /\ j \in 1 .. Len(data)
        BY <1>7, <3>1
      <4> QED
        BY ONLY <4>1
    <3>3. kept \in BOOLEAN
      BY <3>1
    <3>4. ASSUME kept, NEW k \in 1 .. Len(f.before), k <= Len(new)
          PROVE  k <= Len(data) /\ new[k] = data[k]
      <4>1. j > Len(f.before)
        BY <3>1, <3>4
      <4>2. k \in 1 .. Len(data) /\ k # j
        BY <1>7, <2>0, <3>2, <3>4, <4>1
      <4> QED
        BY <1>7, <3>2, <4>2
    <3> QED
      BY <3>2, <3>3, <3>4
  <2> QED
    BY <1>3, <1>5, <2>1, <2>2, <2>3
<1>9. /\ DOMAIN disk' = DOMAIN disk /\ disk'[f.from].data = new
      /\ \A p \in DOMAIN disk : p # f.from => disk'[p] = disk[p]
  BY <1>3, <1>5, <1>6 DEF Put
<1>10. /\ file' \in Files /\ file'.from = f.from /\ file'.to = f.to /\ file'.pos = f.pos
       /\ file'.left = f.left /\ file'.before = f.before /\ file'.written = f.written
       /\ file'.kept = (f.kept /\ kept)
  BY <1>3, <1>5, <1>6, <1>8 DEF Files
<1>11. TreeTypes' /\ StackInv'
  BY <1>1, <1>7, <1>8, <1>9, <1>10 DEF TreeInv, TreeTypes, StackInv, CallInv
<1>12. CopiedInv' /\ ReversesFile'
  BY <1>1, <1>5, <1>9 DEF TreeInv, CopiedInv, ReversesFile
<1>13. /\ f.from # f.to /\ f.to \notin DOMAIN copied'
       /\ f.pos + f.left = Len(f.before)
       /\ f.kept => \A k \in 1 .. Len(f.before) : k <= Len(data) => data[k] = f.before[k]
       /\ f.written /\ f.kept =>
             /\ f.pos = 0 => Len(disk[f.to].data) = 0
             /\ f.pos > 0 => Len(disk[f.to].data) = Len(f.before)
             /\ \A k \in 1 .. Len(f.before) :
                   k > f.left => disk[f.to].data[k] = f.before[Len(f.before) + 1 - k]
  BY <1>1, <1>2, <1>4, <1>5 DEF CopyInv
<1>14. disk'[f.to] = disk[f.to]
  BY <1>6, <1>9, <1>13
<1>15. f.kept /\ kept =>
          \A k \in 1 .. Len(f.before) : k <= Len(new) => new[k] = f.before[k]
  BY <1>8, <1>13
<1>16. CopyInv'
  <2>1. /\ {file'.from, file'.to} \subseteq DOMAIN disk' /\ file'.from # file'.to
        /\ file'.to \notin DOMAIN copied'
        /\ file'.pos + file'.left = Len(file'.before)
    BY <1>6, <1>9, <1>10, <1>13
  <2>2. file'.kept => \A k \in 1 .. Len(file'.before) :
           k <= Len(disk'[file'.from].data) => disk'[file'.from].data[k] = file'.before[k]
    BY <1>9, <1>10, <1>15
  <2>3. file'.written /\ file'.kept =>
           /\ file'.pos = 0 => Len(disk'[file'.to].data) = 0
           /\ file'.pos > 0 => Len(disk'[file'.to].data) = Len(file'.before)
           /\ \A k \in 1 .. Len(file'.before) : k > file'.left =>
                 disk'[file'.to].data[k] = file'.before[Len(file'.before) + 1 - k]
    <3>1. file'.written /\ file'.kept => f.written /\ f.kept
      BY <1>10
    <3>2. disk'[file'.to].data = disk[f.to].data
      BY <1>10, <1>14
    <3> QED
      BY <1>10, <1>13, <3>1, <3>2
  <2> QED
    BY <2>1, <2>2, <2>3 DEF CopyInv
<1> QED
  BY <1>11, <1>12, <1>16 DEF TreeInv

(* A turn of create_reverse_file's loop: the block just read stands reversed
   in front of the blocks read before. *)
LEMMA ReadBlockKeeps == TreeInv /\ ReadBlock => TreeInv'
<1> SUFFICES ASSUME TreeInv, ReadBlock PROVE TreeInv'
  OBVIOUS
<1>1. /\ file.left > 0 /\ UNCHANGED <<args, i, rev_folder, path_to_folder, stack, copied>>
  BY DEF ReadBlock, runVars
<1>2. file # NoFile
  BY <1>1 DEF NoFile
<1>3. CopyInv /\ file \in Files
  BY <1>2 DEF TreeInv, TreeTypes
<1>4. PICK f : f = file
  OBVIOUS
<1>5. PICK bytes : bytes = IF f.left < BUFFER_SIZE THEN f.left ELSE BUFFER_SIZE
  OBVIOUS
<1>6. f \in Files /\ f.left > 0 /\ f.left \in Nat /\ f.pos \in Nat /\ f.before \in Seq(Int)
  BY <1>1, <1>3, <1>4 DEF Files
<1>7. bytes \in Nat \ {0} /\ bytes <= f.left
  BY <1>5, <1>6, TreeAssumption
<1>8. PICK in : in = disk[f.from].data
  OBVIOUS
<1>9. PICK out : out = disk[f.to].data
  OBVIOUS
<1>10. PICK data \in {in, f.before}, written \in BOOLEAN :
         /\ f.pos + bytes <= Len(data)
         /\ file' = [f EXCEPT !.pos = @ + bytes, !.left = @ - bytes, !.written = @ /\ written]
         /\ \/ /\ written
               /\ disk' = Put(f.to, [type |-> "reg", data |->
                     Write(out, Offset(f.left, bytes),
                           reverse_line(SubSeq(data, f.pos + 1, f.pos + bytes)))])
            \/ ~written /\ UNCHANGED disk
  BY <1>4, <1>5, <1>8, <1>9 DEF ReadBlock
<1>11. /\ {f.from, f.to} \subseteq DOMAIN disk /\ f.from # f.to /\ f.to \notin DOMAIN copied
       /\ f.pos + f.left = Len(f.before)
       /\ f.kept => \A k \in 1 .. Len(f.before) : k <= Len(in) => in[k] = f.before[k]
       /\ f.written /\ f.kept =>
             /\ f.pos = 0 => Len(out) = 0
             /\ f.pos > 0 => Len(out) = Len(f.before)
             /\ \A k \in 1 .. Len(f.before) :
                   k > f.left => out[k] = f.before[Len(f.before) + 1 - k]
  BY <1>3, <1>4, <1>8, <1>9 DEF CopyInv
<1>12. in \in Seq(Int) /\ out \in Seq(Int) /\ data \in Seq(Int) /\ f.to \in Paths
  BY <1>6, <1>8, <1>9, <1>10, <1>11 DEF TreeInv, TreeTypes
<1>13. /\ file' \in Files /\ file'.from = f.from /\ file'.to = f.to /\ file'.before = f.before
       /\ file'.pos = f.pos + bytes /\ file'.left = f.left - bytes /\ file'.kept = f.kept
       /\ file'.written = (f.written /\ written)
  <2>1. f.left - bytes \in Nat /\ f.pos + bytes \in Nat
    BY <1>6, <1>7
  <2> QED
    BY <1>6, <1>10, <2>1 DEF Files
<1>14. PICK pos : pos = f.pos
  OBVIOUS
<1>15. PICK left : left = f.left
  OBVIOUS
<1>16. PICK size : size = Len(f.before)
  OBVIOUS
<1>17. /\ pos \in Nat /\ left \in Nat /\ size \in Nat /\ bytes \in Nat \ {0} /\ bytes <= left
       /\ pos + left = size
  BY <1>6, <1>7, <1>11, <1>14, <1>15, <1>16
<1>18. pos + bytes <= Len(data) /\ Len(data) \in Nat
  BY <1>10, <1>12, <1>14
<1>19. /\ f.kept => \A k \in 1 .. size : k <= Len(in) => in[k] = f.before[k]
       /\ f.written /\ f.kept =>
             /\ pos = 0 => Len(out) = 0
             /\ pos > 0 => Len(out) = size
             /\ \A k \in 1 .. size : k > left => out[k] = f.before[size + 1 - k]
  BY <1>11, <1>14, <1>15, <1>16
<1>20. PICK block : block = reverse_line(SubSeq(data, pos + 1, pos + bytes))
  OBVIOUS
<1>21. /\ block \in Seq(Int) /\ Len(block) = bytes
       /\ \A k \in 1 .. bytes : block[k] = data[pos + bytes + 1 - k]
  <2>1. PICK s : s = SubSeq(data, pos + 1, pos + bytes)
    OBVIOUS
  <2>2. /\ s \in Seq(Int) /\ Len(s) = bytes
        /\ \A k \in 1 .. bytes : s[k] = data[pos + k]
    <3>1. PICK a : a = pos + 1
      OBVIOUS
    <3>2. PICK b : b = pos + bytes
      OBVIOUS
    <3>3. /\ a \in Nat \ {0} /\ b \in Nat /\ a <= b /\ b <= Len(data) /\ s = SubSeq(data, a, b)
          /\ b - a + 1 = bytes
      BY <1>17, <1>18, <2>1, <3>1, <3>2
    <3>4. /\ s \in Seq(Int) /\ Len(s) = b - a + 1
          /\ \A k \in 1 .. b - a + 1 : s[k] = data[a + k - 1]
      <4>1. data \in Seq(Int)
        BY <1>12
      <4> QED
        BY <3>3, <4>1, Segment
    <3>5. \A k \in 1 .. bytes : a + k - 1 = pos + k
      BY <1>17, <3>1
    <3> QED
      BY <3>3, <3>4, <3>5
  <2>3. /\ block \in Seq(Int) /\ Len(block) = Len(s)
        /\ \A k \in 1 .. Len(s) : block[k] = s[Len(s) + 1 - k]
    BY <1>20, <2>1, <2>2, ReverseLine
  <2> QED
    BY <1>17, <2>2, <2>3
<1>22. PICK w : w = Write(out, left - bytes, block)
  OBVIOUS
<1>23. left - bytes \in Nat /\ (left - bytes) + Len(block) = left
  BY <1>17, <1>21
<1>24. /\ w \in Seq(Int)
       /\ Len(out) > left => Len(w) = Len(out)
       /\ Len(out) <= left => Len(w) = left
       /\ \A k \in 1 .. bytes : w[left - bytes + k] = block[k]
       /\ \A k \in 1 .. Len(out) : k > left => w[k] = out[k]
  <2>1. PICK offset : offset = left - bytes
    OBVIOUS
  <2>2. offset \in Nat /\ w = Write(out, offset, block) /\ offset + Len(block) = left
    BY <1>22, <1>23, <2>1
  <2>3. /\ w \in Seq(Int)
        /\ Len(out) > offset + Len(block) => Len(w) = Len(out)
        /\ Len(out) <= offset + Len(block) => Len(w) = offset + Len(block)
        /\ \A k \in 1 .. Len(block) : w[offset + k] = block[k]
        /\ \A k \in 1 .. Len(out) : k > offset + Len(block) => w[k] = out[k]
    <3>1. Written(w, out, offset, block)
      BY <1>12, <1>21, <2>2, WriteIs
    <3> QED
      BY <3>1 DEF Written
  <2> QED
    BY <1>21, <2>1, <2>2, <2>3
<1>25. f.kept => \A k \in 1 .. bytes : data[pos + k] = f.before[pos + k]
  <2> SUFFICES ASSUME f.kept, NEW k \in 1 .. bytes PROVE data[pos + k] = f.before[pos + k]
    OBVIOUS
  <2>1. CASE data = f.before
    BY <2>1
  <2>2. CASE data = in
    <3>1. PICK h : h = pos + k
      OBVIOUS
    <3>2. Len(in) \in Nat
      BY <1>12
    <3>3. h \in 1 .. size /\ h <= Len(in)
      BY <1>17, <1>18, <2>2, <3>1, <3>2
    <3> QED
      BY <1>19, <2>2, <3>1, <3>3
  <2> QED
    BY <1>10, <2>1, <2>2
<1>26. ASSUME f.written, f.kept
       PROVE  /\ Len(w) = size
              /\ \A k \in 1 .. size :
                    k > left - bytes => w[k] = f.before[size + 1 - k]
  <2>1. size \in Nat /\ Len(out) \in Nat
    BY <1>17, <1>12
  <2>2. Len(w) = size
    <3>1. CASE pos = 0
      BY <1>17, <1>19, <1>24, <1>26, <2>1, <3>1
    <3>2. CASE pos > 0
      BY <1>17, <1>19, <1>24, <1>26, <2>1, <3>2
    <3> QED
      BY <1>17, <3>1, <3>2
  <2>3. ASSUME NEW k \in 1 .. size, k > left - bytes
        PROVE  w[k] = f.before[size + 1 - k]
    <3>1. CASE k > left
      <4>1. pos > 0 /\ k \in 1 .. Len(out)
        BY <1>17, <1>19, <1>26, <2>1, <3>1
      <4> QED
        BY <1>19, <1>24, <1>26, <3>1, <4>1
    <3>2. CASE k <= left
      <4>1. PICK j : j = k - (left - bytes)
        OBVIOUS
      <4>2. j \in 1 .. bytes /\ k = left - bytes + j
        BY <1>17, <2>1, <2>3, <3>2, <4>1
      <4>3. w[k] = data[pos + bytes + 1 - j]
        BY <1>21, <1>24, <4>2
      <4>4. PICK h : h = bytes + 1 - j
        OBVIOUS
      <4>5. h \in 1 .. bytes /\ pos + bytes + 1 - j = pos + h
        BY <1>17, <4>2, <4>4
      <4>6. pos + h = size + 1 - k
        BY <1>17, <4>2, <4>4
      <4> QED
        BY <1>25, <1>26, <4>3, <4>5, <4>6
    <3> QED
      BY <1>17, <2>1, <3>1, <3>2
  <2> QED
    BY <2>2, <2>3
<1>27. CASE ~written /\ UNCHANGED disk
  <2>1. TreeTypes' /\ StackInv' /\ CopiedInv' /\ ReversesFile'
    BY <1>1, <1>13, <1>27
       DEF TreeInv, TreeTypes, StackInv, CallInv, CopiedInv, ReversesFile
  <2>2. CopyInv'
    <3>1. ~file'.written
      BY <1>13, <1>27
    <3>2. file'.pos + file'.left = Len(file'.before)
      BY <1>13, <1>14, <1>15, <1>16, <1>17
    <3> QED
      BY <1>1, <1>8, <1>11, <1>13, <1>27, <3>1, <3>2 DEF CopyInv
  <2> QED
    BY <2>1, <2>2 DEF TreeInv
<1>28. CASE written /\ disk' = Put(f.to, [type |-> "reg", data |-> w])
  <2>1. /\ DOMAIN disk' = DOMAIN disk /\ disk'[f.to].data = w
        /\ \A p \in DOMAIN disk : p # f.to => disk'[p] = disk[p]
    BY <1>11, <1>28 DEF Put
  <2>2. TreeTypes' /\ StackInv' /\ CopiedInv' /\ ReversesFile'
    <3>1. TreeTypes'
      BY <1>1, <1>12, <1>13, <1>24, <2>1 DEF TreeInv, TreeTypes
    <3>2. StackInv'
      BY <1>1, <2>1 DEF TreeInv, StackInv, CallInv
    <3>3. CopiedInv' /\ ReversesFile'
      BY <1>1, <1>11, <2>1 DEF TreeInv, CopiedInv, ReversesFile
    <3> QED
      BY <3>1, <3>2, <3>3
  <2>3. CopyInv'
    <3>1. /\ {file'.from, file'.to} \subseteq DOMAIN disk' /\ file'.from # file'.to
          /\ file'.to \notin DOMAIN copied'
          /\ file'.pos + file'.left = Len(file'.before)
      <4>1. file'.pos + file'.left = Len(file'.before)
        BY <1>13, <1>14, <1>15, <1>16, <1>17
      <4> QED
        BY <1>1, <1>11, <1>13, <2>1, <4>1
    <3>2. file'.kept => \A k \in 1 .. Len(file'.before) :
             k <= Len(disk'[file'.from].data) => disk'[file'.from].data[k] = file'.before[k]
      <4>1. disk'[f.from].data = in
        BY <1>8, <1>11, <2>1
      <4> QED
        BY <1>11, <1>13, <4>1
    <3>3. file'.written /\ file'.kept =>
             /\ file'.pos = 0 => Len(disk'[file'.to].data) = 0
             /\ file'.pos > 0 => Len(disk'[file'.to].data) = Len(file'.before)
             /\ \A k \in 1 .. Len(file'.before) : k > file'.left =>
                   disk'[file'.to].data[k] = file'.before[Len(file'.before) + 1 - k]
      <4>1. file'.pos # 0
        BY <1>6, <1>7, <1>13
      <4> QED
        <5>1. file'.written /\ file'.kept => f.written /\ f.kept
          BY <1>13
        <5>2. /\ disk'[file'.to].data = w /\ file'.before = f.before
              /\ Len(file'.before) = size /\ file'.left = left - bytes
          BY <1>13, <1>15, <1>16, <2>1
        <5> QED
          BY <1>26, <4>1, <5>1, <5>2
    <3> QED
      BY <3>1, <3>2, <3>3 DEF CopyInv
  <2> QED
    BY <2>2, <2>3 DEF TreeInv
<1> QED
  BY <1>10, <1>20, <1>22, <1>27, <1>28, <1>14, <1>15 DEF Offset

(* Every step of the program, and of the others, keeps the invariant. *)
LEMMA TreeInductive == TreeInv /\ ShapeInv /\ [TreeNext]_treeVars => TreeInv'
<1> SUFFICES ASSUME TreeInv, ShapeInv, [TreeNext]_treeVars PROVE TreeInv'
  OBVIOUS
<1>1. CASE Argument
  BY <1>1, ArgumentKeeps DEF ShapeInv
<1>2. CASE FillReturns
  BY <1>2, FillReturnsKeeps
<1>3. CASE ReadBlock
  BY <1>3, ReadBlockKeeps
<1>4. CASE FileFails
  BY <1>4, FileFailsKeeps
<1>5. CASE FileDone
  BY <1>5, FileDoneKeeps
<1>6. CASE Change
  BY <1>6, ChangeKeeps
<1>7. ASSUME NEW n \in Top.left, Entry(n) PROVE TreeInv'
  BY <1>7, EntryKeeps
<1>8. CASE Finish \/ Over \/ UNCHANGED treeVars
  <2>1. UNCHANGED <<args, i, rev_folder, path_to_folder, disk, file, copied, stack>>
    BY <1>8 DEF Finish, Over, treeVars
  <2>2. stack' \in Seq(Calls) /\ StackInv'
    BY <2>1 DEF TreeInv, TreeTypes, StackInv, CallInv
  <2> QED
    BY <2>1, <2>2, SameDisk
<1> QED
  BY <1>1, <1>2, <1>3, <1>4, <1>5, <1>6, <1>7, <1>8 DEF TreeNext
=============================================================================
