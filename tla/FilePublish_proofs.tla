------------------------- MODULE FilePublish_proofs -------------------------
(***************************************************************************)
(* Proofs about the file classes for any number of writers, consumers,     *)
(* copiers, files and versions: files are visible only when they are       *)
(* whole, a copy equals its source, and no version is lost unread, each    *)
(* with the exceptions that FilePublish names.                             *)
(***************************************************************************)
EXTENDS FilePublish, FiniteSetTheorems, TLAPS

\* An inode has one name at most.
NamesApart ==
  \A f, g \in Files :
    /\ pub[f] # 0 => pub[f] # tmp[g] /\ (pub[f] = pub[g] => f = g)
    /\ tmp[f] # 0 /\ tmp[f] = tmp[g] => f = g

\* What a process has open where it is.
WriterAt(w) ==
  IF pc[w] = "write"
  THEN fout[w].file \in Names /\ fout[w].ino # 0 /\ wver[w] \in Versions
  ELSE pc[w] = "idle" /\ fout[w] = NoOut
ConsumerAt(c) ==
  /\ pc[c] \in {"idle", "mkdir", "next", "read", "remove"}
  /\ pc[c] = "read" => fin[c].ino # 0
  /\ pc[c] \notin {"read", "remove"} => fin[c].ino = 0 /\ buf[c] = <<>>
  /\ fin[c].ino # 0 => fin[c].file \in Names
CopierAt(k) ==
  /\ pc[k] \in {"idle", "mkdir", "open", "copy", "stamp", "copied"}
  /\ IF pc[k] = "copy" THEN fout[k].file = Dst /\ fout[k].ino # 0 /\ fin[k].ino # 0
                       ELSE fout[k] = NoOut /\ fin[k].ino = 0
  /\ pc[k] \in {"open", "copy", "stamp", "copied"} <=> fin[k].file # NoFile
AtInv ==
  /\ \A w \in Writers : WriterAt(w)
  /\ \A c \in Consumers : ConsumerAt(c)
  /\ \A k \in Copiers : CopierAt(k)

\* A cofile is open on the temporary file of its name, alone; a cifile never is on
\* a temporary file.
HandlesInv ==
  /\ \A p \in Writers \cup Copiers :
       fout[p].ino # 0 =>
         /\ fout[p].ino = tmp[fout[p].file]
         /\ \A q \in Writers \cup Copiers : fout[q].file = fout[p].file => q = p
  /\ \A p \in Consumers \cup Copiers :
       fin[p].ino # 0 => \A g \in Files : fin[p].ino # tmp[g]

\* What a writer has written, and a copier copied.
Written(w) ==
  /\ fout[w].off <= Size[wver[w]]
  /\ IF fout[w].bad THEN inode[fout[w].ino].torn
     ELSE inode[fout[w].ino].data = [i \in 1 .. fout[w].off |-> <<wver[w], i>>]
CopiedSoFar(k) ==
  LET src == inode[fin[k].ino].data
      n == fout[k].off IN
  /\ VersionsAt(fin[k].ino) # {} \/ inode[fout[k].ino].torn
  /\ spoilt[k] # "early" => ksize[k] = Len(src)
  /\ n <= ksize[k] \/ n = 0
  /\ IF fout[k].bad THEN inode[fout[k].ino].torn
     ELSE inode[fout[k].ino].data = [i \in 1 .. n |-> IF i <= Len(src) THEN src[i] ELSE Zero]
  /\ spoilt[k] = "no" => pub[fin[k].file] = fin[k].ino
SizeRead(k) ==
  ksize[k] = IF pub[fin[k].file] = 0 THEN -1 ELSE Len(inode[pub[fin[k].file]].data)
CopyMade(k) ==
  /\ pub[Dst] # 0 /\ pub[fin[k].file] # 0
  /\ inode[pub[Dst]].data = inode[pub[fin[k].file]].data
  /\ pc[k] = "copied" => inode[pub[Dst]].time = inode[pub[fin[k].file]].time
WriteInv == \A w \in Writers : pc[w] = "write" => Written(w)
CopyInv ==
  \A k \in Copiers :
    /\ pc[k] = "open" /\ spoilt[k] # "early" => SizeRead(k)
    /\ pc[k] = "copy" => CopiedSoFar(k)
    /\ pc[k] \in {"stamp", "copied"} /\ spoilt[k] = "no" => CopyMade(k)

\* What a consumer has read of the file it has open; and what its name means by now.
ReadInv ==
  \A c \in Consumers : fin[c].ino # 0 =>
    /\ pc[c] = "read" =>
         /\ Len(buf[c]) <= Len(inode[fin[c].ino].data)
         /\ \A i \in 1 .. Len(buf[c]) : buf[c][i] = inode[fin[c].ino].data[i]
    /\ pc[c] = "remove" => VersionsAt(fin[c].ino) \subseteq read
    /\ pub[fin[c].file] \in {0, fin[c].ino} \/ VersionsAt(pub[fin[c].file]) \subseteq raced

FileInv ==
  /\ TypeOK /\ NamesApart /\ AtInv
  /\ ~clash => HandlesInv /\ WriteInv /\ CopyInv /\ ReadInv /\ WholeFiles /\ NoneLost

-----------------------------------------------------------------------------
\* The constants and the types of parts.
LEMMA Constants ==
  /\ MaxIno \in Nat \ {0} /\ Len(Size) \in Nat /\ Versions = 1 .. Len(Size)
  /\ \A v \in Versions : Size[v] \in Nat \ {0}
  /\ Unset \in Unset .. Len(Size) /\ Now \in Unset .. Len(Size)
  /\ Zero \in Block /\ Empty \in Inode /\ Empty.data = <<>> /\ Empty.torn = FALSE
  /\ NoOut \in OutFile /\ NoHandle \in InFile /\ Names \subseteq Files
BY FilePublishAssumption
   DEF FilePublishAssumption, Versions, Unset, Now, Zero, Block, Empty, Inode, NoOut,
       OutFile, NoHandle, InFile, Files

LEMMA Parts ==
  ASSUME TypeOK
  PROVE  /\ \A i \in 1 .. MaxIno : /\ inode[i] \in Inode /\ inode[i].data \in Seq(Block)
                                   /\ inode[i].time \in Unset .. Len(Size)
                                   /\ inode[i].torn \in BOOLEAN
         /\ \A p \in Writers \cup Copiers :
              /\ fout[p] \in OutFile /\ fout[p].file \in Files \cup {NoFile}
              /\ fout[p].ino \in 0 .. MaxIno /\ fout[p].off \in Nat
              /\ fout[p].bad \in BOOLEAN
         /\ \A p \in Consumers \cup Copiers :
              /\ fin[p] \in InFile /\ fin[p].file \in Names \cup {NoFile}
              /\ fin[p].ino \in 0 .. MaxIno
         /\ \A f \in Files : pub[f] \in 0 .. MaxIno /\ tmp[f] \in 0 .. MaxIno
BY DEF TypeOK, Inode, OutFile, InFile

\* What Keep leaves of a file.
LEMMA Kept ==
  ASSUME NEW content, Keep(content)
  PROVE  inode' = [i \in 1 .. MaxIno |-> IF Linked(i)' THEN content[i] ELSE Empty]
BY DEF Keep

LEMMA KeptType ==
  ASSUME NEW content \in [1 .. MaxIno -> Inode], Keep(content)
  PROVE  inode' \in [1 .. MaxIno -> Inode]
BY Kept, Constants

\* A block put at an offset.
LEMMA PutType ==
  ASSUME NEW data \in Seq(Block), NEW off \in Nat, NEW b \in Block
  PROVE  Put(data, off, b) \in Seq(Block)
<1>1. PICK n \in Nat : n = IF off < Len(data) THEN Len(data) ELSE off + 1
  OBVIOUS
<1>2. \A i \in 1 .. n : (IF i = off + 1 THEN b ELSE IF i <= Len(data) THEN data[i] ELSE Zero) \in Block
  BY <1>1, Constants
<1>3. [i \in 1 .. n |-> IF i = off + 1 THEN b ELSE IF i <= Len(data) THEN data[i] ELSE Zero] \in [1 .. n -> Block]
  BY <1>2
<1> QED
  BY <1>1, <1>3 DEF Put

LEMMA PutAtEnd ==
  ASSUME NEW data \in Seq(Block), NEW b \in Block
  PROVE  /\ Len(Put(data, Len(data), b)) = Len(data) + 1
         /\ Put(data, Len(data), b) = [i \in 1 .. Len(data) + 1 |-> IF i = Len(data) + 1 THEN b ELSE data[i]]
<1>1. Put(data, Len(data), b) = [i \in 1 .. Len(data) + 1 |->
                                   IF i = Len(data) + 1 THEN b ELSE IF i <= Len(data) THEN data[i] ELSE Zero]
  BY DEF Put
<1>2. \A i \in 1 .. Len(data) + 1 : i # Len(data) + 1 => i <= Len(data)
  OBVIOUS
<1>3. Put(data, Len(data), b) = [i \in 1 .. Len(data) + 1 |-> IF i = Len(data) + 1 THEN b ELSE data[i]]
  BY <1>1, <1>2
<1> QED
  BY <1>3

LEMMA FailsType ==
  ASSUME TypeOK, NEW must, Fails(must) \/ UNCHANGED faults
  PROVE  faults' \in 0 .. MaxFaults
BY FilePublishAssumption DEF FilePublishAssumption, TypeOK, Fails

-----------------------------------------------------------------------------
\* The calls on files: what each leaves of names, handles and contents.
OpenLeaves(p, f) ==
  /\ tmp' \in [Files -> 0 .. MaxIno] /\ tmp'[f] \in 1 .. MaxIno
  /\ \A g \in Files : g # f => tmp'[g] = tmp[g]
  /\ tmp[f] # 0 => tmp'[f] = tmp[f]
  /\ tmp[f] = 0 => \A i \in 1 .. MaxIno : i = tmp'[f] => ~Linked(i)
  /\ fout' \in [Writers \cup Copiers -> OutFile]
  /\ fout'[p] = [file |-> f, ino |-> tmp'[f], off |-> 0, bad |-> FALSE]
  /\ \A q \in Writers \cup Copiers : q # p => fout'[q] = fout[q]
  /\ pub' = pub /\ made' = made \cup {DirOf(f)}
  /\ clash' = (clash \/ \E q \in Writers \cup Copiers : q # p /\ fout[q].file = f)
  /\ inode' \in [1 .. MaxIno -> Inode]
  /\ inode'[tmp'[f]].data = <<>>
  /\ \A j \in 1 .. MaxIno : j # tmp'[f] /\ Linked(j)' => inode'[j] = inode[j]

LEMMA OpenEffect ==
  ASSUME TypeOK, NEW p \in Writers \cup Copiers, NEW f \in Files,
         NEW src \in 0 .. MaxIno, Cofile_open(p, f, src)
  PROVE  OpenLeaves(p, f) /\ (Torn(src) => inode'[tmp'[f]].torn)
<1>1. PICK i \in 1 .. MaxIno : /\ tmp' \in [Files -> 0 .. MaxIno] /\ tmp'[f] = i
                               /\ \A g \in Files : g # f => tmp'[g] = tmp[g]
                               /\ tmp[f] = i \/ (tmp[f] = 0 /\ ~Linked(i))
  <2>1. tmp \in [Files -> 0 .. MaxIno]
    BY DEF TypeOK
  <2>2. CASE tmp[f] # 0 /\ UNCHANGED tmp
    <3>1. tmp' = tmp /\ tmp[f] \in 1 .. MaxIno
      BY <2>1, <2>2, Constants
    <3>2. PICK i : i = tmp[f]
      OBVIOUS
    <3>3. /\ tmp' \in [Files -> 0 .. MaxIno] /\ tmp'[f] = i /\ tmp[f] = i /\ i \in 1 .. MaxIno
          /\ \A g \in Files : g # f => tmp'[g] = tmp[g]
      BY <2>1, <3>1, <3>2
    <3> QED
      BY <3>3
  <2>3. CASE /\ tmp[f] = 0
             /\ \E i \in 1 .. MaxIno : ~Linked(i) /\ tmp' = [tmp EXCEPT ![f] = i]
    BY <2>1, <2>3, Constants
  <2> QED
    BY <2>2, <2>3 DEF Cofile_open
<1>2. PICK h : h = [file |-> f, ino |-> i, off |-> 0, bad |-> FALSE]
  OBVIOUS
<1>3. h \in OutFile
  BY <1>2, Constants DEF OutFile
<1>4. fout' = [fout EXCEPT ![p] = h]
  BY <1>1, <1>2 DEF Cofile_open
<1>5. /\ fout' \in [Writers \cup Copiers -> OutFile] /\ fout'[p] = h
      /\ \A q \in Writers \cup Copiers : q # p => fout'[q] = fout[q]
  BY <1>3, <1>4 DEF TypeOK
<1>6. PICK e : e = [Empty EXCEPT !.torn = Torn(src)]
  OBVIOUS
<1>e. e \in Inode /\ e.data = <<>> /\ (Torn(src) => e.torn)
  <2>1. Torn(src) \in BOOLEAN
    BY Parts DEF Torn
  <2> QED
    BY <1>6, <2>1, Constants DEF Inode
<1>c. PICK content : content = [inode EXCEPT ![i] = e]
  OBVIOUS
<1>7. content \in [1 .. MaxIno -> Inode] /\ content[i] = e
      /\ \A j \in 1 .. MaxIno : j # i => content[j] = inode[j]
  BY <1>c, <1>e DEF TypeOK
<1>8. Keep(content)
  BY <1>1, <1>6, <1>c DEF Cofile_open, Opened
<1>9. inode' \in [1 .. MaxIno -> Inode]
  BY <1>7, <1>8, KeptType
<1>10. inode' = [j \in 1 .. MaxIno |-> IF Linked(j)' THEN content[j] ELSE Empty]
  BY <1>8, Kept
<1>11. inode'[i].data = <<>> /\ (Torn(src) => inode'[i].torn)
  <2>1. fout'[p].ino = i
    BY <1>2, <1>5
  <2>2. Linked(i)'
    BY <2>1 DEF Linked
  <2> QED
    BY <1>7, <1>10, <1>e, <2>2
<1>12. \A j \in 1 .. MaxIno : j # i /\ Linked(j)' => inode'[j] = inode[j]
  BY <1>7, <1>10
<1>13. /\ pub' = pub /\ made' = made \cup {DirOf(f)}
       /\ clash' = (clash \/ \E q \in Writers \cup Copiers : q # p /\ fout[q].file = f)
  BY DEF Cofile_open, TypeOK
<1> QED
  BY <1>1, <1>2, <1>5, <1>9, <1>11, <1>12, <1>13 DEF OpenLeaves

LEMMA GivenType ==
  ASSUME NEW h \in OutFile, NEW b \in BOOLEAN
  PROVE  /\ Given(h, b) \in OutFile
         /\ Given(h, b).file = h.file /\ Given(h, b).ino = h.ino
         /\ Given(h, b).off = h.off + 1 /\ Given(h, b).bad = b
<1>1. PICK g : g = [h EXCEPT !.off = h.off + 1]
  OBVIOUS
<1>2. g \in OutFile /\ g.file = h.file /\ g.ino = h.ino /\ g.off = h.off + 1
  BY <1>1 DEF OutFile
<1>3. Given(h, b) = [g EXCEPT !.bad = b]
  BY <1>1 DEF Given, OutFile
<1> QED
  BY <1>2, <1>3 DEF OutFile

LEMMA WriteEffect ==
  ASSUME TypeOK, NEW p \in Writers \cup Copiers, fout[p].ino # 0,
         NEW b \in Block, NEW t \in Unset .. Len(Size), Cofile_write(p, b, t)
  PROVE  /\ pub' = pub /\ tmp' = tmp /\ made' = made /\ faults' \in 0 .. MaxFaults
         /\ fout' \in [Writers \cup Copiers -> OutFile]
         /\ fout'[p].file = fout[p].file /\ fout'[p].ino = fout[p].ino
         /\ fout'[p].off = fout[p].off + 1
         /\ \A q \in Writers \cup Copiers : q # p => fout'[q] = fout[q]
         /\ inode' \in [1 .. MaxIno -> Inode]
         /\ IF fout'[p].bad THEN inode'[fout[p].ino].torn
            ELSE /\ ~fout[p].bad
                 /\ inode'[fout[p].ino].data = Put(inode[fout[p].ino].data, fout[p].off, b)
         /\ inode[fout[p].ino].torn => inode'[fout[p].ino].torn
         /\ \A j \in 1 .. MaxIno : j # fout[p].ino /\ Linked(j)' => inode'[j] = inode[j]
<1>1. PICK i \in 1 .. MaxIno : i = fout[p].ino
  BY Parts
<1>2. PICK d \in Seq(Block) : d = Put(inode[i].data, fout[p].off, b)
  BY PutType, Parts
<1>3. PICK h \in OutFile, n \in Inode :
        /\ h.file = fout[p].file /\ h.ino = i /\ h.off = fout[p].off + 1
        /\ IF h.bad THEN n.torn ELSE ~fout[p].bad /\ n.data = d
        /\ inode[i].torn => n.torn
        /\ fout' = [fout EXCEPT ![p] = h] /\ Keep([inode EXCEPT ![i] = n])
  <2>1. CASE /\ ~fout[p].bad /\ fout' = [fout EXCEPT ![p] = Given(@, FALSE)]
             /\ Keep([inode EXCEPT ![fout[p].ino] =
                        [data |-> Put(@.data, fout[p].off, b), time |-> t, torn |-> @.torn]])
    <3>1. PICK h : h = Given(fout[p], FALSE)
      OBVIOUS
    <3>2. PICK n : n = [data |-> d, time |-> t, torn |-> inode[i].torn]
      OBVIOUS
    <3>3. /\ h \in OutFile /\ h.file = fout[p].file /\ h.ino = i
          /\ h.off = fout[p].off + 1 /\ h.bad = FALSE
      BY <1>1, <3>1, Parts, GivenType
    <3>4. n \in Inode /\ n.data = d /\ n.torn = inode[i].torn
      BY <3>2, Parts DEF Inode
    <3>5. fout' = [fout EXCEPT ![p] = h]
      BY <2>1, <3>1
    <3>6. Keep([inode EXCEPT ![i] = n])
      BY <1>1, <1>2, <2>1, <3>2
    <3> QED
      BY <2>1, <3>3, <3>4, <3>5, <3>6
  <2>2. CASE /\ fout' = [fout EXCEPT ![p] = Given(@, TRUE)]
             /\ Keep([inode EXCEPT ![fout[p].ino].torn = TRUE])
    <3>1. PICK h : h = Given(fout[p], TRUE)
      OBVIOUS
    <3>2. PICK n : n = [inode[i] EXCEPT !.torn = TRUE]
      OBVIOUS
    <3>3. /\ h \in OutFile /\ h.file = fout[p].file /\ h.ino = i
          /\ h.off = fout[p].off + 1 /\ h.bad = TRUE
      BY <1>1, <3>1, Parts, GivenType
    <3>4. n \in Inode /\ n.torn = TRUE
      BY <3>2, Parts DEF Inode
    <3>5. fout' = [fout EXCEPT ![p] = h]
      BY <2>2, <3>1
    <3>6. Keep([inode EXCEPT ![i] = n])
      BY <1>1, <2>2, <3>2
    <3> QED
      BY <3>3, <3>4, <3>5, <3>6
  <2> QED
    BY <2>1, <2>2 DEF Cofile_write
<1>4. PICK content : content = [inode EXCEPT ![i] = n]
  OBVIOUS
<1>5. /\ fout' \in [Writers \cup Copiers -> OutFile] /\ fout'[p] = h
      /\ \A q \in Writers \cup Copiers : q # p => fout'[q] = fout[q]
  BY <1>3 DEF TypeOK
<1>9. content \in [1 .. MaxIno -> Inode] /\ content[i] = n
      /\ \A j \in 1 .. MaxIno : j # i => content[j] = inode[j]
  BY <1>4 DEF TypeOK
<1>10. Keep(content)
  BY <1>3, <1>4
<1>11. inode' \in [1 .. MaxIno -> Inode]
  BY <1>9, <1>10, KeptType
<1>12. inode' = [j \in 1 .. MaxIno |-> IF Linked(j)' THEN content[j] ELSE Empty]
  BY <1>10, Kept
<1>13. Linked(i)'
  <2>1. fout'[p].ino = i
    BY <1>3, <1>5
  <2> QED
    BY <2>1 DEF Linked
<1>14. inode'[i] = n
  BY <1>9, <1>12, <1>13
<1>15. \A j \in 1 .. MaxIno : j # i /\ Linked(j)' => inode'[j] = inode[j]
  BY <1>9, <1>12
<1>16. pub' = pub /\ tmp' = tmp /\ made' = made /\ faults' \in 0 .. MaxFaults
  BY FailsType DEF Cofile_write
<1> QED
  BY <1>1, <1>2, <1>3, <1>5, <1>11, <1>14, <1>15, <1>16

\* What a write leaves alone, whatever it writes.
LEMMA WriteLeaves ==
  ASSUME TypeOK, NEW p \in Writers \cup Copiers, NEW b, NEW t, Cofile_write(p, b, t)
  PROVE  /\ tmp' = tmp /\ pub' = pub
         /\ fout'[p].file = fout[p].file /\ fout'[p].ino = fout[p].ino
         /\ \A j \in 1 .. MaxIno : j # fout[p].ino /\ Linked(j)' => inode'[j] = inode[j]
<1>0. PICK bad \in {TRUE, FALSE} : \E n :
        /\ fout' = [fout EXCEPT ![p] = Given(@, bad)]
        /\ Keep([inode EXCEPT ![fout[p].ino] = n])
  BY DEF Cofile_write
<1>1. PICK n :
        /\ fout' = [fout EXCEPT ![p] = Given(@, bad)]
        /\ Keep([inode EXCEPT ![fout[p].ino] = n])
  BY <1>0
<1>2. PICK h : h = Given(fout[p], bad)
  OBVIOUS
<1>3. h.file = fout[p].file /\ h.ino = fout[p].ino
  BY <1>2, Parts, GivenType
<1>4. fout'[p] = h
  BY <1>1, <1>2 DEF TypeOK
<1>5. PICK content : content = [inode EXCEPT ![fout[p].ino] = n]
  OBVIOUS
<1>6. inode' = [j \in 1 .. MaxIno |-> IF Linked(j)' THEN content[j] ELSE Empty]
  BY <1>1, <1>5, Kept
<1>7. \A j \in 1 .. MaxIno : j # fout[p].ino => content[j] = inode[j]
  BY <1>5 DEF TypeOK
<1>8. tmp' = tmp /\ pub' = pub
  BY DEF Cofile_write
<1> QED
  BY <1>3, <1>4, <1>6, <1>7, <1>8

\* Steps that write nothing.
LEMMA KeptAll ==
  ASSUME TypeOK, Keep(inode)
  PROVE  /\ inode' \in [1 .. MaxIno -> Inode]
         /\ \A j \in 1 .. MaxIno : Linked(j)' => inode'[j] = inode[j]
BY Kept, KeptType DEF TypeOK

LEMMA RenameEffect ==
  ASSUME TypeOK, NEW p \in Writers \cup Copiers, NEW f \in Files, f = fout[p].file,
         Cofile_closeandrename(p)
  PROVE  /\ made' = made /\ faults' \in 0 .. MaxFaults
         /\ pub' \in [Files -> 0 .. MaxIno] /\ tmp' \in [Files -> 0 .. MaxIno]
         /\ \A g \in Files : g # f => pub'[g] = pub[g] /\ tmp'[g] = tmp[g]
         /\ \/ tmp[f] # 0 /\ tmp'[f] = 0 /\ pub'[f] = tmp[f]
            \/ tmp' = tmp /\ pub' = pub
         /\ fout' \in [Writers \cup Copiers -> OutFile] /\ fout'[p] = NoOut
         /\ \A q \in Writers \cup Copiers : q # p => fout'[q] = fout[q]
         /\ inode' \in [1 .. MaxIno -> Inode]
         /\ \A j \in 1 .. MaxIno : Linked(j)' => inode'[j] = inode[j]
<1>1. /\ pub' \in [Files -> 0 .. MaxIno] /\ tmp' \in [Files -> 0 .. MaxIno]
      /\ \A g \in Files : g # f => pub'[g] = pub[g] /\ tmp'[g] = tmp[g]
      /\ \/ tmp[f] # 0 /\ tmp'[f] = 0 /\ pub'[f] = tmp[f]
         \/ tmp' = tmp /\ pub' = pub
  <2>1. CASE UNCHANGED <<pub, tmp>>
    BY <2>1 DEF TypeOK
  <2>2. CASE tmp[f] # 0 /\ pub' = [pub EXCEPT ![f] = tmp[f]] /\ tmp' = [tmp EXCEPT ![f] = 0]
    <3>1. PICK i \in 0 .. MaxIno : i = tmp[f]
      BY Parts
    <3>2. pub' = [pub EXCEPT ![f] = i] /\ tmp' = [tmp EXCEPT ![f] = 0]
      BY <2>2, <3>1
    <3> QED
      BY <2>2, <3>1, <3>2, Constants DEF TypeOK
  <2> QED
    BY <2>1, <2>2 DEF Cofile_closeandrename
<1>2. /\ made' = made /\ fout' \in [Writers \cup Copiers -> OutFile] /\ fout'[p] = NoOut
      /\ \A q \in Writers \cup Copiers : q # p => fout'[q] = fout[q]
  BY Constants DEF Cofile_closeandrename, TypeOK
<1>3. Keep(inode)
  BY DEF Cofile_closeandrename
<1>4. faults' \in 0 .. MaxFaults
  BY FailsType DEF Cofile_closeandrename
<1> QED
  BY <1>1, <1>2, <1>3, <1>4, KeptAll

LEMMA CloseEffect ==
  ASSUME TypeOK, NEW p \in Writers \cup Copiers, NEW f \in Files, f = fout[p].file,
         Cofile_close(p)
  PROVE  /\ made' = made /\ pub' = pub /\ tmp' \in [Files -> 0 .. MaxIno]
         /\ \A g \in Files : g # f => tmp'[g] = tmp[g]
         /\ tmp'[f] = 0
         /\ fout' \in [Writers \cup Copiers -> OutFile] /\ fout'[p] = NoOut
         /\ \A q \in Writers \cup Copiers : q # p => fout'[q] = fout[q]
         /\ inode' \in [1 .. MaxIno -> Inode]
         /\ \A j \in 1 .. MaxIno : Linked(j)' => inode'[j] = inode[j]
<1>1. /\ made' = made /\ pub' = pub /\ tmp' \in [Files -> 0 .. MaxIno]
      /\ \A g \in Files : g # f => tmp'[g] = tmp[g]
      /\ tmp'[f] = 0
      /\ fout' \in [Writers \cup Copiers -> OutFile] /\ fout'[p] = NoOut
      /\ \A q \in Writers \cup Copiers : q # p => fout'[q] = fout[q]
  BY Constants DEF Cofile_close, TypeOK
<1>2. Keep(inode)
  BY DEF Cofile_close
<1> QED
  BY <1>1, <1>2, KeptAll

-----------------------------------------------------------------------------
\* The types.
LEMMA InitType == Init => TypeOK /\ NamesApart /\ AtInv
<1> SUFFICES ASSUME Init PROVE TypeOK /\ NamesApart /\ AtInv
  OBVIOUS
<1>1. TypeOK
  <2>1. /\ made \subseteq {"in", "out"}
        /\ pub \in [Files -> 0 .. MaxIno] /\ tmp \in [Files -> 0 .. MaxIno]
        /\ inode \in [1 .. MaxIno -> Inode]
        /\ fout \in [Writers \cup Copiers -> OutFile]
        /\ fin \in [Consumers \cup Copiers -> InFile]
    BY Constants DEF Init
  <2>2. /\ list \in [Consumers -> Seq(Names)]
        /\ pc \in [Procs -> {"idle", "mkdir", "write", "next", "read", "remove",
                            "open", "copy", "stamp", "copied"}]
        /\ buf \in [Consumers -> Seq(Block)]
    BY DEF Init
  <2>3. /\ wver \in [Writers -> 0 .. Len(Size)] /\ ksize \in [Copiers -> Int]
        /\ ver \in 0 .. Len(Size) /\ faults \in 0 .. MaxFaults
    BY Constants, FilePublishAssumption DEF FilePublishAssumption, Init
  <2>4. /\ issued \cup read \cup replaced \cup raced \subseteq Versions
        /\ clash \in BOOLEAN /\ spoilt \in [Copiers -> {"no", "late", "early", "failed"}]
    BY DEF Init
  <2> QED
    BY <2>1, <2>2, <2>3, <2>4 DEF TypeOK
<1>2. NamesApart
  BY DEF Init, NamesApart
<1>3. AtInv
  BY DEF Init, AtInv, WriterAt, ConsumerAt, CopierAt, NoOut, NoHandle, Procs
<1> QED
  BY <1>1, <1>2, <1>3

LEMMA GotoType ==
  ASSUME TypeOK, NEW p \in Procs,
         NEW l \in {"idle", "mkdir", "write", "next", "read", "remove",
                    "open", "copy", "stamp", "copied"}, Goto(p, l)
  PROVE  /\ pc' \in [Procs -> {"idle", "mkdir", "write", "next", "read", "remove",
                               "open", "copy", "stamp", "copied"}]
         /\ pc'[p] = l /\ \A q \in Procs : q # p => pc'[q] = pc[q]
BY DEF Goto, TypeOK

LEMMA MovedType ==
  ASSUME TypeOK, \/ UNCHANGED spoilt
                 \/ \E f \in Files : Rebind(f)
                 \/ \E k \in Copiers, o, n \in BOOLEAN : Overtake(k, o, n)
  PROVE  spoilt' \in [Copiers -> {"no", "late", "early", "failed"}]
BY DEF TypeOK, Rebind, Overtake

LEMMA VersionsType == ASSUME NEW i PROVE VersionsAt(i) \subseteq Versions
BY DEF VersionsAt

LEMMA OpenedType ==
  ASSUME TypeOK, NEW p \in Writers \cup Copiers, NEW f \in Files,
         NEW src \in 0 .. MaxIno, Cofile_open(p, f, src)
  PROVE  /\ tmp' \in [Files -> 0 .. MaxIno] /\ pub' = pub /\ made' = made \cup {DirOf(f)}
         /\ fout' \in [Writers \cup Copiers -> OutFile] /\ clash' \in BOOLEAN
         /\ inode' \in [1 .. MaxIno -> Inode]
<1>1. OpenLeaves(p, f)
  BY OpenEffect
<1>2. clash \in BOOLEAN
  BY DEF TypeOK
<1>3. clash' \in BOOLEAN
  BY <1>1, <1>2 DEF OpenLeaves
<1> QED
  BY <1>1, <1>3 DEF OpenLeaves

\* A cofile is opened: what that leaves, whatever the source.
Opens(p, f) == \E src \in 0 .. MaxIno : Cofile_open(p, f, src)

LEMMA OpensEffect ==
  ASSUME TypeOK, NEW p \in Writers \cup Copiers, NEW f \in Files, Opens(p, f)
  PROVE  OpenLeaves(p, f)
BY OpenEffect DEF Opens

\* The two calls of cofile::open.
LEMMA WriterOpens ==
  ASSUME NEW w \in Writers, Open(w)
  PROVE  \E f \in Names : f \in Files /\ Opens(w, f)
<1>1. 0 \in 0 .. MaxIno
  BY Constants
<1>2. \A f : Cofile_open(w, f, 0) => Opens(w, f)
  BY <1>1 DEF Opens
<1> QED
  BY <1>2, Constants DEF Open

LEMMA CopierOpens ==
  ASSUME TypeOK, NEW k \in Copiers, Copyopen(k), fin[k].file \in Names
  PROVE  \/ UNCHANGED <<fs, fout, clash>> /\ EndCopy(k) /\ Goto(k, "idle")
         \/ /\ pub[fin[k].file] # 0 /\ fin' = [fin EXCEPT ![k].ino = pub[fin[k].file]]
            /\ Goto(k, "copy") /\ UNCHANGED ksize /\ Opens(k, Dst)
            /\ Torn(pub[fin[k].file]) => inode'[tmp'[Dst]].torn
<1>1. PICK i \in 0 .. MaxIno : i = pub[fin[k].file]
  BY Parts, Constants
<1>2. CASE Cofile_open(k, Dst, i)
  <2>1. Opens(k, Dst)
    BY <1>2 DEF Opens
  <2>2. Torn(i) => inode'[tmp'[Dst]].torn
    BY <1>2, OpenEffect DEF Files
  <2> QED
    BY <1>1, <2>1, <2>2 DEF Copyopen
<1> QED
  BY <1>1, <1>2 DEF Copyopen

LEMMA ProduceType ==
  ASSUME TypeOK, AtInv, NEW w \in Writers, Produce(w)
  PROVE  TypeOK'
<1> USE Constants
<1>w. w \in Procs /\ w \in Writers \cup Copiers
  BY DEF Procs
<1>1. CASE Open(w)
  <2>1. PICK f \in Files, src \in 0 .. MaxIno : f \in Names /\ Cofile_open(w, f, src)
    BY <1>1 DEF Open
  <2>2. made \subseteq {"in", "out"} /\ DirOf(f) \in {"in", "out"}
    BY DEF TypeOK, DirOf
  <2>3. /\ tmp' \in [Files -> 0 .. MaxIno] /\ pub' = pub /\ made' = made \cup {DirOf(f)}
        /\ fout' \in [Writers \cup Copiers -> OutFile] /\ clash' \in BOOLEAN
        /\ inode' \in [1 .. MaxIno -> Inode]
    BY <1>w, <2>1, OpenedType
  <2>4. /\ ver' \in 0 .. Len(Size) /\ wver' \in [Writers -> 0 .. Len(Size)]
        /\ pc' \in [Procs -> {"idle", "mkdir", "write", "next", "read", "remove",
                              "open", "copy", "stamp", "copied"}]
    <3>1. ver + 1 \in 0 .. Len(Size) /\ ver' = ver + 1 /\ wver' = [wver EXCEPT ![w] = ver + 1]
          /\ wver \in [Writers -> 0 .. Len(Size)]
      BY <1>1 DEF Open, TypeOK
    <3>2. pc' \in [Procs -> {"idle", "mkdir", "write", "next", "read", "remove",
                             "open", "copy", "stamp", "copied"}]
      BY <1>1, <1>w, GotoType DEF Open
    <3> QED
      BY <3>1, <3>2
  <2>5. UNCHANGED <<fin, list, buf, ksize, issued, read, replaced, raced, spoilt, faults>>
    BY <1>1 DEF Open, fate
  <2> QED
    BY <2>2, <2>3, <2>4, <2>5 DEF TypeOK
<1>2. CASE Write(w)
  <2>1. fout[w].ino # 0 /\ wver[w] \in Versions /\ fout[w].off \in Nat
    BY <1>2, <1>w, Parts DEF Write, AtInv, WriterAt
  <2>2. <<wver[w], fout[w].off + 1>> \in Block /\ wver[w] \in Unset .. Len(Size)
    BY <2>1 DEF Block, Unset
  <2>3. /\ tmp' = tmp /\ pub' = pub /\ made' = made /\ faults' \in 0 .. MaxFaults
        /\ fout' \in [Writers \cup Copiers -> OutFile] /\ inode' \in [1 .. MaxIno -> Inode]
    BY <1>2, <1>w, <2>1, <2>2, WriteEffect DEF Write
  <2> QED
    BY <1>2, <2>3 DEF Write, TypeOK, fate
<1>3. CASE Closeandrename(w)
  <2>1. fout[w].file \in Files
    BY <1>3 DEF Closeandrename, AtInv, WriterAt
  <2>2. /\ made' = made /\ faults' \in 0 .. MaxFaults
        /\ pub' \in [Files -> 0 .. MaxIno] /\ tmp' \in [Files -> 0 .. MaxIno]
        /\ fout' \in [Writers \cup Copiers -> OutFile] /\ inode' \in [1 .. MaxIno -> Inode]
    BY <1>3, <1>w, <2>1, RenameEffect DEF Closeandrename
  <2>3. /\ spoilt' \in [Copiers -> {"no", "late", "early", "failed"}]
        /\ pc' \in [Procs -> {"idle", "mkdir", "write", "next", "read", "remove",
                              "open", "copy", "stamp", "copied"}]
    BY <1>3, <1>w, <2>1, GotoType, MovedType DEF Closeandrename
  <2>4. issued' \cup read' \cup replaced' \cup raced' \subseteq Versions
    BY <1>3, VersionsType DEF Closeandrename, TypeOK
  <2>5. UNCHANGED <<fin, list, buf, ksize, ver, clash>>
        /\ wver' \in [Writers -> 0 .. Len(Size)]
    BY <1>3 DEF Closeandrename, TypeOK
  <2> QED
    BY <2>2, <2>3, <2>4, <2>5 DEF TypeOK
<1>4. CASE Close(w)
  <2>1. fout[w].file \in Files
    BY <1>4 DEF Close, AtInv, WriterAt
  <2>2. /\ made' = made /\ pub' = pub /\ tmp' \in [Files -> 0 .. MaxIno]
        /\ fout' \in [Writers \cup Copiers -> OutFile] /\ inode' \in [1 .. MaxIno -> Inode]
    BY <1>4, <1>w, <2>1, CloseEffect DEF Close
  <2>3. pc' \in [Procs -> {"idle", "mkdir", "write", "next", "read", "remove",
                           "open", "copy", "stamp", "copied"}]
    BY <1>4, <1>w, GotoType DEF Close
  <2>4. UNCHANGED <<fin, list, buf, ksize, ver, issued, read, replaced, raced, clash, spoilt, faults>>
        /\ wver' \in [Writers -> 0 .. Len(Size)]
    BY <1>4 DEF Close, TypeOK, fate
  <2> QED
    BY <2>2, <2>3, <2>4 DEF TypeOK
<1> QED
  BY <1>1, <1>2, <1>3, <1>4 DEF Produce

LEMMA NewdirfailsType ==
  ASSUME TypeOK, NEW p \in Procs, NEW dir, Newdirfails(p, dir)
  PROVE  TypeOK'
<1>1. PICK l \in {"mkdir", "idle"} : Goto(p, l)
  BY DEF Newdirfails, Access, Mkdirfails
<1>2. pc' \in [Procs -> {"idle", "mkdir", "write", "next", "read", "remove",
                         "open", "copy", "stamp", "copied"}]
  BY <1>1, GotoType
<1>3. UNCHANGED <<made, pub, tmp, inode, fout, fin, list, wver, buf, ksize, ver,
                  issued, read, replaced, raced, clash, spoilt, faults>>
  BY DEF Newdirfails, fs, fate
<1> QED
  BY <1>2, <1>3 DEF TypeOK

\* The names opendir finds are a list of names.
LEMMA ListType ==
  ASSUME NEW there \in SUBSET Names, NEW l \in SetToAllKPermutations(there)
  PROVE  l \in Seq(Names)
<1>1. PICK s \in SUBSET there : l \in SetToSeqs(s)
  BY DEF SetToAllKPermutations
<1>2. l \in [1 .. Cardinality(s) -> s]
  BY <1>1 DEF SetToSeqs
<1>3. IsFiniteSet(s)
  BY FilePublishAssumption, FS_Subset DEF FilePublishAssumption
<1>4. Cardinality(s) \in Nat
  BY <1>3, FS_CardinalityType
<1>5. l \in [1 .. Cardinality(s) -> Names]
  BY <1>2
<1> QED
  BY <1>4, <1>5

LEMMA ConsumeType ==
  ASSUME TypeOK, AtInv, NEW c \in Consumers, Consume(c)
  PROVE  TypeOK'
<1> USE Constants
<1>w. c \in Procs /\ c \in Consumers \cup Copiers
  BY DEF Procs
<1>1. CASE Opendir(c)
  <2>1. PICK l \in SetToAllKPermutations({f \in Names : pub[f] # 0}) : list' = [list EXCEPT ![c] = l]
    BY <1>1 DEF Opendir
  <2>2. l \in Seq(Names)
    BY ListType
  <2>3. list' \in [Consumers -> Seq(Names)]
    BY <2>1, <2>2 DEF TypeOK
  <2>4. pc' \in [Procs -> {"idle", "mkdir", "write", "next", "read", "remove",
                           "open", "copy", "stamp", "copied"}]
    BY <1>1, <1>w, GotoType DEF Opendir
  <2>5. made' \subseteq {"in", "out"}
    BY <1>1 DEF Opendir, Newdir, TypeOK
  <2>6. UNCHANGED <<pub, tmp, inode, fout, fin, wver, buf, ksize, ver,
                    issued, read, replaced, raced, clash, spoilt, faults>>
    BY <1>1 DEF Opendir, fate
  <2> QED
    BY <2>3, <2>4, <2>5, <2>6 DEF TypeOK
<1>2. CASE Readdir(c)
  <2>1. pc' \in [Procs -> {"idle", "mkdir", "write", "next", "read", "remove",
                           "open", "copy", "stamp", "copied"}]
    BY <1>2, <1>w, GotoType DEF Readdir
  <2>2. list' \in [Consumers -> Seq(Names)] /\ fin' \in [Consumers \cup Copiers -> InFile]
    <3>1. CASE Exhausted(c)
      <4>1. list' = [list EXCEPT ![c] = <<>>] /\ fin' = fin
        BY <1>2, <3>1 DEF Readdir
      <4>2. <<>> \in Seq(Names)
        OBVIOUS
      <4> QED
        BY <4>1, <4>2 DEF TypeOK
    <3>2. CASE ~Exhausted(c)
      <4>1. PICK f : f = Head(list[c])
        OBVIOUS
      <4>2. list[c] \in Seq(Names) /\ list[c] # <<>>
        BY <3>2 DEF TypeOK, Exhausted
      <4>3. f \in Names /\ Tail(list[c]) \in Seq(Names)
        BY <4>1, <4>2
      <4>4. [file |-> f, ino |-> pub[f]] \in InFile
        BY <4>3, Parts DEF InFile
      <4>5. fin' = [fin EXCEPT ![c] = [file |-> f, ino |-> pub[f]]] /\ list' = [list EXCEPT ![c] = Tail(@)]
        BY <1>2, <3>2, <4>1 DEF Readdir
      <4> QED
        BY <1>w, <4>3, <4>4, <4>5 DEF TypeOK
    <3> QED
      BY <3>1, <3>2
  <2>3. UNCHANGED <<made, pub, tmp, inode, fout, wver, buf, ksize, ver,
                    issued, read, replaced, raced, clash, spoilt, faults>>
    BY <1>2 DEF Readdir, fs, fate
  <2> QED
    BY <2>1, <2>2, <2>3 DEF TypeOK
<1>3. CASE Read(c)
  <2>1. inode[fin[c].ino].data \in Seq(Block) /\ buf[c] \in Seq(Block)
    <3>1. pc[c] = "read" /\ fin[c].ino # 0
      BY <1>3 DEF Read, AtInv, ConsumerAt
    <3>2. fin[c].ino \in 1 .. MaxIno
      BY <1>w, <3>1, Parts
    <3> QED
      BY <3>2, Parts DEF TypeOK
  <2>2. pc' \in [Procs -> {"idle", "mkdir", "write", "next", "read", "remove",
                           "open", "copy", "stamp", "copied"}]
    <3>1. pc' = pc \/ Goto(c, "remove")
      BY <1>3 DEF Read
    <3> QED
      BY <1>w, <3>1, GotoType DEF TypeOK
  <2>3. buf' \in [Consumers -> Seq(Block)]
    <3>1. buf' = buf \/ /\ Len(buf[c]) < Len(inode[fin[c].ino].data)
                        /\ buf' = [buf EXCEPT ![c] = Append(@, inode[fin[c].ino].data[Len(@) + 1])]
      BY <1>3 DEF Read
    <3>2. Len(buf[c]) < Len(inode[fin[c].ino].data) =>
            Append(buf[c], inode[fin[c].ino].data[Len(buf[c]) + 1]) \in Seq(Block)
      <4>1. ASSUME NEW b \in Seq(Block), NEW d \in Seq(Block), Len(b) < Len(d)
            PROVE  Append(b, d[Len(b) + 1]) \in Seq(Block)
        BY ONLY <4>1
      <4> QED
        BY <2>1, <4>1
    <3> QED
      BY <3>1, <3>2 DEF TypeOK
  <2>4. issued' \cup read' \cup replaced' \cup raced' \subseteq Versions
    BY <1>3 DEF Read, TypeOK
  <2>5. UNCHANGED <<made, pub, tmp, inode, fout, fin, list, wver, ksize, ver, clash, spoilt, faults>>
    BY <1>3 DEF Read, fs
  <2> QED
    BY <2>2, <2>3, <2>4, <2>5 DEF TypeOK
<1>4. CASE Closeandremove(c)
  <2>1. inode' \in [1 .. MaxIno -> Inode]
    BY <1>4, KeptAll DEF Closeandremove
  <2>2. pub' \in [Files -> 0 .. MaxIno]
    <3>1. pub' = pub \/ pub' = [pub EXCEPT ![fin[c].file] = 0]
      BY <1>4 DEF Closeandremove
    <3>2. pub \in [Files -> 0 .. MaxIno] /\ 0 \in 0 .. MaxIno
      BY DEF TypeOK
    <3> QED
      BY <3>1, <3>2
  <2>3. fin' \in [Consumers \cup Copiers -> InFile] /\ buf' \in [Consumers -> Seq(Block)]
    BY <1>4, <1>w DEF Closeandremove, TypeOK
  <2>4. pc' \in [Procs -> {"idle", "mkdir", "write", "next", "read", "remove",
                           "open", "copy", "stamp", "copied"}]
    BY <1>4, <1>w, GotoType DEF Closeandremove
  <2>5. spoilt' \in [Copiers -> {"no", "late", "early", "failed"}]
    <3>1. CASE Removes(c)
      <4>1. fin[c].file \in Files /\ Rebind(fin[c].file)
        BY <1>4, <3>1 DEF Closeandremove, AtInv, ConsumerAt, Removes
      <4> QED
        BY <4>1, MovedType
    <3>2. CASE ~Removes(c)
      BY <1>4, <3>2 DEF Closeandremove, TypeOK
    <3> QED
      BY <3>1, <3>2
  <2>6. UNCHANGED <<made, tmp, fout, list, wver, ksize, ver,
                    issued, read, replaced, raced, clash, faults>>
    BY <1>4 DEF Closeandremove, fate
  <2> QED
    BY <2>1, <2>2, <2>3, <2>4, <2>5, <2>6 DEF TypeOK
<1> QED
  BY <1>w, <1>1, <1>2, <1>3, <1>4, NewdirfailsType DEF Consume

LEMMA CopyfileType ==
  ASSUME TypeOK, AtInv, NEW k \in Copiers, Copyfile(k)
  PROVE  TypeOK'
<1> USE Constants
<1>w. k \in Procs /\ k \in Writers \cup Copiers /\ k \in Consumers \cup Copiers
      /\ Dst \in Files /\ DirOf(Dst) \in {"in", "out"}
  BY DEF Procs, Files, DirOf
<1> DEFINE Pcs == [Procs -> {"idle", "mkdir", "write", "next", "read", "remove",
                             "open", "copy", "stamp", "copied"}]
<1>1. CASE Filesize(k)
  <2>1. PICK f \in Names :
          /\ fin' = [fin EXCEPT ![k] = [file |-> f, ino |-> 0]]
          /\ ksize' = [ksize EXCEPT ![k] = IF pub[f] = 0 THEN -1 ELSE Len(inode[pub[f]].data)]
    BY <1>1 DEF Filesize
  <2>2. [file |-> f, ino |-> 0] \in InFile
    BY DEF InFile
  <2>3. (IF pub[f] = 0 THEN -1 ELSE Len(inode[pub[f]].data)) \in Int
    <3>1. CASE pub[f] = 0
      BY <3>1
    <3>2. CASE pub[f] # 0
      <4>1. pub[f] \in 1 .. MaxIno
        BY <3>2, Parts
      <4>2. inode[pub[f]].data \in Seq(Block)
        BY <4>1, Parts
      <4> QED
        BY <3>2, <4>2
    <3> QED
      BY <3>1, <3>2
  <2>4. fin' \in [Consumers \cup Copiers -> InFile] /\ ksize' \in [Copiers -> Int]
    BY <1>w, <2>1, <2>2, <2>3 DEF TypeOK
  <2>5. pc' \in Pcs
    BY <1>1, <1>w, GotoType DEF Filesize
  <2>6. made' \subseteq {"in", "out"}
    BY <1>1 DEF Filesize, Newdir, TypeOK
  <2>7. UNCHANGED <<pub, tmp, inode, fout, list, wver, buf, ver,
                    issued, read, replaced, raced, clash, spoilt, faults>>
    BY <1>1 DEF Filesize, fate
  <2> QED
    BY <2>4, <2>5, <2>6, <2>7 DEF TypeOK
<1>2. CASE Copyopen(k)
  <2>1. pc' \in Pcs
    BY <1>2, <1>w, GotoType DEF Copyopen
  <2>2. UNCHANGED <<list, wver, buf, ver, issued, read, replaced, raced, spoilt>>
        /\ faults' \in 0 .. MaxFaults
    BY <1>2, FailsType DEF Copyopen, fate
  <2>3. CASE EndCopy(k) /\ UNCHANGED <<fs, fout, clash>>
    <3>1. fin' \in [Consumers \cup Copiers -> InFile] /\ ksize' \in [Copiers -> Int]
      BY <1>w, <2>3 DEF EndCopy, TypeOK
    <3>2. UNCHANGED <<made, pub, tmp, inode, fout, clash>>
      BY <2>3 DEF fs
    <3> QED
      BY <2>1, <2>2, <3>1, <3>2 DEF TypeOK
  <2>4. CASE /\ fin' = [fin EXCEPT ![k].ino = pub[fin[k].file]] /\ UNCHANGED ksize
             /\ pc[k] = "open" /\ pub[fin[k].file] # 0
             /\ Cofile_open(k, Dst, pub[fin[k].file])
    <3>1. fin[k].file \in Names
      BY <1>w, <2>4, Parts DEF AtInv, CopierAt
    <3>2. PICK h : h = [fin[k] EXCEPT !.ino = pub[fin[k].file]]
      OBVIOUS
    <3>3. h \in InFile
      BY <1>w, <3>1, <3>2, Parts DEF InFile
    <3>4. fin' = [fin EXCEPT ![k] = h]
      BY <2>4, <3>2
    <3>5. fin' \in [Consumers \cup Copiers -> InFile]
      BY <3>3, <3>4 DEF TypeOK
    <3>6. /\ tmp' \in [Files -> 0 .. MaxIno] /\ pub' = pub /\ made' = made \cup {DirOf(Dst)}
          /\ fout' \in [Writers \cup Copiers -> OutFile] /\ clash' \in BOOLEAN
          /\ inode' \in [1 .. MaxIno -> Inode]
      <4>1. pub[fin[k].file] \in 0 .. MaxIno
        BY <3>1, Parts
      <4> QED
        BY <1>w, <2>4, <4>1, OpenedType
    <3>7. made' \subseteq {"in", "out"}
      BY <1>w, <3>6 DEF TypeOK
    <3> QED
      BY <2>1, <2>2, <2>4, <3>5, <3>6, <3>7 DEF TypeOK
  <2> QED
    BY <1>2, <2>3, <2>4 DEF Copyopen
<1>3. CASE Copy(k)
  <2>1. pc[k] = "copy" /\ fout[k].ino # 0 /\ fin[k].ino # 0
    BY <1>3 DEF Copy, AtInv, CopierAt
  <2>2. fin[k].ino \in 1 .. MaxIno
    BY <1>w, <2>1, Parts
  <2>3. inode[fin[k].ino].data \in Seq(Block) /\ fout[k].off \in Nat
    BY <1>w, <2>2, Parts
  <2>4. PICK b \in Block : b = IF fout[k].off < Len(inode[fin[k].ino].data)
                               THEN inode[fin[k].ino].data[fout[k].off + 1] ELSE Zero
    <3>1. ASSUME NEW d \in Seq(Block), NEW n \in Nat
          PROVE  (IF n < Len(d) THEN d[n + 1] ELSE Zero) \in Block
      BY ONLY Constants
    <3> QED
      BY <2>3, <3>1
  <2>5. Cofile_write(k, b, Now)
    BY <1>3, <2>4 DEF Copy
  <2>6. /\ tmp' = tmp /\ pub' = pub /\ made' = made /\ faults' \in 0 .. MaxFaults
        /\ fout' \in [Writers \cup Copiers -> OutFile] /\ inode' \in [1 .. MaxIno -> Inode]
    BY <1>w, <2>1, <2>5, WriteEffect
  <2>7. UNCHANGED <<fin, list, pc, wver, buf, ksize, ver,
                    issued, read, replaced, raced, clash, spoilt>>
    BY <1>3 DEF Copy, fate
  <2> QED
    BY <2>6, <2>7 DEF TypeOK
<1>4. CASE Copyclose(k)
  <2>1. fout[k].file \in Files
    BY <1>4, <1>w DEF Copyclose, AtInv, CopierAt
  <2>2. /\ made' = made /\ faults' \in 0 .. MaxFaults
        /\ pub' \in [Files -> 0 .. MaxIno] /\ tmp' \in [Files -> 0 .. MaxIno]
        /\ fout' \in [Writers \cup Copiers -> OutFile] /\ inode' \in [1 .. MaxIno -> Inode]
    BY <1>4, <1>w, <2>1, RenameEffect DEF Copyclose
  <2>3. PICK h : h = [fin[k] EXCEPT !.ino = 0]
    OBVIOUS
  <2>4. h \in InFile
    BY <1>w, <2>3, Parts DEF InFile
  <2>5. fin' = [fin EXCEPT ![k] = h]
    BY <1>4, <2>3 DEF Copyclose
  <2>6. fin' \in [Consumers \cup Copiers -> InFile]
    BY <2>4, <2>5 DEF TypeOK
  <2>7. pc' \in Pcs /\ spoilt' \in [Copiers -> {"no", "late", "early", "failed"}]
    BY <1>4, <1>w, GotoType, MovedType DEF Copyclose
  <2>8. UNCHANGED <<list, wver, buf, ksize, ver, issued, read, replaced, raced, clash>>
    BY <1>4 DEF Copyclose, fate
  <2> QED
    BY <2>2, <2>6, <2>7, <2>8 DEF TypeOK
<1>5. CASE Copytime(k)
  <2>1. inode' \in [1 .. MaxIno -> Inode]
    <3>1. CASE UNCHANGED inode
      BY <3>1 DEF TypeOK
    <3>2. CASE /\ pub[Dst] # 0
               /\ inode' = [inode EXCEPT ![pub[Dst]].time =
                              IF pub[fin[k].file] = 0 THEN Unset ELSE inode[pub[fin[k].file]].time]
      <4>1. pub[Dst] \in 1 .. MaxIno
        BY <1>w, <3>2, Parts
      <4>2. PICK i \in 1 .. MaxIno : i = pub[Dst]
        BY <4>1
      <4>3. fin[k].file \in Names
        BY <1>5, <1>w, Parts DEF Copytime, AtInv, CopierAt
      <4>4. PICK t : t = IF pub[fin[k].file] = 0 THEN Unset ELSE inode[pub[fin[k].file]].time
        OBVIOUS
      <4>5. pub[fin[k].file] = 0 \/ pub[fin[k].file] \in 1 .. MaxIno
        BY <4>3, Parts
      <4>6. t \in Unset .. Len(Size)
        BY <4>4, <4>5, Parts
      <4>7. PICK h : h = [inode[i] EXCEPT !.time = t]
        OBVIOUS
      <4>8. h \in Inode
        BY <4>2, <4>6, <4>7, Parts DEF Inode
      <4>9. inode' = [inode EXCEPT ![i] = h]
        BY <3>2, <4>2, <4>4, <4>7
      <4> QED
        BY <4>8, <4>9 DEF TypeOK
    <3> QED
      BY <1>5, <3>1, <3>2 DEF Copytime
  <2>2. pc' \in Pcs /\ spoilt' \in [Copiers -> {"no", "late", "early", "failed"}]
    BY <1>5, <1>w, GotoType, MovedType DEF Copytime
  <2>3. UNCHANGED <<made, pub, tmp, fout, fin, list, wver, buf, ksize, ver,
                    issued, read, replaced, raced, clash>>
        /\ faults' \in 0 .. MaxFaults
    BY <1>5, FailsType DEF Copytime, fate
  <2> QED
    BY <2>1, <2>2, <2>3 DEF TypeOK
<1> QED
  BY <1>w, <1>1, <1>2, <1>3, <1>4, <1>5, NewdirfailsType DEF Copyfile

LEMMA DieType ==
  ASSUME TypeOK, NEW p \in Procs, Die(p)
  PROVE  TypeOK'
<1>1. inode' \in [1 .. MaxIno -> Inode]
  BY KeptAll DEF Die
<1>2. fout' \in [Writers \cup Copiers -> OutFile] /\ fin' \in [Consumers \cup Copiers -> InFile]
  BY Constants DEF Die, TypeOK
<1>3. list' \in [Consumers -> Seq(Names)] /\ buf' \in [Consumers -> Seq(Block)]
  <2>1. <<>> \in Seq(Names) /\ <<>> \in Seq(Block)
    OBVIOUS
  <2> QED
    BY <2>1 DEF Die, TypeOK
<1>4. wver' \in [Writers -> 0 .. Len(Size)] /\ ksize' \in [Copiers -> Int]
  BY Constants DEF Die, TypeOK
<1>5. pc' \in [Procs -> {"idle", "mkdir", "write", "next", "read", "remove",
                         "open", "copy", "stamp", "copied"}]
  BY GotoType DEF Die
<1>6. faults' \in 0 .. MaxFaults
  BY FilePublishAssumption DEF FilePublishAssumption, Die, TypeOK
<1>7. UNCHANGED <<made, pub, tmp, ver, issued, read, replaced, raced, clash, spoilt>>
  BY DEF Die, fate
<1> QED
  BY <1>1, <1>2, <1>3, <1>4, <1>5, <1>6, <1>7 DEF TypeOK

LEMMA TypeStep ==
  ASSUME TypeOK, AtInv, [Next]_vars
  PROVE  TypeOK'
<1>1. CASE UNCHANGED vars
  <2>1. UNCHANGED <<made, pub, tmp, inode, fout, fin, list, pc, wver, buf, ksize, ver,
                    issued, read, replaced, raced, clash, spoilt, faults>>
    BY <1>1 DEF vars, fs, fate
  <2> QED
    BY <2>1 DEF TypeOK
<1> QED
  BY <1>1, ProduceType, ConsumeType, CopyfileType, DieType DEF Next

-----------------------------------------------------------------------------
\* A step is one process's; what the others hold stays.
Act(p) ==
  \/ p \in Writers /\ Produce(p)
  \/ p \in Consumers /\ Consume(p)
  \/ p \in Copiers /\ Copyfile(p)
  \/ Die(p)

LEMMA StepActs == [Next]_vars => UNCHANGED vars \/ \E p \in Procs : Act(p)
BY DEF Next, Act, Procs

Same(q) ==
  /\ pc'[q] = pc[q]
  /\ q \in Writers \cup Copiers => fout'[q] = fout[q]
  /\ q \in Consumers \cup Copiers => fin'[q] = fin[q]
  /\ q \in Consumers => buf'[q] = buf[q] /\ list'[q] = list[q]
  /\ q \in Writers => wver'[q] = wver[q]
  /\ q \in Copiers => ksize'[q] = ksize[q]

LEMMA OthersSame ==
  ASSUME TypeOK, AtInv, NEW p \in Procs, Act(p), NEW q \in Procs, q # p
  PROVE  Same(q)
<1> USE DEF Same
<1>p. /\ pc \in [Procs -> {"idle", "mkdir", "write", "next", "read", "remove",
                           "open", "copy", "stamp", "copied"}]
      /\ fout \in [Writers \cup Copiers -> OutFile] /\ fin \in [Consumers \cup Copiers -> InFile]
      /\ buf \in [Consumers -> Seq(Block)] /\ list \in [Consumers -> Seq(Names)]
      /\ wver \in [Writers -> 0 .. Len(Size)] /\ ksize \in [Copiers -> Int]
  BY DEF TypeOK
<1>1. CASE p \in Writers /\ Produce(p)
  <2>0. pc' = pc \/ \E l : pc' = [pc EXCEPT ![p] = l]
    BY <1>1 DEF Produce, Open, Write, Closeandrename, Close, Goto
  <2>1. UNCHANGED <<fin, buf, list, ksize>>
    BY <1>1 DEF Produce, Open, Write, Closeandrename, Close
  <2>2. wver' = wver \/ \E v : wver' = [wver EXCEPT ![p] = v]
    BY <1>1 DEF Produce, Open, Write, Closeandrename, Close
  <2>3. \E h : fout' = [fout EXCEPT ![p] = h]
    BY <1>1 DEF Produce, Open, Write, Closeandrename, Close,
       Cofile_open, Cofile_write, Cofile_closeandrename, Cofile_close
  <2> QED
    BY <1>p, <2>0, <2>1, <2>2, <2>3
<1>2. CASE p \in Consumers /\ Consume(p)
  <2>0. pc' = pc \/ \E l : pc' = [pc EXCEPT ![p] = l]
    BY <1>2 DEF Consume, Newdirfails, Access, Mkdirfails, Opendir, Readdir, Read, Closeandremove, Goto
  <2>1. UNCHANGED <<fout, wver, ksize>>
    BY <1>2 DEF Consume, Newdirfails, Access, Mkdirfails, Opendir, Readdir, Read, Closeandremove
  <2>2. fin' = fin \/ \E h : fin' = [fin EXCEPT ![p] = h]
    BY <1>2 DEF Consume, Newdirfails, Access, Mkdirfails, Opendir, Readdir, Read, Closeandremove
  <2>3. buf' = buf \/ \E b : buf' = [buf EXCEPT ![p] = b]
    BY <1>2 DEF Consume, Newdirfails, Access, Mkdirfails, Opendir, Readdir, Read, Closeandremove
  <2>4. list' = list \/ \E l : list' = [list EXCEPT ![p] = l]
    BY <1>2 DEF Consume, Newdirfails, Access, Mkdirfails, Opendir, Readdir, Read, Closeandremove
  <2> QED
    BY <1>p, <2>0, <2>1, <2>2, <2>3, <2>4
<1>3. CASE p \in Copiers /\ Copyfile(p)
  <2>0. pc' = pc \/ \E l : pc' = [pc EXCEPT ![p] = l]
    BY <1>3 DEF Copyfile, Newdirfails, Access, Mkdirfails, Filesize, Copyopen, Copy, Copyclose, Copytime, Goto
  <2>1. UNCHANGED <<buf, list, wver>>
    BY <1>3 DEF Copyfile, Newdirfails, Access, Mkdirfails, Filesize, Copyopen, Copy, Copyclose, Copytime
  <2>2. fin' = fin \/ \E h : fin' = [fin EXCEPT ![p] = h]
    BY <1>3 DEF Copyfile, Newdirfails, Access, Mkdirfails, Filesize, Copyopen, Copy, Copyclose, Copytime, EndCopy
  <2>3. fout' = fout \/ \E h : fout' = [fout EXCEPT ![p] = h]
    BY <1>3 DEF Copyfile, Newdirfails, Access, Mkdirfails, Filesize, Copyopen, Copy, Copyclose, Copytime,
       Cofile_open, Cofile_write, Cofile_closeandrename
  <2>4. ksize' = ksize \/ \E n : ksize' = [ksize EXCEPT ![p] = n]
    BY <1>3 DEF Copyfile, Newdirfails, Access, Mkdirfails, Filesize, Copyopen, Copy, Copyclose, Copytime, EndCopy
  <2> QED
    BY <1>p, <2>0, <2>1, <2>2, <2>3, <2>4
<1>4. CASE Die(p)
  BY <1>p, <1>4 DEF Die, Goto
<1> QED
  BY <1>1, <1>2, <1>3, <1>4 DEF Act

LEMMA Roles ==
  /\ \A p \in Writers : p \notin Consumers /\ p \notin Copiers
  /\ \A p \in Consumers : p \notin Copiers
BY FilePublishAssumption DEF FilePublishAssumption

LEMMA WriterStep ==
  ASSUME TypeOK, AtInv, NEW w \in Writers, Act(w)
  PROVE  WriterAt(w)'
<1> USE Constants
<1>w. w \in Procs /\ w \in Writers \cup Copiers
  BY DEF Procs
<1>at. WriterAt(w)
  BY DEF AtInv
<1>pc. \A l : Goto(w, l) => pc'[w] = l
  BY <1>w DEF Goto, TypeOK
<1>1. CASE Open(w)
  <2>1. PICK f \in Names : f \in Files /\ Opens(w, f)
    BY <1>1, WriterOpens
  <2>o. OpenLeaves(w, f)
    BY <1>w, <2>1, OpensEffect
  <2>2. fout'[w].file = f /\ fout'[w].ino = tmp'[f] /\ tmp'[f] \in 1 .. MaxIno
    BY <2>o DEF OpenLeaves
  <2>3. pc'[w] = "write" /\ wver'[w] = ver + 1 /\ ver + 1 \in Versions
    BY <1>1, <1>w, <1>pc DEF Open, TypeOK
  <2>4. fout'[w].file \in Names /\ fout'[w].ino # 0
    BY <2>1, <2>2
  <2> QED
    BY <2>3, <2>4 DEF WriterAt
<1>2. CASE Write(w)
  <2>1. pc[w] = "write" /\ pc' = pc /\ wver' = wver
    BY <1>2 DEF Write
  <2>2. fout[w].ino # 0 /\ wver[w] \in Versions /\ fout[w].off \in Nat
    BY <1>at, <1>w, <2>1, Parts DEF WriterAt
  <2>3. <<wver[w], fout[w].off + 1>> \in Block /\ wver[w] \in Unset .. Len(Size)
    BY <2>2 DEF Block, Unset
  <2>4. fout'[w].file = fout[w].file /\ fout'[w].ino = fout[w].ino
    BY <1>2, <1>w, <2>2, <2>3, WriteEffect DEF Write
  <2> QED
    BY <1>at, <2>1, <2>4 DEF WriterAt
<1>3. CASE Closeandrename(w)
  <2>1. fout[w].file \in Files
    BY <1>3, <1>at DEF Closeandrename, WriterAt
  <2>2. fout'[w] = NoOut
    BY <1>3, <1>w, <2>1, RenameEffect DEF Closeandrename
  <2>3. pc'[w] = "idle"
    BY <1>3, <1>pc DEF Closeandrename
  <2> QED
    BY <2>2, <2>3 DEF WriterAt
<1>4. CASE Close(w)
  <2>1. fout[w].file \in Files
    BY <1>4, <1>at DEF Close, WriterAt
  <2>2. fout'[w] = NoOut
    BY <1>4, <1>w, <2>1, CloseEffect DEF Close
  <2>3. pc'[w] = "idle"
    BY <1>4, <1>pc DEF Close
  <2> QED
    BY <2>2, <2>3 DEF WriterAt
<1>5. CASE Die(w)
  <2>1. fout'[w] = NoOut
    BY <1>5, <1>w DEF Die, TypeOK
  <2>2. pc'[w] = "idle"
    BY <1>5, <1>pc DEF Die
  <2> QED
    BY <2>1, <2>2 DEF WriterAt
<1> QED
  BY <1>1, <1>2, <1>3, <1>4, <1>5, Roles DEF Act, Produce

LEMMA ConsumerStep ==
  ASSUME TypeOK, AtInv, NEW c \in Consumers, Act(c)
  PROVE  ConsumerAt(c)'
<1> USE Constants
<1>w. c \in Procs /\ c \in Consumers \cup Copiers
  BY DEF Procs
<1>at. ConsumerAt(c)
  BY DEF AtInv
<1>pc. \A l : Goto(c, l) => pc'[c] = l
  BY <1>w DEF Goto, TypeOK
<1>1. CASE Newdirfails(c, "in")
  <2>1. UNCHANGED <<fin, buf>> /\ pc'[c] \in {"mkdir", "idle"} /\ pc[c] \in {"idle", "mkdir"}
    BY <1>1, <1>pc DEF Newdirfails, Access, Mkdirfails
  <2> QED
    BY <1>at, <2>1 DEF ConsumerAt
<1>2. CASE Opendir(c)
  <2>1. UNCHANGED <<fin, buf>> /\ pc'[c] = "next" /\ pc[c] \in {"idle", "mkdir"}
    BY <1>2, <1>pc DEF Opendir, Newdir
  <2> QED
    BY <1>at, <2>1 DEF ConsumerAt
<1>3. CASE Readdir(c)
  <2>1. pc[c] = "next" /\ buf' = buf
    BY <1>3 DEF Readdir
  <2>2. CASE Exhausted(c)
    <3>1. pc'[c] = "idle" /\ fin' = fin
      BY <1>3, <1>pc, <2>2 DEF Readdir
    <3> QED
      BY <1>at, <2>1, <3>1 DEF ConsumerAt
  <2>3. CASE ~Exhausted(c)
    <3>1. PICK f : f = Head(list[c])
      OBVIOUS
    <3>2. list[c] \in Seq(Names) /\ list[c] # <<>>
      BY <2>3 DEF TypeOK, Exhausted
    <3>3. f \in Names
      BY <3>1, <3>2
    <3>4. /\ fin'[c] = [file |-> f, ino |-> pub[f]]
          /\ pc'[c] = IF pub[f] = 0 THEN "remove" ELSE "read"
      BY <1>3, <1>w, <1>pc, <2>3, <3>1 DEF Readdir, TypeOK
    <3>5. fin'[c].file = f /\ fin'[c].ino = pub[f]
      BY <3>4
    <3>6. (pc'[c] = "read" /\ pub[f] # 0) \/ pc'[c] = "remove"
      BY <3>4
    <3> QED
      BY <3>3, <3>5, <3>6 DEF ConsumerAt
  <2> QED
    BY <2>2, <2>3
<1>4. CASE Read(c)
  <2>1. pc[c] = "read" /\ fin' = fin /\ (pc' = pc \/ pc'[c] = "remove")
    BY <1>4, <1>pc DEF Read
  <2> QED
    BY <1>at, <2>1 DEF ConsumerAt
<1>5. CASE Closeandremove(c)
  <2>1. fin'[c] = NoHandle /\ buf'[c] = <<>> /\ pc'[c] = "next"
    BY <1>5, <1>w, <1>pc DEF Closeandremove, TypeOK
  <2> QED
    BY <2>1 DEF ConsumerAt, NoHandle
<1>6. CASE Die(c)
  <2>1. fin'[c] = NoHandle /\ buf'[c] = <<>> /\ pc'[c] = "idle"
    BY <1>6, <1>w, <1>pc DEF Die, TypeOK
  <2> QED
    BY <2>1 DEF ConsumerAt, NoHandle
<1> QED
  BY <1>1, <1>2, <1>3, <1>4, <1>5, <1>6, Roles DEF Act, Consume

LEMMA CopierStep ==
  ASSUME TypeOK, AtInv, NEW k \in Copiers, Act(k)
  PROVE  CopierAt(k)'
<1> USE Constants
<1>w. k \in Procs /\ k \in Writers \cup Copiers /\ k \in Consumers \cup Copiers /\ Dst \in Files
  BY DEF Procs, Files
<1>at. CopierAt(k)
  BY DEF AtInv
<1>pc. \A l : Goto(k, l) => pc'[k] = l
  BY <1>w DEF Goto, TypeOK
<1>n. NoFile \notin Names
  BY FilePublishAssumption DEF FilePublishAssumption
<1>1. CASE Newdirfails(k, "out")
  <2>1. UNCHANGED <<fin, fout>> /\ pc'[k] \in {"mkdir", "idle"} /\ pc[k] \in {"idle", "mkdir"}
    BY <1>1, <1>pc DEF Newdirfails, Access, Mkdirfails
  <2> QED
    BY <1>at, <2>1 DEF CopierAt
<1>2. CASE Filesize(k)
  <2>1. fout' = fout /\ pc'[k] = "open" /\ pc[k] \in {"idle", "mkdir"}
    BY <1>2, <1>pc DEF Filesize, Newdir
  <2>2. PICK f \in Names : fin'[k] = [file |-> f, ino |-> 0]
    BY <1>2, <1>w DEF Filesize, TypeOK
  <2>3. fin'[k].file = f /\ fin'[k].ino = 0 /\ f # NoFile
    BY <1>n, <2>2
  <2> QED
    BY <1>at, <2>1, <2>3 DEF CopierAt
<1>3. CASE Copyopen(k)
  <2>1. pc[k] = "open" /\ fin[k].file # NoFile /\ fin[k].file \in Names
    BY <1>3, <1>at, <1>w, Parts DEF Copyopen, CopierAt
  <2>2. CASE EndCopy(k) /\ Goto(k, "idle") /\ UNCHANGED fout
    <3>1. fin'[k] = NoHandle /\ pc'[k] = "idle" /\ fout' = fout
      BY <1>w, <1>pc, <2>2 DEF EndCopy, TypeOK
    <3> QED
      BY <1>at, <2>1, <3>1 DEF CopierAt, NoHandle
  <2>3. CASE /\ pub[fin[k].file] # 0
             /\ fin' = [fin EXCEPT ![k].ino = pub[fin[k].file]] /\ Goto(k, "copy")
             /\ Opens(k, Dst)
    <3>o. OpenLeaves(k, Dst)
      BY <1>w, <2>3, OpensEffect
    <3>1. fout'[k].file = Dst /\ fout'[k].ino = tmp'[Dst] /\ tmp'[Dst] \in 1 .. MaxIno
      BY <3>o DEF OpenLeaves
    <3>2. PICK j : j = pub[fin[k].file]
      OBVIOUS
    <3>3. fin'[k] = [fin[k] EXCEPT !.ino = j]
      BY <1>w, <2>3, <3>2 DEF TypeOK
    <3>4. fin'[k].ino = j /\ fin'[k].file = fin[k].file
      BY <1>w, <3>3, Parts DEF InFile
    <3>5. pc'[k] = "copy" /\ fout'[k].file = Dst /\ fout'[k].ino # 0
      BY <1>pc, <2>3, <3>1
    <3> QED
      BY <2>1, <2>3, <3>2, <3>4, <3>5 DEF CopierAt
  <2> QED
    BY <1>3, <2>1, <2>2, <2>3, CopierOpens
<1>4. CASE Copy(k)
  <2>1. pc[k] = "copy" /\ fout[k].ino # 0 /\ fin[k].ino # 0 /\ pc' = pc /\ fin' = fin
    BY <1>4, <1>at DEF Copy, CopierAt
  <2>2. fout'[k].file = fout[k].file /\ fout'[k].ino = fout[k].ino
    BY <1>4, <1>w, WriteLeaves DEF Copy
  <2> QED
    BY <1>at, <2>1, <2>2 DEF CopierAt
<1>5. CASE Copyclose(k)
  <2>1. pc[k] = "copy" /\ fout[k].file \in Files /\ fin[k].file # NoFile
    BY <1>5, <1>at, <1>w DEF Copyclose, CopierAt
  <2>2. fout'[k] = NoOut
    BY <1>5, <1>w, <2>1, RenameEffect DEF Copyclose
  <2>3. pc'[k] = "stamp"
    BY <1>5, <1>pc DEF Copyclose
  <2>4. fin'[k].ino = 0 /\ fin'[k].file = fin[k].file
    <3>1. fin'[k] = [fin[k] EXCEPT !.ino = 0]
      BY <1>5, <1>w DEF Copyclose, TypeOK
    <3> QED
      BY <1>w, <3>1, Parts DEF InFile
  <2> QED
    BY <2>1, <2>2, <2>3, <2>4 DEF CopierAt
<1>6. CASE Copytime(k)
  <2>1. pc[k] = "stamp" /\ fin' = fin /\ fout' = fout /\ pc'[k] = "copied"
    BY <1>6, <1>pc DEF Copytime
  <2> QED
    BY <1>at, <2>1 DEF CopierAt
<1>7. CASE Die(k)
  <2>1. fin'[k] = NoHandle /\ fout'[k] = NoOut /\ pc'[k] = "idle"
    BY <1>7, <1>w, <1>pc DEF Die, TypeOK
  <2> QED
    BY <2>1 DEF CopierAt, NoHandle
<1> QED
  BY <1>1, <1>2, <1>3, <1>4, <1>5, <1>6, <1>7, Roles DEF Act, Copyfile

LEMMA AtStep ==
  ASSUME TypeOK, AtInv, NEW p \in Procs, Act(p)
  PROVE  AtInv'
<1>1. ASSUME NEW w \in Writers PROVE WriterAt(w)'
  <2>1. CASE w = p
    BY <2>1, WriterStep
  <2>2. CASE w # p
    BY <2>2, OthersSame DEF Procs, Same, AtInv, WriterAt
  <2> QED
    BY <2>1, <2>2
<1>2. ASSUME NEW c \in Consumers PROVE ConsumerAt(c)'
  <2>1. CASE c = p
    BY <2>1, ConsumerStep
  <2>2. CASE c # p
    BY <2>2, OthersSame DEF Procs, Same, AtInv, ConsumerAt
  <2> QED
    BY <2>1, <2>2
<1>3. ASSUME NEW k \in Copiers PROVE CopierAt(k)'
  <2>1. CASE k = p
    BY <2>1, CopierStep
  <2>2. CASE k # p
    BY <2>2, OthersSame DEF Procs, Same, AtInv, CopierAt
  <2> QED
    BY <2>1, <2>2
<1> QED
  BY <1>1, <1>2, <1>3 DEF AtInv

-----------------------------------------------------------------------------
\* What a step does to names.
Removes_name(p) ==
  p \in Consumers /\ Closeandremove(p) /\ fin[p].ino # 0 /\ fin[p].file \in Names
Renames(p) ==
  \/ p \in Writers /\ Closeandrename(p) /\ fout[p].file \in Names
  \/ p \in Copiers /\ Copyclose(p) /\ fout[p].file = Dst
NameStep(p) ==
  \/ UNCHANGED <<pub, tmp>>
  \/ p \in Writers /\ Open(p) /\ \E f \in Names : f \in Files /\ Opens(p, f)
  \/ p \in Copiers /\ Copyopen(p) /\ Opens(p, Dst)
  \/ p \in Writers /\ Close(p) /\ fout[p].file \in Names
  \/ Renames(p)
  \/ Removes_name(p)

LEMMA NameCases ==
  ASSUME TypeOK, AtInv, NEW p \in Procs, Act(p)
  PROVE  NameStep(p)
<1>1. CASE p \in Writers /\ Produce(p)
  <2>1. WriterAt(p)
    BY <1>1 DEF AtInv
  <2>2. CASE Open(p)
    BY <1>1, <2>2, WriterOpens DEF NameStep
  <2>3. CASE ~Open(p)
    BY <1>1, <2>1, <2>3 DEF Produce, Write, Closeandrename, Close, Cofile_write, WriterAt,
       NameStep, Renames
  <2> QED
    BY <2>2, <2>3
<1>2. CASE p \in Consumers /\ Consume(p)
  <2>1. ConsumerAt(p)
    BY <1>2 DEF AtInv
  <2>2. CASE Closeandremove(p)
    BY <1>2, <2>1, <2>2 DEF Closeandremove, Removes, ConsumerAt, NameStep, Removes_name
  <2>3. CASE ~Closeandremove(p)
    BY <1>2, <2>3 DEF Consume, Newdirfails, Opendir, Readdir, Read, NameStep, fs
  <2> QED
    BY <2>2, <2>3
<1>3. CASE p \in Copiers /\ Copyfile(p)
  <2>1. CopierAt(p)
    BY <1>3 DEF AtInv
  <2>2. CASE Copyopen(p)
    <3>1. fin[p].file \in Names
      BY <1>3, <2>1, <2>2, Parts DEF Copyopen, CopierAt
    <3> QED
      BY <1>3, <2>2, <3>1, CopierOpens DEF NameStep, fs
  <2>3. CASE Copyclose(p)
    BY <1>3, <2>1, <2>3 DEF Copyclose, CopierAt, NameStep, Renames
  <2>4. CASE ~Copyopen(p) /\ ~Copyclose(p)
    BY <1>3, <2>4 DEF Copyfile, Newdirfails, Filesize, Copy, Copytime, Cofile_write, NameStep, fs
  <2> QED
    BY <2>2, <2>3, <2>4
<1>4. CASE Die(p)
  BY <1>4 DEF Die, NameStep
<1> QED
  BY <1>1, <1>2, <1>3, <1>4 DEF Act

LEMMA RenamesEffect ==
  ASSUME TypeOK, NEW p \in Procs, Renames(p), NEW f, f = fout[p].file
  PROVE  /\ p \in Writers \cup Copiers /\ f \in Files
         /\ pub' \in [Files -> 0 .. MaxIno] /\ tmp' \in [Files -> 0 .. MaxIno]
         /\ \A g \in Files : g # f => pub'[g] = pub[g] /\ tmp'[g] = tmp[g]
         /\ \/ tmp[f] # 0 /\ tmp'[f] = 0 /\ pub'[f] = tmp[f]
            \/ tmp' = tmp /\ pub' = pub
         /\ fout'[p] = NoOut
         /\ \A q \in Writers \cup Copiers : q # p => fout'[q] = fout[q]
         /\ \A j \in 1 .. MaxIno : Linked(j)' => inode'[j] = inode[j]
<1>1. p \in Writers \cup Copiers /\ f \in Files /\ Cofile_closeandrename(p)
  BY Constants DEF Renames, Closeandrename, Copyclose, Files
<1> QED
  BY <1>1, RenameEffect

LEMMA RemovesEffect ==
  ASSUME TypeOK, NEW c \in Procs, Removes_name(c), NEW f, f = fin[c].file
  PROVE  /\ f \in Names /\ pub' \in [Files -> 0 .. MaxIno] /\ pub'[f] = 0 /\ tmp' = tmp
         /\ \A g \in Files : g # f => pub'[g] = pub[g]
         /\ fout' = fout
         /\ \A j \in 1 .. MaxIno : Linked(j)' => inode'[j] = inode[j]
<1>1. f \in Names /\ pub' = [pub EXCEPT ![f] = 0] /\ tmp' = tmp /\ Keep(inode) /\ fout' = fout
  BY DEF Removes_name, Closeandremove, Removes
<1> QED
  BY <1>1, KeptAll, Constants DEF TypeOK

LEMMA NamesStep ==
  ASSUME TypeOK, NamesApart, AtInv, NEW p \in Procs, Act(p)
  PROVE  NamesApart'
<1>0. \A f \in Files : pub[f] \in 0 .. MaxIno /\ tmp[f] \in 0 .. MaxIno
  BY Parts
<1>1. CASE UNCHANGED <<pub, tmp>>
  BY <1>1 DEF NamesApart
<1>2. ASSUME NEW f \in Files, p \in Writers \cup Copiers, Opens(p, f)
      PROVE  NamesApart'
  <2>o. OpenLeaves(p, f)
    BY <1>2, OpensEffect
  <2>1. PICK i \in 1 .. MaxIno : i = tmp'[f]
    BY <2>o DEF OpenLeaves
  <2>2. /\ \A g \in Files : g # f => tmp'[g] = tmp[g]
        /\ tmp[f] # 0 => i = tmp[f]
        /\ tmp[f] = 0 => ~Linked(i)
        /\ pub' = pub
    BY <2>1, <2>o DEF OpenLeaves
  <2>3. tmp[f] = 0 => \A g \in Files : i # pub[g] /\ i # tmp[g]
    BY <2>2 DEF Linked
  <2> QED
    BY <2>1, <2>2, <2>3 DEF NamesApart
<1>3. CASE p \in Writers /\ Close(p) /\ fout[p].file \in Names
  <2>1. PICK f \in Files : f = fout[p].file
    BY <1>3, Constants
  <2>2. pub' = pub /\ tmp'[f] = 0 /\ \A g \in Files : g # f => tmp'[g] = tmp[g]
    BY <1>3, <2>1, CloseEffect DEF Close
  <2> QED
    BY <2>2 DEF NamesApart
<1>4. CASE Renames(p)
  <2>1. PICK f : f = fout[p].file
    OBVIOUS
  <2>2. /\ f \in Files
        /\ \A g \in Files : g # f => pub'[g] = pub[g] /\ tmp'[g] = tmp[g]
        /\ \/ tmp[f] # 0 /\ tmp'[f] = 0 /\ pub'[f] = tmp[f]
           \/ tmp' = tmp /\ pub' = pub
    BY <1>4, <2>1, RenamesEffect
  <2> QED
    BY <2>2 DEF NamesApart
<1>5. CASE Removes_name(p)
  <2>1. PICK f : f = fin[p].file
    OBVIOUS
  <2>2. /\ f \in Names /\ pub'[f] = 0 /\ tmp' = tmp
        /\ \A g \in Files : g # f => pub'[g] = pub[g]
    BY <1>5, <2>1, RemovesEffect
  <2> QED
    BY <2>2 DEF NamesApart
<1>6. \A f \in Names : f \in Files
  BY Constants
<1>7. Dst \in Files
  BY DEF Files
<1> QED
  BY <1>1, <1>2, <1>3, <1>4, <1>5, <1>6, <1>7, NameCases DEF NameStep

-----------------------------------------------------------------------------
\* What a step does to cofiles, temporary names and the clash of two cofiles.
LEMMA HandleCases ==
  ASSUME TypeOK, AtInv, NEW p \in Procs, Act(p)
  PROVE  \/ p \in Writers \cup Copiers /\ \E f \in Files : Opens(p, f)
         \/ /\ clash' = clash
            /\ \A q \in Writers \cup Copiers :
                 fout'[q].ino = 0 \/ (fout'[q].ino = fout[q].ino /\ fout'[q].file = fout[q].file)
            /\ \A g \in Files : \/ tmp'[g] = tmp[g]
                                \/ /\ tmp'[g] = 0 /\ p \in Writers \cup Copiers
                                   /\ fout[p].file = g /\ fout[p].ino # 0 /\ fout'[p].ino = 0
<1>0. \A q \in Writers \cup Copiers : q # p => fout'[q] = fout[q]
  BY OthersSame DEF Same, Procs
<1>1. CASE p \in Writers /\ Produce(p)
  <2>0. p \in Writers \cup Copiers /\ WriterAt(p) /\ Names \subseteq Files /\ NoOut.ino = 0
    BY <1>1 DEF AtInv, Files, NoOut
  <2>1. CASE Open(p)
    BY <1>1, <2>0, <2>1, WriterOpens
  <2>2. CASE Write(p)
    <3>1. fout[p].ino # 0 /\ wver[p] \in Versions /\ fout[p].off \in Nat
      BY <2>0, <2>2, Parts DEF Write, WriterAt
    <3>2. <<wver[p], fout[p].off + 1>> \in Block /\ wver[p] \in Unset .. Len(Size)
      BY <3>1, Constants DEF Block, Unset
    <3>3. fout'[p].file = fout[p].file /\ fout'[p].ino = fout[p].ino /\ tmp' = tmp
      BY <2>0, <2>2, <3>1, <3>2, WriteEffect DEF Write
    <3> QED
      BY <1>0, <2>2, <3>3 DEF Write
  <2>3. CASE Closeandrename(p)
    <3>1. fout[p].file \in Files /\ fout[p].ino # 0 /\ clash' = clash
      BY <2>0, <2>3 DEF Closeandrename, WriterAt
    <3>2. PICK f \in Files : f = fout[p].file
      BY <3>1
    <3>3. /\ \A g \in Files : g # f => tmp'[g] = tmp[g]
          /\ tmp'[f] \in {0, tmp[f]} /\ fout'[p] = NoOut
      BY <2>0, <2>3, <3>2, RenameEffect DEF Closeandrename
    <3> QED
      BY <1>0, <2>0, <3>1, <3>2, <3>3
  <2>4. CASE Close(p)
    <3>1. fout[p].file \in Files /\ fout[p].ino # 0 /\ clash' = clash
      BY <2>0, <2>4 DEF Close, WriterAt
    <3>2. PICK f \in Files : f = fout[p].file
      BY <3>1
    <3>3. /\ \A g \in Files : g # f => tmp'[g] = tmp[g]
          /\ tmp'[f] = 0 /\ fout'[p] = NoOut
      BY <2>0, <2>4, <3>2, CloseEffect DEF Close
    <3> QED
      BY <1>0, <2>0, <3>1, <3>2, <3>3
  <2> QED
    BY <1>1, <2>1, <2>2, <2>3, <2>4 DEF Produce
<1>2. CASE p \in Consumers /\ Consume(p)
  <2>1. fout' = fout /\ tmp' = tmp /\ clash' = clash
    BY <1>2 DEF Consume, Newdirfails, Opendir, Readdir, Read, Closeandremove, fs
  <2> QED
    BY <2>1
<1>3. CASE p \in Copiers /\ Copyfile(p)
  <2>0. p \in Writers \cup Copiers /\ CopierAt(p) /\ Dst \in Files /\ NoOut.ino = 0
    BY <1>3 DEF AtInv, Files, NoOut
  <2>1. CASE Newdirfails(p, "out") \/ Filesize(p) \/ Copytime(p)
    <3>1. fout' = fout /\ tmp' = tmp /\ clash' = clash
      BY <2>1 DEF Newdirfails, Filesize, Copytime, fs
    <3> QED
      BY <3>1
  <2>2. CASE Copyopen(p)
    <3>1. fin[p].file \in Names
      BY <1>3, <2>0, <2>2, Parts DEF Copyopen, CopierAt
    <3> QED
      BY <1>3, <2>0, <2>2, <3>1, CopierOpens DEF fs
  <2>3. CASE Copy(p)
    <3>1. fout'[p].file = fout[p].file /\ fout'[p].ino = fout[p].ino /\ tmp' = tmp /\ clash' = clash
      BY <2>0, <2>3, WriteLeaves DEF Copy
    <3> QED
      BY <1>0, <3>1
  <2>4. CASE Copyclose(p)
    <3>1. fout[p].file \in Files /\ fout[p].ino # 0 /\ clash' = clash
      BY <2>0, <2>4 DEF Copyclose, CopierAt
    <3>2. PICK f \in Files : f = fout[p].file
      BY <3>1
    <3>3. /\ \A g \in Files : g # f => tmp'[g] = tmp[g]
          /\ tmp'[f] \in {0, tmp[f]} /\ fout'[p] = NoOut
      BY <2>0, <2>4, <3>2, RenameEffect DEF Copyclose
    <3> QED
      BY <1>0, <2>0, <3>1, <3>2, <3>3
  <2> QED
    BY <1>3, <2>1, <2>2, <2>3, <2>4 DEF Copyfile
<1>4. CASE Die(p)
  <2>1. tmp' = tmp /\ clash' = clash /\ \A q \in Writers \cup Copiers : q = p => fout'[q] = NoOut
    BY <1>4 DEF Die, TypeOK
  <2> QED
    BY <1>0, <2>1 DEF NoOut
<1> QED
  BY <1>1, <1>2, <1>3, <1>4 DEF Act

\* What a step does to cifiles.
LEMMA FinCases ==
  ASSUME TypeOK, AtInv, NEW p \in Procs, Act(p), NEW q \in Consumers \cup Copiers
  PROVE  \/ fin'[q].ino = 0
         \/ fin'[q].ino = fin[q].ino /\ fin'[q].file = fin[q].file
         \/ /\ q = p /\ pub' = pub
            /\ fin'[q].file \in Names /\ fin'[q].ino = pub[fin'[q].file]
<1>q. q \in Procs
  BY DEF Procs
<1>1. CASE q # p
  BY <1>1, <1>q, OthersSame DEF Same
<1>2. CASE q = p /\ Die(p)
  <2>1. fin'[q] = NoHandle
    BY <1>2 DEF Die, TypeOK
  <2> QED
    BY <2>1 DEF NoHandle
<1>3. CASE q = p /\ p \in Consumers /\ Consume(p)
  <2>1. CASE Newdirfails(p, "in") \/ Opendir(p) \/ Read(p)
    BY <1>3, <2>1 DEF Newdirfails, Opendir, Read
  <2>2. CASE Readdir(p)
    <3>1. CASE Exhausted(p)
      BY <1>3, <2>2, <3>1 DEF Readdir
    <3>2. CASE ~Exhausted(p)
      <4>1. PICK f : f = Head(list[p])
        OBVIOUS
      <4>2. list[p] \in Seq(Names) /\ list[p] # <<>>
        BY <1>3, <3>2 DEF TypeOK, Exhausted
      <4>3. f \in Names
        BY <4>1, <4>2
      <4>4. fin'[p] = [file |-> f, ino |-> pub[f]] /\ pub' = pub
        BY <1>3, <2>2, <3>2, <4>1 DEF Readdir, TypeOK, fs
      <4>5. fin'[p].file = f /\ fin'[p].ino = pub[f]
        BY <4>4
      <4> QED
        BY <1>3, <4>3, <4>4, <4>5
    <3> QED
      BY <3>1, <3>2
  <2>3. CASE Closeandremove(p)
    <3>1. fin'[q] = NoHandle
      BY <1>3, <2>3 DEF Closeandremove, TypeOK
    <3> QED
      BY <3>1 DEF NoHandle
  <2> QED
    BY <1>3, <2>1, <2>2, <2>3 DEF Consume
<1>4. CASE q = p /\ p \in Copiers /\ Copyfile(p)
  <2>1. CASE Newdirfails(p, "out") \/ Copy(p) \/ Copytime(p)
    BY <1>4, <2>1 DEF Newdirfails, Copy, Copytime
  <2>2. CASE Filesize(p)
    <3>1. PICK f \in Names : fin'[p] = [file |-> f, ino |-> 0]
      BY <1>4, <2>2 DEF Filesize, TypeOK
    <3>2. fin'[p].ino = 0
      BY <3>1
    <3> QED
      BY <1>4, <3>2
  <2>3. CASE Copyopen(p)
    <3>1. pc[p] = "open" /\ fin[p].file \in Names
      BY <1>4, <2>3, Parts DEF Copyopen, AtInv, CopierAt
    <3>2. CASE EndCopy(p)
      <4>1. fin'[p] = NoHandle
        BY <1>4, <3>2 DEF EndCopy, TypeOK
      <4> QED
        BY <1>4, <4>1 DEF NoHandle
    <3>3. CASE /\ fin' = [fin EXCEPT ![p].ino = pub[fin[p].file]]
               /\ Cofile_open(p, Dst, pub[fin[p].file])
      <4>1. PICK j : j = pub[fin[p].file]
        OBVIOUS
      <4>2. fin'[p] = [fin[p] EXCEPT !.ino = j]
        BY <1>4, <3>3, <4>1 DEF TypeOK
      <4>3. fin'[p].ino = j /\ fin'[p].file = fin[p].file
        BY <1>4, <4>2, Parts DEF InFile
      <4>4. pub' = pub
        BY <3>3 DEF Cofile_open
      <4> QED
        BY <1>4, <3>1, <4>1, <4>3, <4>4
    <3> QED
      BY <2>3, <3>2, <3>3 DEF Copyopen
  <2>4. CASE Copyclose(p)
    <3>1. fin'[p] = [fin[p] EXCEPT !.ino = 0]
      BY <1>4, <2>4 DEF Copyclose, TypeOK
    <3>2. fin'[p].ino = 0
      BY <1>4, <3>1, Parts DEF InFile
    <3> QED
      BY <1>4, <3>2
  <2> QED
    BY <1>4, <2>1, <2>2, <2>3, <2>4 DEF Copyfile
<1>5. CASE q = p /\ p \in Writers /\ Produce(p)
  BY <1>5, Roles
<1> QED
  BY <1>1, <1>2, <1>3, <1>4, <1>5 DEF Act

LEMMA HandlesStep ==
  ASSUME TypeOK, NamesApart, AtInv, HandlesInv, NEW p \in Procs, Act(p), ~clash'
  PROVE  HandlesInv'
<1> DEFINE O == Writers \cup Copiers
           I == Consumers \cup Copiers
<1>at. \A q \in O : fout[q].ino # 0 => fout[q].file \in Files
  BY Constants DEF AtInv, WriterAt, CopierAt, NoOut, Files
<1>1. CASE p \in O /\ \E f \in Files : Opens(p, f)
  <2>1. PICK f \in Files : Opens(p, f)
    BY <1>1
  <2>o. OpenLeaves(p, f)
    BY <1>1, <2>1, OpensEffect
  <2>2. PICK i \in 1 .. MaxIno : i = tmp'[f]
    BY <2>o DEF OpenLeaves
  <2>3. /\ \A q \in O : q # p => fout'[q] = fout[q] /\ fout[q].file # f
        /\ fout'[p] = [file |-> f, ino |-> tmp'[f], off |-> 0, bad |-> FALSE]
        /\ pub' = pub
    <3>1. clash' = (clash \/ \E q \in O : q # p /\ fout[q].file = f)
      BY <2>o DEF OpenLeaves
    <3>2. fout'[p] = [file |-> f, ino |-> tmp'[f], off |-> 0, bad |-> FALSE] /\ pub' = pub
      BY <2>o DEF OpenLeaves
    <3>3. \A q \in O : q # p => fout'[q] = fout[q]
      BY OthersSame DEF Same, Procs
    <3> QED
      BY <3>1, <3>2, <3>3
  <2>4. \A g \in Files : g # f => tmp'[g] = tmp[g]
    BY <2>o DEF OpenLeaves
  <2>5. tmp[f] = i \/ ~Linked(i)
    BY <2>2, <2>o DEF OpenLeaves
  <2>6. fout'[p].file = f /\ fout'[p].ino = tmp'[f]
    BY <2>3
  <2>7. \A q \in O : fout'[q].ino # 0 =>
          /\ fout'[q].ino = tmp'[fout'[q].file]
          /\ \A r \in O : fout'[r].file = fout'[q].file => r = q
    BY <1>at, <2>3, <2>4, <2>6 DEF HandlesInv
  <2>8. ASSUME NEW q \in I, fin'[q].ino # 0, NEW g \in Files PROVE fin'[q].ino # tmp'[g]
    <3>1. PICK n : n = fin'[q].ino
      OBVIOUS
    <3>2. fin[q].ino = n \/ \E h \in Files : n = pub[h]
      BY <2>8, <3>1, FinCases DEF Files
    <3>3. n # tmp[g]
      BY <2>8, <3>1, <3>2 DEF HandlesInv, NamesApart
    <3>4. CASE g # f
      BY <2>4, <3>1, <3>3, <3>4
    <3>5. CASE g = f /\ tmp[f] = i
      BY <2>2, <3>1, <3>3, <3>5
    <3>6. CASE g = f /\ ~Linked(i)
      <4>1. \A h \in Files : i # pub[h]
        BY <3>6 DEF Linked
      <4>2. i # fin[q].ino
        BY <3>6 DEF Linked
      <4> QED
        BY <2>2, <3>1, <3>2, <3>6, <4>1, <4>2
    <3> QED
      BY <2>5, <3>4, <3>5, <3>6
  <2> QED
    BY <2>7, <2>8 DEF HandlesInv
<1>2. CASE /\ clash' = clash
           /\ \A q \in O : fout'[q].ino = 0 \/ (fout'[q].ino = fout[q].ino /\ fout'[q].file = fout[q].file)
           /\ \A g \in Files : \/ tmp'[g] = tmp[g]
                               \/ /\ tmp'[g] = 0 /\ p \in O
                                  /\ fout[p].file = g /\ fout[p].ino # 0 /\ fout'[p].ino = 0
  <2>0. \A q \in O : q # p => fout'[q] = fout[q]
    BY OthersSame DEF Same, Procs
  <2>n. ASSUME NEW q \in O, NEW r \in O, fout'[q].ino # 0, fout'[r].file = fout'[q].file PROVE r = q
    <3>1. fout[q].ino # 0 /\ fout'[q].file = fout[q].file /\ fout[q].file \in Files
      BY <1>2, <1>at, <2>n
    <3>2. CASE r # p
      BY <2>0, <2>n, <3>1, <3>2 DEF HandlesInv
    <3>3. CASE r = p /\ fout'[r].ino # 0
      BY <1>2, <2>n, <3>1, <3>3 DEF HandlesInv
    <3>4. CASE r = p /\ fout'[r].ino = 0
      <4>1. r # q
        BY <2>n, <3>4
      <4>2. CASE fout'[r].file = fout[r].file
        BY <2>n, <3>1, <4>2 DEF HandlesInv
      <4>3. CASE fout'[r].file = NoFile
        BY <2>n, <3>1, <4>3, FilePublishAssumption DEF FilePublishAssumption, Files
      <4>4. fout'[r].file \in {fout[r].file, NoFile}
        <5>1. AtInv' 
          BY AtStep
        <5>2. WriterAt(r)' \/ CopierAt(r)'
          BY <5>1 DEF AtInv
        <5> QED
          BY <3>4, <5>2 DEF WriterAt, CopierAt, NoOut
      <4> QED
        BY <4>2, <4>3, <4>4
    <3> QED
      BY <3>2, <3>3, <3>4
  <2>1. ASSUME NEW q \in O, fout'[q].ino # 0 PROVE fout'[q].ino = tmp'[fout'[q].file]
    <3>1. fout[q].ino # 0 /\ fout'[q].file = fout[q].file /\ fout'[q].ino = fout[q].ino
      BY <1>2, <2>1
    <3>2. PICK g \in Files : g = fout[q].file
      BY <1>at, <3>1
    <3>3. tmp[g] = fout[q].ino
      BY <3>1, <3>2 DEF HandlesInv
    <3>4. tmp'[g] = tmp[g]
      BY <1>2, <2>1, <3>1, <3>2 DEF HandlesInv
    <3> QED
      BY <3>1, <3>2, <3>3, <3>4
  <2>2. ASSUME NEW q \in I, fin'[q].ino # 0, NEW g \in Files PROVE fin'[q].ino # tmp'[g]
    <3>1. PICK n : n = fin'[q].ino
      OBVIOUS
    <3>2. fin[q].ino = n \/ \E h \in Files : n = pub[h]
      BY <2>2, <3>1, FinCases DEF Files
    <3>3. n # tmp[g]
      BY <2>2, <3>1, <3>2 DEF HandlesInv, NamesApart
    <3> QED
      BY <1>2, <2>2, <3>1, <3>3
  <2> QED
    BY <2>n, <2>1, <2>2 DEF HandlesInv
<1> QED
  BY <1>1, <1>2, HandleCases

-----------------------------------------------------------------------------
\* What a step does to contents: only the file of the process's own cofile can
\* get another content, and only that and, in Copytime, the copy another time.
Stamps(p) == Copytime(p) /\ inode' # inode

LEMMA Content ==
  ASSUME TypeOK, AtInv, NEW p \in Procs, Act(p),
         NEW i \in 1 .. MaxIno, Linked(i)', p \in Writers \cup Copiers => fout'[p].ino # i
  PROVE  /\ inode'[i].data = inode[i].data /\ inode'[i].torn = inode[i].torn
         /\ (i # pub[Dst] \/ ~Stamps(p)) => inode'[i].time = inode[i].time
<1>1. CASE inode' = inode
  BY <1>1
<1>2. CASE Keep(inode)
  BY <1>2, KeptAll
<1>3. ASSUME NEW f \in Files, p \in Writers \cup Copiers, Opens(p, f)
      PROVE  inode'[i] = inode[i]
  <2>o. OpenLeaves(p, f)
    BY <1>3, OpensEffect
  <2>1. fout'[p] = [file |-> f, ino |-> tmp'[f], off |-> 0, bad |-> FALSE]
    BY <2>o DEF OpenLeaves
  <2>2. i # tmp'[f]
    BY <1>3, <2>1
  <2>3. \A j \in 1 .. MaxIno : j # tmp'[f] /\ Linked(j)' => inode'[j] = inode[j]
    BY <2>o DEF OpenLeaves
  <2> QED
    BY <2>2, <2>3
<1>4. ASSUME p \in Writers \cup Copiers, NEW b, NEW t, Cofile_write(p, b, t)
      PROVE  inode'[i] = inode[i]
  <2>1. fout'[p].ino = fout[p].ino
    BY <1>4, WriteLeaves
  <2>2. \A j \in 1 .. MaxIno : j # fout[p].ino /\ Linked(j)' => inode'[j] = inode[j]
    BY <1>4, WriteLeaves
  <2> QED
    BY <1>4, <2>1, <2>2
<1>5. CASE (p \in Writers /\ Write(p)) \/ (p \in Copiers /\ Copy(p))
  BY <1>4, <1>5 DEF Write, Copy
<1>6. CASE p \in Copiers /\ Copytime(p)
  <2>1. CASE inode' = inode
    BY <1>1, <2>1
  <2>2. CASE inode' # inode
    <3>1. PICK t : inode' = [inode EXCEPT ![pub[Dst]].time = t]
      BY <1>6, <2>2 DEF Copytime
    <3>2. CASE i = pub[Dst]
      <4>1. inode'[i] = [inode[i] EXCEPT !.time = t]
        BY <3>1, <3>2 DEF TypeOK
      <4>2. inode'[i].data = inode[i].data /\ inode'[i].torn = inode[i].torn
        BY <4>1, Parts DEF Inode
      <4> QED
        BY <1>6, <2>2, <3>2, <4>2 DEF Stamps
    <3>3. CASE i # pub[Dst]
      BY <3>1, <3>3 DEF TypeOK
    <3> QED
      BY <3>2, <3>3
  <2> QED
    BY <2>1, <2>2
<1>7. CASE p \in Writers /\ Produce(p)
  <2>1. CASE Open(p)
    BY <1>3, <1>7, <2>1, WriterOpens
  <2>2. CASE Closeandrename(p)
    BY <1>2, <2>2 DEF Closeandrename, Cofile_closeandrename
  <2>4. CASE Close(p)
    BY <1>2, <2>4 DEF Close, Cofile_close
  <2>3. CASE Write(p)
    BY <1>5, <1>7, <2>3
  <2> QED
    BY <1>7, <2>1, <2>2, <2>3, <2>4 DEF Produce
<1>8. CASE p \in Consumers /\ Consume(p)
  BY <1>1, <1>2, <1>8 DEF Consume, Newdirfails, Opendir, Readdir, Read, Closeandremove, fs
<1>9. CASE p \in Copiers /\ Copyfile(p)
  <2>1. CASE Newdirfails(p, "out") \/ Filesize(p)
    BY <1>1, <2>1 DEF Newdirfails, Filesize, fs
  <2>2. CASE Copyopen(p)
    <3>1. Dst \in Files
      BY DEF Files
    <3>2. fin[p].file \in Names
      BY <1>9, <2>2, Parts DEF Copyopen, AtInv, CopierAt
    <3> QED
      BY <1>1, <1>3, <1>9, <2>2, <3>1, <3>2, CopierOpens DEF fs
  <2>3. CASE Copyclose(p)
    BY <1>2, <2>3 DEF Copyclose, Cofile_closeandrename
  <2> QED
    BY <1>5, <1>6, <1>9, <2>1, <2>2, <2>3 DEF Copyfile
<1>10. CASE Die(p)
  BY <1>2, <1>10 DEF Die
<1> QED
  BY <1>7, <1>8, <1>9, <1>10 DEF Act

LEMMA PubContent ==
  ASSUME TypeOK, NamesApart, AtInv, HandlesInv, NEW p \in Procs, Act(p), ~clash',
         NEW f \in Files, NEW i \in 1 .. MaxIno, i = pub'[f]
  PROVE  /\ inode'[i].data = inode[i].data /\ inode'[i].torn = inode[i].torn
         /\ (i # pub[Dst] \/ ~Stamps(p)) => inode'[i].time = inode[i].time
<1>1. HandlesInv' /\ NamesApart' /\ TypeOK' /\ AtInv'
  BY HandlesStep, NamesStep, TypeStep, AtStep DEF Next, Act
<1>2. Linked(i)'
  BY DEF Linked
<1>3. ASSUME p \in Writers \cup Copiers, fout'[p].ino = i PROVE FALSE
  <2>1. fout'[p].ino = tmp'[fout'[p].file]
    BY <1>1, <1>3, Constants DEF HandlesInv
  <2>2. fout'[p].file \in Files
    BY <1>1, <1>3, Constants DEF AtInv, WriterAt, CopierAt, NoOut, Files
  <2>3. PICK g \in Files : g = fout'[p].file
    BY <2>2
  <2>4. tmp'[g] = i /\ pub'[f] = i /\ i # 0
    BY <1>3, <2>1, <2>3, Constants
  <2> QED
    BY <1>1, <2>4 DEF NamesApart
<1> QED
  BY <1>2, <1>3, Content

LEMMA FinContent ==
  ASSUME TypeOK, NamesApart, AtInv, HandlesInv, NEW p \in Procs, Act(p), ~clash',
         NEW q \in Consumers \cup Copiers, NEW i \in 1 .. MaxIno, i = fin'[q].ino
  PROVE  inode'[i].data = inode[i].data /\ inode'[i].torn = inode[i].torn
<1>1. HandlesInv' /\ TypeOK' /\ AtInv'
  BY HandlesStep, TypeStep, AtStep DEF Next, Act
<1>2. Linked(i)'
  BY DEF Linked
<1>3. ASSUME p \in Writers \cup Copiers, fout'[p].ino = i PROVE FALSE
  <2>1. fout'[p].ino = tmp'[fout'[p].file]
    BY <1>1, <1>3, Constants DEF HandlesInv
  <2>2. fout'[p].file \in Files
    BY <1>1, <1>3, Constants DEF AtInv, WriterAt, CopierAt, NoOut, Files
  <2>3. PICK g \in Files : g = fout'[p].file
    BY <2>2
  <2>4. tmp'[g] = i /\ fin'[q].ino = i /\ i # 0
    BY <1>3, <2>1, <2>3, Constants
  <2> QED
    BY <1>1, <2>4 DEF HandlesInv
<1> QED
  BY <1>2, <1>3, Content

\* What another process has written into its cofile stays there.
LEMMA FoutContent ==
  ASSUME TypeOK, NamesApart, AtInv, HandlesInv, NEW p \in Procs, Act(p), ~clash',
         NEW q \in Writers \cup Copiers, q # p, NEW i \in 1 .. MaxIno, i = fout[q].ino
  PROVE  inode'[i].data = inode[i].data /\ inode'[i].torn = inode[i].torn
<1>1. HandlesInv' /\ NamesApart' /\ TypeOK' /\ AtInv'
  BY HandlesStep, NamesStep, TypeStep, AtStep DEF Next, Act
<1>0. fout'[q] = fout[q]
  BY OthersSame DEF Same, Procs
<1>2. Linked(i)'
  BY <1>0 DEF Linked
<1>3. ASSUME p \in Writers \cup Copiers, fout'[p].ino = i PROVE FALSE
  <2>1. fout'[p].ino = tmp'[fout'[p].file] /\ fout'[q].ino = tmp'[fout'[q].file] /\ fout'[q].ino # 0
    BY <1>0, <1>1, <1>3, Constants DEF HandlesInv
  <2>2. fout'[p].file \in Files /\ fout'[q].file \in Files
    BY <1>0, <1>1, <1>3, Constants DEF AtInv, WriterAt, CopierAt, NoOut, Files
  <2>3. fout'[p].file = fout'[q].file
    <3>1. PICK g \in Files, h \in Files : g = fout'[p].file /\ h = fout'[q].file
      BY <2>2
    <3>2. tmp'[g] = i /\ tmp'[h] = i /\ i # 0
      BY <1>0, <1>3, <2>1, <3>1, Constants
    <3>3. g = h
      BY <1>1, <3>2 DEF NamesApart
    <3> QED
      BY <3>1, <3>3
  <2> QED
    BY <1>1, <1>3, <2>1, <2>3 DEF HandlesInv
<1> QED
  BY <1>2, <1>3, Content

-----------------------------------------------------------------------------
\* What a step does to the history variables and to what names mean.
Contents(data) == {v \in Versions : data = Whole(v)}

LEMMA VersionsHere == \A i : VersionsAt(i) = IF i = 0 THEN {} ELSE Contents(inode[i].data)
BY DEF VersionsAt, Contents

\* What copies may come to be when a copier is done with its own.
Overtaken(k) == IF spoilt[k] = "no" THEN {"no", "late", "failed"} ELSE {spoilt[k]}

LEMMA MovedCases ==
  ASSUME TypeOK, AtInv, NEW p \in Procs, Act(p)
  PROVE  \/ spoilt' = spoilt
         \/ \E f \in Names : Rebind(f)
         \/ p \in Copiers /\ \A k \in Copiers : spoilt'[k] \in Overtaken(k)
<1>1. CASE p \in Writers /\ Produce(p)
  <2>1. WriterAt(p)
    BY <1>1 DEF AtInv
  <2> QED
    BY <1>1, <2>1 DEF Produce, Open, Write, Closeandrename, Close, WriterAt
<1>2. CASE p \in Consumers /\ Consume(p)
  <2>1. ConsumerAt(p)
    BY <1>2 DEF AtInv
  <2>2. CASE Closeandremove(p)
    BY <2>1, <2>2 DEF Closeandremove, Removes, ConsumerAt
  <2> QED
    BY <1>2, <2>2 DEF Consume, Newdirfails, Opendir, Readdir, Read
<1>3. CASE p \in Copiers /\ Copyfile(p)
  <2>1. ASSUME NEW o, NEW n, Overtake(p, o, n)
        PROVE  \A k \in Copiers : spoilt'[k] \in Overtaken(k)
    BY <2>1 DEF Overtake, Overtaken
  <2>2. CASE Copyclose(p)
    BY <1>3, <2>1, <2>2 DEF Copyclose
  <2>3. CASE Copytime(p)
    BY <1>3, <2>1, <2>3 DEF Copytime
  <2> QED
    BY <1>3, <2>2, <2>3 DEF Copyfile, Newdirfails, Filesize, Copyopen, Copy
<1>4. CASE Die(p)
  BY <1>4 DEF Die
<1> QED
  BY <1>1, <1>2, <1>3, <1>4 DEF Act

LEMMA MovedStays ==
  ASSUME TypeOK, AtInv, NEW p \in Procs, Act(p), NEW k \in Copiers
  PROVE  /\ spoilt[k] = "early" => spoilt'[k] = "early"
         /\ spoilt'[k] = "no" => spoilt[k] = "no"
         /\ spoilt'[k] = "early" => spoilt[k] = "early" \/ pc[k] = "open"
<1>0. spoilt \in [Copiers -> {"no", "late", "early", "failed"}]
  BY DEF TypeOK
<1>1. ASSUME NEW f \in Names, Rebind(f)
      PROVE  spoilt'[k] = IF fin[k].file # f \/ (pc[k] # "open" /\ spoilt[k] # "no") THEN spoilt[k]
                         ELSE IF pc[k] = "open" THEN "early" ELSE "late"
  BY <1>1 DEF Rebind
<1> QED
  BY <1>0, <1>1, MovedCases DEF Overtaken

LEMMA HistoryStays ==
  ASSUME TypeOK, AtInv, NEW p \in Procs, Act(p)
  PROVE  /\ issued \subseteq issued' /\ read \subseteq read'
         /\ replaced \subseteq replaced' /\ raced \subseteq raced'
         /\ clash => clash'
<1>1. CASE p \in Writers /\ Produce(p)
  <2>1. CASE Open(p)
    BY <2>1 DEF Open, fate, Cofile_open
  <2>2. CASE Write(p) \/ Close(p)
    BY <2>2 DEF Write, Close, fate
  <2>3. CASE Closeandrename(p)
    BY <2>3 DEF Closeandrename
  <2> QED
    BY <1>1, <2>1, <2>2, <2>3 DEF Produce
<1>2. CASE p \in Consumers /\ Consume(p)
  BY <1>2 DEF Consume, Newdirfails, Opendir, Readdir, Read, Closeandremove, fate
<1>3. CASE p \in Copiers /\ Copyfile(p)
  <2>1. UNCHANGED fate
    BY <1>3 DEF Copyfile, Newdirfails, Filesize, Copyopen, Copy, Copyclose, Copytime
  <2>2. clash => clash'
    <3>1. CASE Copyopen(p)
      BY <3>1 DEF Copyopen, Cofile_open
    <3> QED
      BY <1>3, <3>1 DEF Copyfile, Newdirfails, Filesize, Copy, Copyclose, Copytime
  <2> QED
    BY <2>1, <2>2 DEF fate
<1>4. CASE Die(p)
  BY <1>4 DEF Die, fate
<1> QED
  BY <1>1, <1>2, <1>3, <1>4 DEF Act

\* Who changes what a name means.
LEMMA PubCases ==
  ASSUME TypeOK, AtInv, NEW p \in Procs, Act(p), NEW f \in Files, pub'[f] # pub[f]
  PROVE  \/ /\ p \in Writers /\ Closeandrename(p) /\ fout[p].file = f /\ f \in Names
            /\ tmp[f] # 0 /\ pub'[f] = tmp[f] /\ Rebind(f)
         \/ /\ p \in Copiers /\ Copyclose(p) /\ fout[p].file = f /\ f = Dst
            /\ tmp[f] # 0 /\ pub'[f] = tmp[f]
         \/ /\ Removes_name(p) /\ fin[p].file = f /\ f \in Names /\ pub'[f] = 0 /\ Rebind(f)
<1>1. CASE Renames(p)
  <2>1. PICK g : g = fout[p].file
    OBVIOUS
  <2>2. /\ \A h \in Files : h # g => pub'[h] = pub[h]
        /\ \/ tmp[g] # 0 /\ pub'[g] = tmp[g]
           \/ pub' = pub
    BY <1>1, <2>1, RenamesEffect
  <2>3. f = g /\ tmp[f] # 0 /\ pub'[f] = tmp[f]
    BY <2>2
  <2> QED
    BY <1>1, <2>1, <2>3 DEF Renames, Closeandrename
<1>2. CASE Removes_name(p)
  <2>1. PICK g : g = fin[p].file
    OBVIOUS
  <2>2. /\ \A h \in Files : h # g => pub'[h] = pub[h]
        /\ pub'[g] = 0 /\ g \in Names
    BY <1>2, <2>1, RemovesEffect
  <2>3. f = g
    BY <2>2
  <2> QED
    BY <1>2, <2>1, <2>2, <2>3 DEF Removes_name, Closeandremove, Removes
<1>3. CASE pub' # pub /\ ~Renames(p) /\ ~Removes_name(p)
  BY <1>3, NameCases DEF NameStep, Opens, Cofile_open, Cofile_close, Close
<1> QED
  BY <1>1, <1>2, <1>3

-----------------------------------------------------------------------------
\* The contents: what writers and copiers have written.
LEMMA WriteStep ==
  ASSUME TypeOK, NamesApart, AtInv, HandlesInv, WriteInv, NEW p \in Procs, Act(p), ~clash'
  PROVE  WriteInv'
<1> SUFFICES ASSUME NEW w \in Writers, pc'[w] = "write" PROVE Written(w)'
  BY DEF WriteInv
<1>w. w \in Procs /\ w \in Writers \cup Copiers /\ WriterAt(w) /\ WriterAt(w)'
  BY AtStep DEF Procs, AtInv
<1>1. CASE w # p
  <2>1. pc'[w] = pc[w] /\ fout'[w] = fout[w] /\ wver'[w] = wver[w]
    BY <1>1, <1>w, OthersSame DEF Same
  <2>2. PICK i \in 1 .. MaxIno : i = fout[w].ino
    BY <1>w, <2>1, Parts DEF WriterAt
  <2>3. inode'[i].data = inode[i].data /\ inode'[i].torn = inode[i].torn
    BY <1>1, <1>w, <2>2, FoutContent
  <2>4. Written(w)
    BY <2>1 DEF WriteInv
  <2> QED
    BY <2>1, <2>2, <2>3, <2>4 DEF Written
<1>2. CASE w = p /\ Open(w)
  <2>1. PICK f \in Names : f \in Files /\ Opens(w, f)
    BY <1>2, WriterOpens
  <2>o. OpenLeaves(w, f)
    BY <1>w, <2>1, OpensEffect
  <2>2. /\ fout'[w] = [file |-> f, ino |-> tmp'[f], off |-> 0, bad |-> FALSE]
        /\ inode'[tmp'[f]].data = <<>>
    BY <2>o DEF OpenLeaves
  <2>3. fout'[w].off = 0 /\ fout'[w].bad = FALSE /\ inode'[fout'[w].ino].data = <<>>
    BY <2>2
  <2>4. wver'[w] \in Versions
    BY <1>w DEF WriterAt
  <2>5. 0 <= Size[wver'[w]]
    BY <2>4, Constants
  <2>6. <<>> = [i \in 1 .. 0 |-> <<wver'[w], i>>]
    OBVIOUS
  <2> QED
    BY <2>3, <2>5, <2>6 DEF Written
<1>3. CASE w = p /\ Write(w)
  <2>1. fout[w].ino # 0 /\ wver[w] \in Versions /\ fout[w].off \in Nat /\ pc[w] = "write"
    BY <1>3, <1>w, Parts DEF Write, WriterAt
  <2>2. PICK b : b = <<wver[w], fout[w].off + 1>>
    OBVIOUS
  <2>3. b \in Block /\ wver[w] \in Unset .. Len(Size)
    <3>1. wver[w] \in 0 .. Len(Size) /\ wver[w] \in Unset .. Len(Size) /\ fout[w].off + 1 \in Nat
      BY <2>1, Constants DEF Unset
    <3> QED
      BY <2>2, <3>1 DEF Block
  <2>4. /\ fout'[w].ino = fout[w].ino /\ fout'[w].off = fout[w].off + 1
        /\ IF fout'[w].bad THEN inode'[fout[w].ino].torn
           ELSE /\ ~fout[w].bad
                /\ inode'[fout[w].ino].data = Put(inode[fout[w].ino].data, fout[w].off, b)
    BY <1>3, <1>w, <2>1, <2>2, <2>3, WriteEffect DEF Write
  <2>5. wver' = wver /\ fout[w].off < Size[wver[w]]
    BY <1>3 DEF Write
  <2>6. PICK n \in Nat, d \in Seq(Block) : n = fout[w].off /\ d = inode[fout[w].ino].data
    BY <1>w, <2>1, Parts
  <2>13. fout'[w].off <= Size[wver'[w]]
    BY <2>1, <2>4, <2>5, Constants
  <2>b. CASE fout'[w].bad
    BY <2>4, <2>13, <2>b DEF Written
  <2>g. SUFFICES ASSUME ~fout'[w].bad PROVE Written(w)'
    BY <2>b
  <2>7. d = [i \in 1 .. n |-> <<wver[w], i>>]
    BY <2>1, <2>4, <2>6, <2>g DEF WriteInv, Written
  <2>8. Len(d) = n
    BY <2>7
  <2>9. Put(d, n, b) = [i \in 1 .. n + 1 |-> IF i = n + 1 THEN b ELSE d[i]]
    <3>1. Put(d, Len(d), b) = [i \in 1 .. Len(d) + 1 |-> IF i = Len(d) + 1 THEN b ELSE d[i]]
      BY <2>3, PutAtEnd
    <3> QED
      BY <3>1, <2>8
  <2>10. \A i \in 1 .. n + 1 : (IF i = n + 1 THEN b ELSE d[i]) = <<wver[w], i>>
    BY <2>2, <2>6, <2>7
  <2>11. Put(d, n, b) = [i \in 1 .. n + 1 |-> <<wver[w], i>>]
    BY <2>9, <2>10
  <2>12. inode'[fout'[w].ino].data = [i \in 1 .. fout'[w].off |-> <<wver'[w], i>>]
    BY <2>4, <2>5, <2>6, <2>11, <2>g
  <2> QED
    BY <2>12, <2>13, <2>g DEF Written
<1>4. CASE w = p /\ (Closeandrename(w) \/ Close(w) \/ Die(w))
  <2>1. Goto(w, "idle")
    BY <1>4 DEF Closeandrename, Close, Die
  <2>2. pc'[w] = "idle"
    BY <1>w, <2>1 DEF Goto, TypeOK
  <2> QED
    BY <2>2
<1> QED
  BY <1>1, <1>2, <1>3, <1>4, Roles DEF Act, Produce

\* What a copier relies on while others act.
LEMMA SourceKept ==
  ASSUME TypeOK, AtInv, NEW p \in Procs, Act(p), NEW k \in Copiers, fin[k].file \in Names,
         spoilt'[k] # "early", pc[k] # "open" => spoilt'[k] = "no"
  PROVE  pub'[fin[k].file] = pub[fin[k].file]
<1> SUFFICES ASSUME pub'[fin[k].file] # pub[fin[k].file] PROVE FALSE
  OBVIOUS
<1>1. PICK f \in Names : f = fin[k].file
  OBVIOUS
<1>2. f \in Files /\ f # Dst
  BY Constants, FilePublishAssumption DEF FilePublishAssumption
<1>3. Rebind(f)
  BY <1>1, <1>2, PubCases
<1>4. spoilt'[k] = IF pc[k] # "open" /\ spoilt[k] # "no" THEN spoilt[k]
                  ELSE IF pc[k] = "open" THEN "early" ELSE "late"
  BY <1>1, <1>3 DEF Rebind
<1> QED
  BY <1>4

LEMMA CopyKept ==
  ASSUME TypeOK, AtInv, NEW p \in Procs, Act(p), NEW k \in Copiers, k # p,
         pc[k] \in {"stamp", "copied"}, spoilt'[k] = "no"
  PROVE  pub'[Dst] = pub[Dst] /\ ~Stamps(p)
<1>1. spoilt[k] = "no"
  BY MovedStays
<1>2. ASSUME NEW n, Overtake(p, TRUE, n) PROVE FALSE
  <2>1. spoilt'[k] = "late"
    BY <1>1, <1>2 DEF Overtake
  <2> QED
    BY <2>1
<1>3. Dst \in Files /\ Dst \notin Names
  BY FilePublishAssumption DEF FilePublishAssumption, Files
<1>4. ASSUME Copyclose(p), pub'[Dst] # pub[Dst] PROVE FALSE
  <2>1. Overtake(p, pub' # pub, pub' = pub \/ fout[p].bad)
    BY <1>4 DEF Copyclose
  <2>2. (pub' # pub) = TRUE
    BY <1>4
  <2> QED
    BY <1>2, <2>1, <2>2
<1>5. ASSUME Stamps(p) PROVE FALSE
  BY <1>2, <1>5 DEF Stamps, Copytime
<1> QED
  BY <1>3, <1>4, <1>5, PubCases

LEMMA CopyOthers ==
  ASSUME TypeOK, NamesApart, AtInv, HandlesInv, CopyInv,
         NEW p \in Procs, Act(p), ~clash', NEW k \in Copiers, k # p
  PROVE  /\ pc'[k] = "open" /\ spoilt'[k] # "early" => SizeRead(k)'
         /\ pc'[k] = "copy" => CopiedSoFar(k)'
         /\ pc'[k] \in {"stamp", "copied"} /\ spoilt'[k] = "no" => CopyMade(k)'
<1>w. k \in Procs /\ k \in Writers \cup Copiers /\ k \in Consumers \cup Copiers /\ CopierAt(k)
  BY DEF Procs, AtInv
<1>s. pc'[k] = pc[k] /\ fout'[k] = fout[k] /\ fin'[k] = fin[k] /\ ksize'[k] = ksize[k]
  BY <1>w, OthersSame DEF Same
<1>f. pc[k] \in {"open", "copy", "stamp", "copied"} => fin[k].file \in Names
  BY <1>w, Parts DEF CopierAt
<1>n. TypeOK' /\ NamesApart' /\ \A f \in Names : f \in Files /\ f # Dst
  BY NamesStep, TypeStep, Constants, FilePublishAssumption DEF FilePublishAssumption, Next, Act
<1>1. ASSUME pc[k] = "open", spoilt'[k] # "early" PROVE SizeRead(k)'
  <2>1. PICK f \in Names : f = fin[k].file
    BY <1>1, <1>f
  <2>2. pub'[f] = pub[f]
    BY <1>1, <2>1, SourceKept
  <2>3. spoilt[k] # "early"
    BY <1>1, MovedStays
  <2>4. SizeRead(k)
    BY <1>1, <2>3 DEF CopyInv
  <2>5. CASE pub[f] = 0
    BY <1>s, <2>1, <2>2, <2>4, <2>5 DEF SizeRead
  <2>6. CASE pub[f] # 0
    <3>1. PICK i \in 1 .. MaxIno : i = pub[f]
      BY <1>n, <2>6, Parts
    <3>2. inode'[i].data = inode[i].data
      BY <1>n, <2>2, <3>1, PubContent
    <3> QED
      BY <1>s, <2>1, <2>2, <2>4, <2>6, <3>1, <3>2 DEF SizeRead
  <2> QED
    BY <2>5, <2>6
<1>2. ASSUME pc[k] = "copy" PROVE CopiedSoFar(k)'
  <2>1. CopiedSoFar(k)
    BY <1>2 DEF CopyInv
  <2>2. PICK i \in 1 .. MaxIno, o \in 1 .. MaxIno : i = fin[k].ino /\ o = fout[k].ino
    BY <1>2, <1>w, Parts DEF CopierAt
  <2>3. inode'[i].data = inode[i].data
    BY <1>s, <1>w, <2>2, FinContent
  <2>4. inode'[o].data = inode[o].data /\ inode'[o].torn = inode[o].torn
    BY <1>w, <2>2, FoutContent
  <2>5. VersionsAt(fin[k].ino)' = VersionsAt(fin[k].ino)
    BY <1>s, <2>2, <2>3 DEF VersionsAt
  <2>6. spoilt'[k] # "early" => ksize[k] = Len(inode[i].data)
    BY <1>2, <2>1, <2>2, MovedStays DEF CopiedSoFar
  <2>7. spoilt'[k] = "no" => pub'[fin[k].file] = fin[k].ino
    BY <1>2, <1>f, <2>1, MovedStays, SourceKept DEF CopiedSoFar
  <2> QED
    BY <1>s, <2>1, <2>2, <2>3, <2>4, <2>5, <2>6, <2>7 DEF CopiedSoFar
<1>3. ASSUME pc[k] \in {"stamp", "copied"}, spoilt'[k] = "no" PROVE CopyMade(k)'
  <2>1. CopyMade(k)
    BY <1>3, MovedStays DEF CopyInv
  <2>2. PICK f \in Names : f = fin[k].file
    BY <1>3, <1>f
  <2>3. pub'[f] = pub[f] /\ pub'[Dst] = pub[Dst] /\ ~Stamps(p)
    BY <1>3, <2>2, SourceKept, CopyKept
  <2>4. Dst \in Files
    BY DEF Files
  <2>5. PICK i \in 1 .. MaxIno, j \in 1 .. MaxIno : i = pub[f] /\ j = pub[Dst]
    BY <1>n, <2>1, <2>2, <2>4, Parts DEF CopyMade
  <2>6. inode'[i].data = inode[i].data /\ inode'[i].time = inode[i].time
    BY <1>n, <2>3, <2>5, PubContent
  <2>7. inode'[j].data = inode[j].data /\ inode'[j].time = inode[j].time
    BY <2>3, <2>4, <2>5, PubContent
  <2> QED
    BY <1>s, <2>1, <2>2, <2>3, <2>5, <2>6, <2>7 DEF CopyMade
<1> QED
  BY <1>s, <1>1, <1>2, <1>3

\* What its own steps make of a copy.
LEMMA CopyOwn ==
  ASSUME TypeOK, NamesApart, AtInv, HandlesInv, CopyInv, WholeFiles, ~clash,
         NEW k \in Copiers, Act(k), ~clash'
  PROVE  /\ pc'[k] = "open" /\ spoilt'[k] # "early" => SizeRead(k)'
         /\ pc'[k] = "copy" => CopiedSoFar(k)'
         /\ pc'[k] \in {"stamp", "copied"} /\ spoilt'[k] = "no" => CopyMade(k)'
<1>w. k \in Procs /\ k \in Writers \cup Copiers /\ k \in Consumers \cup Copiers /\ CopierAt(k)
  BY DEF Procs, AtInv
<1>n. NamesApart' /\ Dst \in Files /\ \A f \in Names : f \in Files /\ f # Dst
  BY NamesStep, <1>w, Constants, FilePublishAssumption DEF FilePublishAssumption, Files
<1>pc. \A l : Goto(k, l) => pc'[k] = l
  BY <1>w DEF Goto, TypeOK
<1>f. pc[k] \in {"open", "copy", "stamp", "copied"} => fin[k].file \in Names
  BY <1>w, Parts DEF CopierAt
<1>1. CASE Newdirfails(k, "out") \/ Die(k)
  <2>1. pc'[k] \in {"idle", "mkdir"}
    BY <1>1, <1>pc DEF Newdirfails, Access, Mkdirfails, Die
  <2> QED
    BY <2>1
<1>2. CASE Filesize(k)
  <2>1. pc'[k] = "open" /\ UNCHANGED <<pub, inode>>
    BY <1>2, <1>pc DEF Filesize
  <2>2. PICK f \in Names :
          /\ fin' = [fin EXCEPT ![k] = [file |-> f, ino |-> 0]]
          /\ ksize' = [ksize EXCEPT ![k] = IF pub[f] = 0 THEN -1 ELSE Len(inode[pub[f]].data)]
    BY <1>2 DEF Filesize
  <2>3. fin'[k] = [file |-> f, ino |-> 0]
    BY <1>w, <2>2 DEF TypeOK
  <2>4. ksize'[k] = IF pub[f] = 0 THEN -1 ELSE Len(inode[pub[f]].data)
    BY <2>2 DEF TypeOK
  <2>5. fin'[k].file = f
    BY <2>3
  <2> QED
    BY <2>1, <2>4, <2>5 DEF SizeRead
<1>3. CASE Copyopen(k)
  <2>1. pc[k] = "open" /\ spoilt' = spoilt
    BY <1>3 DEF Copyopen
  <2>2. CASE Goto(k, "idle")
    BY <1>pc, <2>2
  <2>3. CASE /\ pub[fin[k].file] # 0
             /\ fin' = [fin EXCEPT ![k].ino = pub[fin[k].file]] /\ Goto(k, "copy")
             /\ Opens(k, Dst) /\ UNCHANGED ksize
             /\ Torn(pub[fin[k].file]) => inode'[tmp'[Dst]].torn
    <3>1. PICK f \in Names : f = fin[k].file
      BY <1>f, <2>1
    <3>2. PICK i \in 1 .. MaxIno : i = pub[f]
      BY <1>n, <2>3, <3>1, Parts
    <3>3. fin'[k].ino = i /\ fin'[k].file = f
      <4>1. fin'[k] = [fin[k] EXCEPT !.ino = i]
        BY <1>w, <2>3, <3>1, <3>2 DEF TypeOK
      <4> QED
        BY <1>w, <3>1, <4>1, Parts DEF InFile
    <3>o. OpenLeaves(k, Dst)
      BY <1>n, <1>w, <2>3, OpensEffect
    <3>4. /\ fout'[k] = [file |-> Dst, ino |-> tmp'[Dst], off |-> 0, bad |-> FALSE]
          /\ inode'[tmp'[Dst]].data = <<>> /\ pub' = pub
      BY <3>o DEF OpenLeaves
    <3>5. /\ fout'[k].off = 0 /\ fout'[k].bad = FALSE /\ fout'[k].ino = tmp'[Dst]
          /\ inode'[fout'[k].ino].data = <<>>
      BY <3>4
    <3>6. pub' = pub
      BY <3>4
    <3>7. inode'[i].data = inode[i].data
      BY <1>n, <1>w, <3>2, <3>6, PubContent
    <3>8. VersionsAt(i) # {} \/ inode[i].torn
      <4>1. VersionsAt(pub[f]) # {} \/ inode[pub[f]].torn
        BY <1>n, <3>2, Constants DEF WholeFiles
      <4> QED
        BY <3>2, <4>1
    <3>t. inode[i].torn => inode'[fout'[k].ino].torn
      BY <2>3, <3>1, <3>2, <3>5, Constants DEF Torn
    <3>9. VersionsAt(fin[k].ino)' # {} \/ inode'[fout'[k].ino].torn
      BY <3>3, <3>7, <3>8, <3>t DEF VersionsAt
    <3>10. spoilt'[k] # "early" => ksize'[k] = Len(inode'[i].data)
      BY <2>1, <2>3, <3>1, <3>2, <3>7, Constants DEF CopyInv, SizeRead
    <3>11. \A d : <<>> = [j \in 1 .. 0 |-> IF j <= Len(d) THEN d[j] ELSE Zero]
      OBVIOUS
    <3>12. pub'[f] = i
      BY <3>2, <3>6
    <3>13. CopiedSoFar(k)'
      BY <3>3, <3>5, <3>9, <3>10, <3>11, <3>12 DEF CopiedSoFar
    <3>14. pc'[k] = "copy"
      BY <1>pc, <2>3
    <3> QED
      BY <3>13, <3>14
  <2> QED
    BY <1>3, <1>f, <2>1, <2>2, <2>3, CopierOpens
<1>4. CASE Copy(k)
  <2>1. pc[k] = "copy" /\ pc' = pc /\ spoilt' = spoilt /\ fin' = fin /\ ksize' = ksize
        /\ ~(fout[k].off >= ksize[k])
    BY <1>4 DEF Copy, Copied
  <2>2. CopiedSoFar(k) /\ fout[k].ino # 0 /\ fin[k].ino # 0
    BY <1>w, <2>1 DEF CopyInv, CopierAt
  <2>3. PICK i \in 1 .. MaxIno, o \in 1 .. MaxIno : i = fin[k].ino /\ o = fout[k].ino
    BY <1>w, <2>2, Parts
  <2>4. PICK n \in Nat, src \in Seq(Block), d \in Seq(Block) :
          n = fout[k].off /\ src = inode[i].data /\ d = inode[o].data
    BY <1>w, Parts
  <2>5. PICK b : b = IF n < Len(src) THEN src[n + 1] ELSE Zero
    OBVIOUS
  <2>6. b \in Block
    BY <2>5, Constants
  <2>7. Cofile_write(k, b, Now)
    BY <1>4, <2>3, <2>4, <2>5 DEF Copy
  <2>8. /\ fout'[k].ino = o /\ fout'[k].off = n + 1 /\ pub' = pub
        /\ IF fout'[k].bad THEN inode'[o].torn
           ELSE ~fout[k].bad /\ inode'[o].data = Put(d, n, b)
        /\ inode[o].torn => inode'[o].torn
    BY <1>w, <2>2, <2>3, <2>4, <2>6, <2>7, WriteEffect, Constants
  <2>14. inode'[i].data = src
    BY <1>w, <2>1, <2>3, <2>4, FinContent
  <2>15. VersionsAt(fin[k].ino)' # {} \/ inode'[o].torn
    BY <2>1, <2>2, <2>3, <2>4, <2>8, <2>14 DEF CopiedSoFar, VersionsAt
  <2>16. ksize[k] \in Int /\ n + 1 <= ksize[k]
    BY <2>1, <2>4 DEF TypeOK
  <2>b. CASE fout'[k].bad
    <3>1. CopiedSoFar(k)'
      BY <2>1, <2>2, <2>3, <2>4, <2>8, <2>14, <2>15, <2>16, <2>b DEF CopiedSoFar
    <3> QED
      BY <2>1, <3>1
  <2>g. SUFFICES ASSUME ~fout'[k].bad PROVE CopiedSoFar(k)'
    BY <2>1, <2>b
  <2>9. d = [j \in 1 .. n |-> IF j <= Len(src) THEN src[j] ELSE Zero]
    BY <2>2, <2>3, <2>4, <2>8, <2>g DEF CopiedSoFar
  <2>10. Len(d) = n
    BY <2>9
  <2>11. Put(d, n, b) = [j \in 1 .. n + 1 |-> IF j = n + 1 THEN b ELSE d[j]]
    <3>1. Put(d, Len(d), b) = [j \in 1 .. Len(d) + 1 |-> IF j = Len(d) + 1 THEN b ELSE d[j]]
      BY <2>6, PutAtEnd
    <3> QED
      BY <3>1, <2>10
  <2>12. \A j \in 1 .. n + 1 : (IF j = n + 1 THEN b ELSE d[j]) = IF j <= Len(src) THEN src[j] ELSE Zero
    BY <2>5, <2>9
  <2>13. Put(d, n, b) = [j \in 1 .. n + 1 |-> IF j <= Len(src) THEN src[j] ELSE Zero]
    BY <2>11, <2>12
  <2> QED
    BY <2>1, <2>2, <2>3, <2>4, <2>8, <2>13, <2>14, <2>15, <2>16, <2>g DEF CopiedSoFar
<1>5. CASE Copyclose(k)
  <2>1. pc[k] = "copy" /\ fout[k].off >= ksize[k] /\ ksize' = ksize
    BY <1>5 DEF Copyclose, Copied
  <2>2. CopiedSoFar(k) /\ fout[k].ino # 0 /\ fin[k].ino # 0 /\ fout[k].file = Dst
    BY <1>w, <2>1 DEF CopyInv, CopierAt
  <2>3. PICK i \in 1 .. MaxIno, o \in 1 .. MaxIno : i = fin[k].ino /\ o = fout[k].ino
    BY <1>w, <2>2, Parts
  <2>4. PICK n \in Nat, src \in Seq(Block) : n = fout[k].off /\ src = inode[i].data
    BY <1>w, Parts
  <2>5. PICK f \in Names : f = fin[k].file
    BY <1>f, <2>1
  <2>6. fin'[k].file = f
    <3>1. fin'[k] = [fin[k] EXCEPT !.ino = 0]
      BY <1>5, <1>w DEF Copyclose, TypeOK
    <3> QED
      BY <1>w, <2>5, <3>1, Parts DEF InFile
  <2>7. tmp[Dst] = o
    BY <1>w, <2>2, <2>3 DEF HandlesInv
  <2>8. /\ pub'[Dst] = o \/ pub' = pub
        /\ \A g \in Files : g # Dst => pub'[g] = pub[g]
    BY <1>5, <1>n, <1>w, <2>2, <2>7, RenameEffect DEF Copyclose
  <2>9. pc'[k] = "stamp"
    BY <1>5, <1>pc DEF Copyclose
  <2>10. ASSUME spoilt'[k] = "no" PROVE CopyMade(k)'
    <3>1. spoilt[k] = "no"
      BY <1>w, <2>10, MovedStays
    <3>u. pub' # pub /\ ~fout[k].bad
      <4>1. Overtake(k, pub' # pub, pub' = pub \/ fout[k].bad)
        BY <1>5 DEF Copyclose
      <4>2. spoilt'[k] = IF pub' = pub \/ fout[k].bad THEN "failed" ELSE "no"
        BY <3>1, <4>1 DEF Overtake
      <4> QED
        BY <2>10, <4>2
    <3>p. pub'[Dst] = o
      BY <2>8, <3>u
    <3>2. pub[f] = i /\ ksize[k] = Len(src)
      BY <2>2, <2>3, <2>4, <2>5, <3>1 DEF CopiedSoFar
    <3>3. pub'[f] = i
      BY <1>n, <2>8, <3>2
    <3>4. inode'[i].data = src
      BY <1>n, <1>w, <2>4, <3>3, PubContent
    <3>5. inode'[o].data = inode[o].data
      BY <1>n, <1>w, <3>p, PubContent
    <3>6. inode[o].data = [j \in 1 .. n |-> IF j <= Len(src) THEN src[j] ELSE Zero]
      BY <2>2, <2>3, <2>4, <3>u DEF CopiedSoFar
    <3>7. n = Len(src)
      BY <2>1, <2>2, <2>4, <3>2 DEF CopiedSoFar
    <3>8. [j \in 1 .. n |-> IF j <= Len(src) THEN src[j] ELSE Zero] = src
      BY <3>7
    <3> QED
      BY <2>6, <2>9, <3>p, <3>3, <3>4, <3>5, <3>6, <3>8, Constants DEF CopyMade
  <2> QED
    BY <2>9, <2>10
<1>6. CASE Copytime(k)
  <2>1. pc[k] = "stamp" /\ pc'[k] = "copied" /\ UNCHANGED <<pub, fin>>
    BY <1>6, <1>pc DEF Copytime
  <2>2. ASSUME spoilt'[k] = "no" PROVE CopyMade(k)'
    <3>1. CopyMade(k)
      BY <1>w, <2>1, <2>2, MovedStays DEF CopyInv
    <3>2. PICK f \in Names : f = fin[k].file
      BY <1>f, <2>1
    <3>3. PICK i \in 1 .. MaxIno, j \in 1 .. MaxIno : i = pub[f] /\ j = pub[Dst]
      BY <1>n, <3>1, <3>2, Parts DEF CopyMade
    <3>4. i # j
      BY <1>n, <3>3, Constants DEF NamesApart
    <3>s. spoilt[k] = "no"
      BY <1>w, <2>2, MovedStays
    <3>5. inode' = [inode EXCEPT ![j].time = inode[i].time]
      <4>1. CASE Overtake(k, FALSE, TRUE)
        <5>1. spoilt'[k] = "failed"
          BY <3>s, <4>1 DEF Overtake
        <5> QED
          BY <2>2, <5>1
      <4>2. CASE inode' = [inode EXCEPT ![pub[Dst]].time =
                             IF pub[fin[k].file] = 0 THEN Unset ELSE inode[pub[fin[k].file]].time]
        <5>1. PICK t : t = IF pub[fin[k].file] = 0 THEN Unset ELSE inode[pub[fin[k].file]].time
          OBVIOUS
        <5>2. inode' = [inode EXCEPT ![pub[Dst]].time = t]
          BY <4>2, <5>1
        <5>3. pub[fin[k].file] = i /\ pub[Dst] = j /\ i # 0
          BY <3>2, <3>3, Constants
        <5>4. t = inode[i].time
          BY <5>1, <5>3
        <5> QED
          BY <5>2, <5>3, <5>4
      <4>3. \/ Overtake(k, FALSE, TRUE)
            \/ inode' = [inode EXCEPT ![pub[Dst]].time =
                            IF pub[fin[k].file] = 0 THEN Unset ELSE inode[pub[fin[k].file]].time]
        BY <1>6, Zenon DEF Copytime
      <4> QED
        BY <4>1, <4>2, <4>3
    <3>6. inode'[i] = inode[i] /\ inode'[j] = [inode[j] EXCEPT !.time = inode[i].time]
      BY <3>4, <3>5 DEF TypeOK
    <3>7. inode'[j].data = inode[j].data /\ inode'[j].time = inode[i].time
      BY <3>6, Parts DEF Inode
    <3> QED
      BY <2>1, <3>1, <3>2, <3>3, <3>6, <3>7 DEF CopyMade
  <2> QED
    BY <2>1, <2>2
<1> QED
  BY <1>1, <1>2, <1>3, <1>4, <1>5, <1>6, Roles DEF Act, Copyfile

LEMMA CopyStep ==
  ASSUME TypeOK, NamesApart, AtInv, HandlesInv, CopyInv, WholeFiles, ~clash,
         NEW p \in Procs, Act(p), ~clash'
  PROVE  CopyInv'
BY CopyOthers, CopyOwn DEF CopyInv

-----------------------------------------------------------------------------
\* What consumers have read.
LEMMA ReadOthers ==
  ASSUME TypeOK, NamesApart, AtInv, HandlesInv, ReadInv, NEW p \in Procs, Act(p), ~clash',
         NEW c \in Consumers, c # p, fin'[c].ino # 0
  PROVE  /\ pc'[c] = "read" =>
              /\ Len(buf'[c]) <= Len(inode'[fin'[c].ino].data)
              /\ \A i \in 1 .. Len(buf'[c]) : buf'[c][i] = inode'[fin'[c].ino].data[i]
         /\ pc'[c] = "remove" => VersionsAt(fin[c].ino)' \subseteq read'
         /\ pub'[fin'[c].file] \in {0, fin'[c].ino} \/ VersionsAt(pub[fin[c].file])' \subseteq raced'
<1>w. c \in Procs /\ c \in Consumers \cup Copiers /\ ConsumerAt(c)
  BY DEF Procs, AtInv
<1>s. pc'[c] = pc[c] /\ fin'[c] = fin[c] /\ buf'[c] = buf[c]
  BY <1>w, OthersSame DEF Same
<1>1. PICK i \in 1 .. MaxIno, f \in Names : i = fin[c].ino /\ f = fin[c].file
  BY <1>w, <1>s, Parts DEF ConsumerAt
<1>2. inode'[i].data = inode[i].data
  BY <1>s, <1>w, <1>1, FinContent
<1>3. VersionsAt(fin[c].ino)' = VersionsAt(fin[c].ino)
  BY <1>s, <1>1, <1>2 DEF VersionsAt
<1>h. read \subseteq read' /\ raced \subseteq raced'
  BY HistoryStays
<1>4. pub[f] \in {0, i} \/ VersionsAt(pub[f]) \subseteq raced
  BY <1>s, <1>1 DEF ReadInv
<1>n. f \in Files /\ f # Dst /\ NamesApart' /\ TypeOK'
  BY NamesStep, TypeStep, Constants, FilePublishAssumption DEF FilePublishAssumption, Next, Act
<1>5. pub'[f] \in {0, i} \/ VersionsAt(pub[f])' \subseteq raced'
  <2>1. CASE pub'[f] = 0
    BY <2>1
  <2>2. CASE pub'[f] # 0 /\ pub'[f] = pub[f]
    <3>1. PICK j \in 1 .. MaxIno : j = pub'[f]
      BY <1>n, <2>2, Parts
    <3>2. inode'[j].data = inode[j].data
      BY <1>n, <3>1, PubContent
    <3>3. VersionsAt(pub[f])' = VersionsAt(pub[f])
      BY <2>2, <3>1, <3>2 DEF VersionsAt
    <3> QED
      BY <1>4, <1>h, <2>2, <3>3
  <2>3. CASE pub'[f] # 0 /\ pub'[f] # pub[f]
    <3>1. /\ p \in Writers /\ Closeandrename(p) /\ fout[p].file = f
          /\ tmp[f] # 0 /\ pub'[f] = tmp[f]
      BY <1>n, <2>3, PubCases
    <3>2. PICK j \in 1 .. MaxIno : j = tmp[f]
      BY <1>n, <3>1, Parts
    <3>3. inode'[j].data = inode[j].data
      BY <1>n, <3>1, <3>2, PubContent
    <3>4. VersionsAt(pub[f])' = VersionsAt(tmp[f])
      BY <3>1, <3>2, <3>3 DEF VersionsAt
    <3>5. f \in InUse
      BY <1>s, <1>1 DEF InUse
    <3>6. VersionsAt(tmp[f]) \subseteq raced'
      BY <2>3, <3>1, <3>5 DEF Closeandrename
    <3> QED
      BY <3>4, <3>6
  <2> QED
    BY <2>1, <2>2, <2>3
<1>6. VersionsAt(pub[fin[c].file])' = VersionsAt(pub[f])'
  BY <1>s, <1>1 DEF VersionsAt
<1>7. pc[c] = "read" => /\ Len(buf[c]) <= Len(inode[i].data)
                        /\ \A j \in 1 .. Len(buf[c]) : buf[c][j] = inode[i].data[j]
  BY <1>s, <1>1 DEF ReadInv
<1>8. pc[c] = "remove" => VersionsAt(fin[c].ino) \subseteq read
  BY <1>s DEF ReadInv
<1> QED
  BY <1>s, <1>1, <1>2, <1>3, <1>h, <1>5, <1>6, <1>7, <1>8

LEMMA ReadOwn ==
  ASSUME TypeOK, NamesApart, AtInv, HandlesInv, ReadInv,
         NEW c \in Consumers, Act(c), ~clash', fin'[c].ino # 0
  PROVE  /\ pc'[c] = "read" =>
              /\ Len(buf'[c]) <= Len(inode'[fin'[c].ino].data)
              /\ \A i \in 1 .. Len(buf'[c]) : buf'[c][i] = inode'[fin'[c].ino].data[i]
         /\ pc'[c] = "remove" => VersionsAt(fin[c].ino)' \subseteq read'
         /\ pub'[fin'[c].file] \in {0, fin'[c].ino} \/ VersionsAt(pub[fin[c].file])' \subseteq raced'
<1>w. c \in Procs /\ c \in Consumers \cup Copiers /\ ConsumerAt(c) /\ ConsumerAt(c)'
  BY AtStep DEF Procs, AtInv
<1>pc. \A l : Goto(c, l) => pc'[c] = l
  BY <1>w DEF Goto, TypeOK
<1>1. CASE Newdirfails(c, "in") \/ Opendir(c)
  <2>1. pc[c] \in {"idle", "mkdir"} /\ fin' = fin
    BY <1>1 DEF Newdirfails, Access, Mkdirfails, Opendir, Newdir
  <2> QED
    BY <1>w, <2>1 DEF ConsumerAt
<1>2. CASE Readdir(c)
  <2>1. pc[c] = "next" /\ UNCHANGED <<buf, pub, inode>>
    BY <1>2 DEF Readdir, fs
  <2>2. CASE Exhausted(c)
    BY <1>2, <1>w, <2>1, <2>2 DEF Readdir, ConsumerAt
  <2>3. CASE ~Exhausted(c)
    <3>1. PICK f : f = Head(list[c])
      OBVIOUS
    <3>2. fin'[c] = [file |-> f, ino |-> pub[f]] /\ pc'[c] = IF pub[f] = 0 THEN "remove" ELSE "read"
      BY <1>2, <1>w, <1>pc, <2>3, <3>1 DEF Readdir, TypeOK
    <3>3. fin'[c].file = f /\ fin'[c].ino = pub[f] /\ pc'[c] = "read"
      BY <3>2
    <3>4. PICK i \in 1 .. MaxIno : i = pub[f]
      <4>1. list[c] \in Seq(Names) /\ list[c] # <<>>
        BY <2>3 DEF TypeOK, Exhausted
      <4>2. f \in Files
        BY <3>1, <4>1, Constants
      <4> QED
        BY <3>3, <4>2, Parts
    <3>5. inode[i].data \in Seq(Block) /\ buf'[c] = <<>>
      BY <1>w, <2>1, Parts DEF ConsumerAt
    <3>6. Len(buf'[c]) <= Len(inode'[i].data)
      BY <2>1, <3>5
    <3>7. \A j \in 1 .. Len(buf'[c]) : buf'[c][j] = inode'[i].data[j]
      BY <3>5
    <3>8. pub'[f] = i
      BY <2>1, <3>4
    <3> QED
      BY <3>3, <3>4, <3>6, <3>7, <3>8
  <2> QED
    BY <2>2, <2>3
<1>3. CASE Read(c)
  <2>1. pc[c] = "read" /\ UNCHANGED <<pub, inode, fin, raced>>
    BY <1>3 DEF Read, fs
  <2>2. PICK i \in 1 .. MaxIno, f \in Names : i = fin[c].ino /\ f = fin[c].file
    BY <1>w, <2>1, Parts DEF ConsumerAt
  <2>3. PICK d \in Seq(Block), b \in Seq(Block) : d = inode[i].data /\ b = buf[c]
    BY Parts DEF TypeOK
  <2>4. Len(b) <= Len(d) /\ \A j \in 1 .. Len(b) : b[j] = d[j]
    BY <2>1, <2>2, <2>3 DEF ReadInv
  <2>5. pub[f] \in {0, i} \/ VersionsAt(pub[fin[c].file]) \subseteq raced
    BY <2>1, <2>2 DEF ReadInv
  <2>6. VersionsAt(pub[fin[c].file])' = VersionsAt(pub[fin[c].file])
        /\ VersionsAt(fin[c].ino)' = VersionsAt(fin[c].ino)
    BY <2>1 DEF VersionsAt
  <2>7. CASE Len(b) < Len(d)
    <3>1. buf'[c] = Append(b, d[Len(b) + 1]) /\ pc' = pc
      BY <1>3, <2>2, <2>3, <2>7 DEF Read, TypeOK
    <3>2. PICK e : e = Append(b, d[Len(b) + 1])
      OBVIOUS
    <3>3. Len(b) + 1 \in 1 .. Len(d)
      BY <2>7
    <3>4. d[Len(b) + 1] \in Block
      BY <3>3
    <3>5. Len(e) = Len(b) + 1 /\ \A j \in 1 .. Len(e) : e[j] = d[j]
      BY <2>4, <3>2, <3>4
    <3>6. Len(e) <= Len(d)
      BY <2>7, <3>5
    <3> QED
      BY <2>1, <2>2, <2>3, <2>5, <2>6, <3>1, <3>2, <3>5, <3>6
  <2>8. CASE ~(Len(b) < Len(d))
    <3>1. Len(b) = Len(d)
      BY <2>4, <2>8
    <3>2. b = d
      BY <2>4, <3>1
    <3>3. read' = read \cup {v \in Versions : b = Whole(v)} /\ pc'[c] = "remove"
      BY <1>3, <1>pc, <2>2, <2>3, <2>8 DEF Read
    <3>4. VersionsAt(fin[c].ino) = {v \in Versions : d = Whole(v)}
      BY <2>2, <2>3 DEF VersionsAt
    <3> QED
      BY <2>1, <2>2, <2>5, <2>6, <3>2, <3>3, <3>4
  <2> QED
    BY <2>7, <2>8
<1>4. CASE Closeandremove(c) \/ Die(c)
  <2>1. fin'[c] = NoHandle
    BY <1>4, <1>w DEF Closeandremove, Die, TypeOK
  <2> QED
    BY <2>1 DEF NoHandle
<1> QED
  BY <1>1, <1>2, <1>3, <1>4, Roles DEF Act, Consume

LEMMA ReadStep ==
  ASSUME TypeOK, NamesApart, AtInv, HandlesInv, ReadInv, NEW p \in Procs, Act(p), ~clash'
  PROVE  ReadInv'
<1> SUFFICES ASSUME NEW c \in Consumers, fin'[c].ino # 0
             PROVE  /\ pc'[c] = "read" =>
                         /\ Len(buf'[c]) <= Len(inode'[fin'[c].ino].data)
                         /\ \A i \in 1 .. Len(buf'[c]) : buf'[c][i] = inode'[fin'[c].ino].data[i]
                    /\ pc'[c] = "remove" => VersionsAt(fin[c].ino)' \subseteq read'
                    /\ pub'[fin'[c].file] \in {0, fin'[c].ino} \/ VersionsAt(pub[fin[c].file])' \subseteq raced'
  BY DEF ReadInv
<1>1. CASE c = p
  BY <1>1, ReadOwn
<1>2. CASE c # p
  BY <1>2, ReadOthers
<1> QED
  BY <1>1, <1>2

-----------------------------------------------------------------------------
\* A name that keeps its file keeps its versions.
LEMMA VersionsStay ==
  ASSUME TypeOK, NamesApart, AtInv, HandlesInv, NEW p \in Procs, Act(p), ~clash',
         NEW f \in Files, pub'[f] = pub[f]
  PROVE  VersionsAt(pub[f])' = VersionsAt(pub[f])
<1>1. CASE pub[f] = 0
  BY <1>1 DEF VersionsAt
<1>2. CASE pub[f] # 0
  <2>1. PICK i \in 1 .. MaxIno : i = pub[f]
    BY <1>2, Parts
  <2>2. inode'[i].data = inode[i].data
    BY <2>1, PubContent
  <2> QED
    BY <2>1, <2>2 DEF VersionsAt
<1> QED
  BY <1>1, <1>2

\* What a rename publishes.
LEMMA RenamedContent ==
  ASSUME TypeOK, NamesApart, AtInv, HandlesInv, NEW p \in Procs, Act(p), ~clash',
         NEW f \in Files, tmp[f] # 0, pub'[f] = tmp[f]
  PROVE  VersionsAt(pub[f])' = VersionsAt(tmp[f])
<1>1. PICK i \in 1 .. MaxIno : i = tmp[f]
  BY Parts
<1>2. inode'[i].data = inode[i].data
  BY <1>1, PubContent
<1> QED
  BY <1>1, <1>2 DEF VersionsAt

LEMMA WholeStep ==
  ASSUME TypeOK, NamesApart, AtInv, HandlesInv, WriteInv, CopyInv, WholeFiles, ~clash,
         NEW p \in Procs, Act(p), ~clash'
  PROVE  WholeFiles'
<1> SUFFICES ASSUME NEW f \in Files, pub'[f] # 0
             PROVE  \/ VersionsAt(pub[f])' # {}
                    \/ inode'[pub'[f]].torn
                    \/ f = Dst /\ \E k \in Copiers : spoilt'[k] = "early"
  BY DEF WholeFiles
<1>m. \A k \in Copiers : spoilt[k] = "early" => spoilt'[k] = "early"
  BY MovedStays
<1>1. CASE pub'[f] = pub[f]
  <2>1. \/ VersionsAt(pub[f]) # {} \/ inode[pub[f]].torn
        \/ f = Dst /\ \E k \in Copiers : spoilt[k] = "early"
    BY <1>1 DEF WholeFiles
  <2>2. VersionsAt(pub[f])' = VersionsAt(pub[f])
    BY <1>1, VersionsStay
  <2>3. PICK i \in 1 .. MaxIno : i = pub[f]
    BY <1>1, Parts
  <2>4. inode'[i].torn = inode[i].torn
    BY <1>1, <2>3, PubContent
  <2> QED
    BY <1>1, <1>m, <2>1, <2>2, <2>3, <2>4
<1>2. CASE pub'[f] # pub[f]
  <2>1. \/ /\ p \in Writers /\ Closeandrename(p) /\ fout[p].file = f
           /\ tmp[f] # 0 /\ pub'[f] = tmp[f]
        \/ /\ p \in Copiers /\ Copyclose(p) /\ fout[p].file = f /\ f = Dst
           /\ tmp[f] # 0 /\ pub'[f] = tmp[f]
    BY <1>2, PubCases
  <2>2. VersionsAt(pub[f])' = VersionsAt(tmp[f])
    BY <2>1, RenamedContent
  <2>3. PICK o \in 1 .. MaxIno : o = tmp[f]
    BY <2>1, Parts
  <2>6. pub'[f] = o /\ inode'[o].torn = inode[o].torn
    BY <2>1, <2>3, PubContent
  <2>7. SUFFICES ASSUME ~inode[o].torn
                 PROVE  \/ VersionsAt(pub[f])' # {}
                        \/ f = Dst /\ \E k \in Copiers : spoilt'[k] = "early"
    BY <2>6
  <2>4. CASE p \in Writers /\ Closeandrename(p) /\ fout[p].file = f
    <3>1. pc[p] = "write" /\ fout[p].off = Size[wver[p]]
      BY <2>4 DEF Closeandrename
    <3>2. fout[p].ino # 0 /\ wver[p] \in Versions
      BY <2>4, <3>1 DEF AtInv, WriterAt
    <3>3. fout[p].ino = o
      BY <2>3, <2>4, <3>2 DEF HandlesInv
    <3>4. Written(p)
      BY <2>4, <3>1 DEF WriteInv
    <3>5. inode[o].data = Whole(wver[p])
      BY <2>7, <3>1, <3>3, <3>4 DEF Written, Whole
    <3>6. wver[p] \in VersionsAt(o)
      BY <3>2, <3>5 DEF VersionsAt
    <3> QED
      BY <2>2, <2>3, <3>6
  <2>5. CASE p \in Copiers /\ Copyclose(p) /\ fout[p].file = f /\ f = Dst
    <3>1. pc[p] = "copy" /\ fout[p].off >= ksize[p]
      BY <2>5 DEF Copyclose, Copied
    <3>2. fout[p].ino # 0 /\ fin[p].ino # 0
      BY <2>5, <3>1 DEF AtInv, CopierAt
    <3>3. fout[p].ino = o
      BY <2>3, <2>5, <3>2 DEF HandlesInv
    <3>4. CopiedSoFar(p)
      BY <2>5, <3>1 DEF CopyInv
    <3>5. CASE spoilt[p] = "early"
      BY <1>m, <2>5, <3>5
    <3>6. CASE spoilt[p] # "early"
      <4>1. PICK i \in 1 .. MaxIno : i = fin[p].ino
        BY <2>5, <3>2, Parts
      <4>2. PICK n \in Nat, src \in Seq(Block) : n = fout[p].off /\ src = inode[i].data
        BY <2>5, Parts
      <4>3. n = Len(src)
        BY <3>1, <3>4, <3>6, <4>1, <4>2 DEF CopiedSoFar
      <4>4. inode[o].data = [j \in 1 .. n |-> IF j <= Len(src) THEN src[j] ELSE Zero]
        BY <2>7, <3>3, <3>4, <4>1, <4>2 DEF CopiedSoFar
      <4>5. [j \in 1 .. n |-> IF j <= Len(src) THEN src[j] ELSE Zero] = src
        BY <4>3
      <4>6. inode[o].data = inode[i].data
        BY <4>2, <4>4, <4>5
      <4>7. VersionsAt(i) # {}
        BY <2>7, <3>3, <3>4, <4>1 DEF CopiedSoFar
      <4>8. VersionsAt(o) = VersionsAt(i)
        BY <4>6 DEF VersionsAt
      <4> QED
        BY <2>2, <2>3, <4>7, <4>8
    <3> QED
      BY <3>5, <3>6
  <2> QED
    BY <2>1, <2>4, <2>5
<1> QED
  BY <1>1, <1>2

\* A version that is replaced or removed was counted, read or raced.
LEMMA LostStep ==
  ASSUME TypeOK, NamesApart, AtInv, HandlesInv, ReadInv, NoneLost, ~clash,
         NEW p \in Procs, Act(p), ~clash'
  PROVE  NoneLost'
<1> SUFFICES ASSUME NEW v \in issued'
             PROVE  \/ \E f \in Names : v \in VersionsAt(pub[f])'
                    \/ v \in read' \cup replaced' \cup raced'
  BY DEF NoneLost
<1>h. read \subseteq read' /\ replaced \subseteq replaced' /\ raced \subseteq raced'
  BY HistoryStays
<1>n. \A f \in Names : f \in Files /\ f # Dst
  BY Constants, FilePublishAssumption DEF FilePublishAssumption
<1>1. CASE v \in issued /\ v \in read \cup replaced \cup raced
  BY <1>h, <1>1
<1>2. CASE v \in issued /\ ~(v \in read \cup replaced \cup raced)
  <2>1. PICK f \in Names : v \in VersionsAt(pub[f])
    BY <1>2 DEF NoneLost
  <2>2. CASE pub'[f] = pub[f]
    BY <1>n, <2>1, <2>2, VersionsStay
  <2>3. CASE p \in Writers /\ Closeandrename(p) /\ fout[p].file = f
    <3>1. CASE pub' = pub
      BY <2>2, <3>1
    <3>2. CASE pub' # pub
      BY <2>1, <2>3, <3>2 DEF Closeandrename
    <3> QED
      BY <3>1, <3>2
  <2>4. CASE Removes_name(p) /\ fin[p].file = f
    <3>1. p \in Consumers /\ fin[p].ino # 0 /\ pc[p] = "remove"
      BY <2>4 DEF Removes_name, Closeandremove
    <3>2. VersionsAt(fin[p].ino) \subseteq read
      BY <3>1 DEF ReadInv
    <3>3. pub[f] \in {0, fin[p].ino} \/ VersionsAt(pub[f]) \subseteq raced
      BY <2>4, <3>1 DEF ReadInv
    <3>4. pub[f] # 0
      BY <2>1 DEF VersionsAt
    <3>5. v \in read \cup raced
      BY <2>1, <3>2, <3>3, <3>4
    <3> QED
      BY <1>h, <3>5
  <2> QED
    BY <1>n, <2>2, <2>3, <2>4, PubCases
<1>3. CASE v \notin issued
  <2>1. /\ p \in Writers /\ Closeandrename(p) /\ pub' # pub
        /\ issued' = issued \cup VersionsAt(tmp[fout[p].file])
    <3>1. CASE p \in Writers /\ Produce(p)
      BY <1>3, <3>1 DEF Produce, Open, Write, Closeandrename, Close, fate
    <3>2. CASE p \in Consumers /\ Consume(p)
      BY <1>3, <3>2 DEF Consume, Newdirfails, Opendir, Readdir, Read, Closeandremove, fate
    <3>3. CASE p \in Copiers /\ Copyfile(p)
      BY <1>3, <3>3 DEF Copyfile, Newdirfails, Filesize, Copyopen, Copy, Copyclose, Copytime, fate
    <3>4. CASE Die(p)
      BY <1>3, <3>4 DEF Die, fate
    <3> QED
      BY <3>1, <3>2, <3>3, <3>4 DEF Act
  <2>2. PICK f \in Names : f = fout[p].file
    BY <2>1 DEF Closeandrename, AtInv, WriterAt
  <2>3. v \in VersionsAt(tmp[f])
    BY <1>3, <2>1, <2>2
  <2>4. tmp[f] # 0
    BY <2>3 DEF VersionsAt
  <2>5. pub'[f] = tmp[f]
    <3>1. p \in Writers \cup Copiers
      BY <2>1
    <3> QED
      BY <1>n, <2>1, <2>2, <3>1, RenameEffect DEF Closeandrename
  <2>6. VersionsAt(pub[f])' = VersionsAt(tmp[f])
    BY <1>n, <2>4, <2>5, RenamedContent
  <2> QED
    BY <2>3, <2>6
<1> QED
  BY <1>1, <1>2, <1>3

-----------------------------------------------------------------------------
LEMMA InitInv == Init => FileInv
<1> SUFFICES ASSUME Init PROVE FileInv
  OBVIOUS
<1>1. TypeOK /\ NamesApart /\ AtInv
  BY InitType
<1>2. /\ \A q \in Writers \cup Copiers : fout[q].ino = 0
      /\ \A q \in Consumers \cup Copiers : fin[q].ino = 0
      /\ \A q \in Procs : pc[q] = "idle"
      /\ \A f \in Files : pub[f] = 0
  BY DEF Init, NoOut, NoHandle
<1>3. HandlesInv /\ ReadInv
  BY <1>2 DEF HandlesInv, ReadInv
<1>4. WriteInv /\ CopyInv
  BY <1>2 DEF WriteInv, CopyInv, Procs
<1>5. WholeFiles /\ NoneLost
  BY <1>2 DEF Init, WholeFiles, NoneLost
<1> QED
  BY <1>1, <1>3, <1>4, <1>5 DEF FileInv

LEMMA StepInv == FileInv /\ [Next]_vars => FileInv'
<1> SUFFICES ASSUME FileInv, [Next]_vars PROVE FileInv'
  OBVIOUS
<1>1. CASE UNCHANGED vars
  <2>1. UNCHANGED <<made, pub, tmp, inode, fout, fin, list, pc, wver, buf, ksize, ver,
                    issued, read, replaced, raced, clash, spoilt, faults>>
    BY <1>1 DEF vars, fs, fate
  <2>2. /\ TypeOK' = TypeOK /\ NamesApart' = NamesApart /\ AtInv' = AtInv
        /\ HandlesInv' = HandlesInv /\ WriteInv' = WriteInv /\ ReadInv' = ReadInv
    BY <2>1 DEF TypeOK, NamesApart, AtInv, WriterAt, ConsumerAt, CopierAt, HandlesInv,
       WriteInv, Written, ReadInv, VersionsAt
  <2>3. CopyInv' = CopyInv /\ WholeFiles' = WholeFiles /\ NoneLost' = NoneLost
    BY <2>1 DEF CopyInv, SizeRead, CopiedSoFar, CopyMade, WholeFiles, NoneLost, VersionsAt
  <2> QED
    BY <2>1, <2>2, <2>3 DEF FileInv
<1>2. CASE ~UNCHANGED vars
  <2>1. PICK p \in Procs : Act(p)
    BY <1>2, StepActs
  <2>2. TypeOK' /\ NamesApart' /\ AtInv'
    BY <2>1, TypeStep, NamesStep, AtStep DEF FileInv
  <2>3. ASSUME ~clash'
        PROVE  HandlesInv' /\ WriteInv' /\ CopyInv' /\ ReadInv' /\ WholeFiles' /\ NoneLost'
    <3>1. ~clash
      BY <2>1, <2>3, HistoryStays DEF FileInv
    <3>2. HandlesInv' /\ WriteInv'
      BY <2>1, <2>3, <3>1, HandlesStep, WriteStep DEF FileInv
    <3>3. CopyInv' /\ ReadInv'
      BY <2>1, <2>3, <3>1, CopyStep, ReadStep DEF FileInv
    <3>4. WholeFiles' /\ NoneLost'
      BY <2>1, <2>3, <3>1, WholeStep, LostStep DEF FileInv
    <3> QED
      BY <3>2, <3>3, <3>4
  <2> QED
    BY <2>2, <2>3 DEF FileInv
<1> QED
  BY <1>1, <1>2

\* The inductive invariant: what names and handles are on, and, as long as no two
\* cofiles were open on one temporary name, what is in the files and what has
\* become of every version.
THEOREM PublishInvariant == Spec => []FileInv
<1>1. Init => FileInv
  BY InitInv
<1>2. FileInv /\ [Next]_vars => FileInv'
  BY StepInv
<1> QED
  BY <1>1, <1>2, PTL DEF Spec

\* What a name means is whole, however writers and copiers die and whatever they
\* leave, unless a write to it or to the file it was copied from has failed; and
\* a copy has the content and the time of its source, unless a call that copyfile
\* does not test has failed; with the other exceptions of FilesSound.
THEOREM FilesAlwaysSound == Spec => []FilesSound
<1>1. FileInv => FilesSound
  <2> SUFFICES ASSUME FileInv PROVE WholeFiles /\ CopySame
    BY DEF FilesSound
  <2>1. WholeFiles
    BY DEF FileInv, WholeFiles
  <2>2. ASSUME ~clash, NEW k \in Copiers, pc[k] = "copied", spoilt[k] = "no"
        PROVE  Faithful(k)
    <3>1. CopyMade(k)
      BY <2>2 DEF FileInv, CopyInv
    <3> QED
      BY <2>2, <3>1 DEF CopyMade, Faithful
  <2> QED
    BY <2>1, <2>2 DEF CopySame
<1> QED
  BY <1>1, PublishInvariant, PTL

\* closeandremove() takes away no version that nobody has read, but for the
\* races that NoneLost names.
THEOREM NothingLost == Spec => []NoneLost
<1>1. FileInv => NoneLost
  BY DEF FileInv, NoneLost
<1> QED
  BY <1>1, PublishInvariant, PTL
=============================================================================
