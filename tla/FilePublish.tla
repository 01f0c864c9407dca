---------------------------- MODULE FilePublish ----------------------------
(***************************************************************************)
(* Files handed from one process to another through a directory: cofile,   *)
(* cifile, cdir and copyfile (public.h, public.cpp).  Writers produce each *)
(* version of a file under a temporary name and rename it; consumers list  *)
(* the directory, read a file and remove it; copiers copyfile() a file to  *)
(* the name Dst, in another directory.                                     *)
(*                                                                         *)
(* pub[f] and tmp[f] are the inodes of the names f and f.tmp, 0 if there   *)
(* is none, and inode[i] has a content (a sequence of blocks) and a time.  *)
(* Version v consists of the blocks <<v,1>> .. <<v,Size[v]>>, and its last *)
(* write gives it the time v.                                              *)
(* fout[p] is the cofile of p: its m_filename, the inode it is open on (0  *)
(* when it is not), how many blocks it has been given, and the badbit of   *)
(* its stream.  fin[p] is the cifile of p.                                 *)
(* list[c] is the unread part of the m_filelist of c's cdir.               *)
(* wver[w] is the version a writer writes, buf[c] what a consumer has      *)
(* read, ksize[k] the ifilesize of copyfile, made the directories there.   *)
(* pc[p]: "idle"; "mkdir" inside newdir; for writers "write"; for          *)
(* consumers "next", "read", "remove"; for copiers "open", "copy",         *)
(* "stamp", "copied".                                                      *)
(*                                                                         *)
(* A system call may fail (a full disk, a directory without permission),   *)
(* and a process may be killed: MaxFaults of these in all.                 *)
(*                                                                         *)
(* History: ver is the last version begun; issued, read, replaced and      *)
(* raced are versions that have been published, read to the end,           *)
(* overwritten by a newer file, and published while a consumer had the     *)
(* name open; clash tells that two cofiles were open on one temporary      *)
(* name.  inode[i].torn: a write to the file has failed, or to the one it  *)
(* is a copy of.  spoilt[k] tells why the copy of k need not equal its     *)
(* source: the source was exchanged, "early" if that was before copyfile   *)
(* opened it; or, "late", another copier has put its own copy or time in   *)
(* the place of k's; or, "failed", a call that copyfile does not test.     *)
(***************************************************************************)
EXTENDS Integers, Sequences, SequencesExt, FiniteSets

CONSTANTS
  Writers, Consumers, Copiers,
  Names,        \* the files in the consumers' directory
  Dst,          \* the name copies are given, in another directory
  NoFile,
  Size,         \* Size[v]: the number of blocks of version v
  MaxFiles,     \* the maxfiles given to cdir::opendir
  MaxIno,       \* bound: files that exist at once
  MaxFaults     \* bound: processes that die and calls that fail

ASSUME FilePublishAssumption ==
  /\ Size \in Seq(Nat \ {0})
  /\ IsFiniteSet(Names) /\ Dst \notin Names /\ NoFile \notin Names \cup {Dst}
  /\ Writers \cap (Consumers \cup Copiers) = {} /\ Consumers \cap Copiers = {}
  /\ MaxFiles \in Nat \ {0} /\ MaxIno \in Nat \ {0} /\ MaxFaults \in Nat

VARIABLES made, pub, tmp, inode, fout, fin, list, pc,
          wver, buf, ksize, ver, issued, read, replaced, raced, clash, spoilt, faults

fs == <<made, pub, tmp, inode>>
fate == <<issued, read, replaced, raced>>
vars == <<fs, fout, fin, list, pc, wver, buf, ksize, ver, fate, clash, spoilt, faults>>

Files == Names \cup {Dst}
Procs == Writers \cup Consumers \cup Copiers
Versions == DOMAIN Size
Zero == <<0, 0>>                    \* a block of zero bytes
Unset == -1                         \* what utime() sets for an unknown time
Now == 0                            \* the time of a file a copier has written
Whole(v) == [i \in 1 .. Size[v] |-> <<v, i>>]
VersionsAt(i) == {v \in Versions : i # 0 /\ inode[i].data = Whole(v)}
DirOf(f) == IF f = Dst THEN "out" ELSE "in"

NoHandle == [file |-> NoFile, ino |-> 0]
NoOut == [file |-> NoFile, ino |-> 0, off |-> 0, bad |-> FALSE]
Empty == [data |-> <<>>, time |-> Now, torn |-> FALSE]

Block == (0 .. Len(Size)) \X Nat
Inode == [data : Seq(Block), time : Unset .. Len(Size), torn : BOOLEAN]
OutFile == [file : Files \cup {NoFile}, ino : 0 .. MaxIno, off : Nat, bad : BOOLEAN]
InFile == [file : Names \cup {NoFile}, ino : 0 .. MaxIno]

\* The type invariant.
TypeOK ==
  /\ made \subseteq {"in", "out"}
  /\ pub \in [Files -> 0 .. MaxIno] /\ tmp \in [Files -> 0 .. MaxIno]
  /\ inode \in [1 .. MaxIno -> Inode]
  /\ fout \in [Writers \cup Copiers -> OutFile]
  /\ fin \in [Consumers \cup Copiers -> InFile]
  /\ list \in [Consumers -> Seq(Names)]
  /\ pc \in [Procs -> {"idle", "mkdir", "write", "next", "read", "remove",
                       "open", "copy", "stamp", "copied"}]
  /\ wver \in [Writers -> 0 .. Len(Size)]
  /\ buf \in [Consumers -> Seq(Block)]
  /\ ksize \in [Copiers -> Int]
  /\ ver \in 0 .. Len(Size)
  /\ issued \cup read \cup replaced \cup raced \subseteq Versions
  /\ clash \in BOOLEAN /\ spoilt \in [Copiers -> {"no", "late", "early", "failed"}]
  /\ faults \in 0 .. MaxFaults

Init ==
  /\ made = {}
  /\ pub = [f \in Files |-> 0]
  /\ tmp = [f \in Files |-> 0]
  /\ inode = [i \in 1 .. MaxIno |-> Empty]
  /\ fout = [p \in Writers \cup Copiers |-> NoOut]
  /\ fin = [p \in Consumers \cup Copiers |-> NoHandle]
  /\ list = [c \in Consumers |-> <<>>]
  /\ pc = [p \in Procs |-> "idle"]
  /\ wver = [w \in Writers |-> 0]
  /\ buf = [c \in Consumers |-> <<>>]
  /\ ksize = [k \in Copiers |-> 0]
  /\ ver = 0
  /\ issued = {} /\ read = {} /\ replaced = {} /\ raced = {}
  /\ clash = FALSE /\ spoilt = [k \in Copiers |-> "no"] /\ faults = 0

Goto(p, l) == pc' = [pc EXCEPT ![p] = l]

\* A call fails, because it must or because the system says so.
Fails(must) ==
  IF must THEN UNCHANGED faults ELSE faults < MaxFaults /\ faults' = faults + 1

\* The file system drops an inode that has neither a name nor a reader or
\* writer; content is the inode table before that.
Linked(i) ==
  \/ \E f \in Files : i \in {pub[f], tmp[f]}
  \/ \E p \in Writers \cup Copiers : fout[p].ino = i
  \/ \E p \in Consumers \cup Copiers : fin[p].ino = i
Keep(content) ==
  \E live \in {{i \in 1 .. MaxIno : Linked(i)'}} :
    inode' = [i \in 1 .. MaxIno |-> IF i \in live THEN content[i] ELSE Empty]

-----------------------------------------------------------------------------
\* A wrong open: it does not truncate (ios::in | ios::out).
Opened_Kept(content) == content

\* ios::out truncates a file that is there.
Opened(content) == Empty

\* A write to file i has failed.
Torn(i) == i # 0 /\ inode[i].torn

\* cofile::open with btmp: the directory is made, the temporary file created
\* or, if one is left over, truncated.  src is the file to be copied, or 0.
Cofile_open(p, f, src) ==
  /\ \/ tmp[f] # 0 /\ UNCHANGED tmp
     \/ /\ tmp[f] = 0
        /\ \E i \in 1 .. MaxIno :
             /\ ~Linked(i) /\ \A j \in 1 .. i - 1 : Linked(j)
             /\ tmp' = [tmp EXCEPT ![f] = i]
  /\ fout' = [fout EXCEPT ![p] = [file |-> f, ino |-> tmp'[f], off |-> 0, bad |-> FALSE]]
  /\ made' = made \cup {DirOf(f)}
  /\ clash' = (clash \/ \E q \in DOMAIN fout \ {p} : fout[q].file = f)
  /\ UNCHANGED pub
  /\ Keep([inode EXCEPT ![tmp'[f]] = [Opened(@) EXCEPT !.torn = Torn(src)]])

\* A block at an offset of a file; what is before it reads as zero.
Put(data, off, b) ==
  [i \in 1 .. (IF off < Len(data) THEN Len(data) ELSE off + 1) |->
     IF i = off + 1 THEN b ELSE IF i <= Len(data) THEN data[i] ELSE Zero]

\* A cofile that has been given one more block.
Given(h, bad) == [h EXCEPT !.off = @ + 1, !.bad = bad]

\* cofile::write, writeline and <<: one block, written at time t.  Where it
\* fails, then or when the buffer is flushed, it leaves the stream bad: nothing
\* more is written, to the end.
Cofile_write(p, b, t) ==
  /\ UNCHANGED <<made, pub, tmp>>
  /\ \/ /\ ~fout[p].bad
        /\ fout' = [fout EXCEPT ![p] = Given(@, FALSE)]
        /\ UNCHANGED faults
        /\ Keep([inode EXCEPT ![fout[p].ino] =
                   [data |-> Put(@.data, fout[p].off, b), time |-> t, torn |-> @.torn]])
     \/ /\ fout' = [fout EXCEPT ![p] = Given(@, TRUE)]
        /\ Fails(fout[p].bad)
        /\ Keep([inode EXCEPT ![fout[p].ino].torn = TRUE])

\* cofile::closeandrename: close, and rename() of f.tmp to f, whose old file
\* loses its name; it does so whether or not everything has been written.  It
\* fails when somebody has taken the temporary file away, at least.
Cofile_closeandrename(p) ==
  LET f == fout[p].file IN
  /\ \/ /\ tmp[f] # 0
        /\ pub' = [pub EXCEPT ![f] = tmp[f]]
        /\ tmp' = [tmp EXCEPT ![f] = 0]
        /\ UNCHANGED faults
     \/ /\ Fails(tmp[f] = 0)
        /\ UNCHANGED <<pub, tmp>>
  /\ fout' = [fout EXCEPT ![p] = NoOut]
  /\ UNCHANGED made
  /\ Keep(inode)

\* cofile::close: close, and remove() of f.tmp.
Cofile_close(p) ==
  /\ tmp' = [tmp EXCEPT ![fout[p].file] = 0]
  /\ fout' = [fout EXCEPT ![p] = NoOut]
  /\ UNCHANGED <<made, pub>>
  /\ Keep(inode)

\* The name f comes to mean another file, or none, under a copier.
Rebind(f) ==
  spoilt' = [k \in Copiers |->
              IF fin[k].file # f \/ (pc[k] # "open" /\ spoilt[k] # "no") THEN spoilt[k]
              ELSE IF pc[k] = "open" THEN "early" ELSE "late"]

\* Copier k has, or has not, changed what the name Dst means under those that
\* have made a copy, and has, or has not, met a call that failed.
Overtake(k, over, failed) ==
  spoilt' = [q \in Copiers |->
               IF spoilt[q] # "no" THEN spoilt[q]
               ELSE IF q = k THEN IF failed THEN "failed" ELSE "no"
               ELSE IF over /\ pc[q] \in {"stamp", "copied"} THEN "late" ELSE "no"]

-----------------------------------------------------------------------------
\* A writer starts a version of some file ...
Open(w) ==
  /\ pc[w] = "idle" /\ ver < Len(Size)
  /\ ver' = ver + 1
  /\ wver' = [wver EXCEPT ![w] = ver + 1]
  /\ Goto(w, "write")
  /\ UNCHANGED <<fin, list, buf, ksize, fate, spoilt, faults>>
  /\ \E f \in Names : Cofile_open(w, f, 0)

\* ... writes it block by block ...
Write(w) ==
  /\ pc[w] = "write" /\ fout[w].off < Size[wver[w]]
  /\ UNCHANGED <<fin, list, pc, wver, buf, ksize, ver, fate, clash, spoilt>>
  /\ Cofile_write(w, <<wver[w], fout[w].off + 1>>, wver[w])

\* The names that consumers have open.
InUse == {fin[c].file : c \in {d \in Consumers : fin[d].ino # 0}}

\* ... and calls closeandrename() at its end, even if it has not looked at the
\* results of its writes ...
Closeandrename(w) ==
  LET f == fout[w].file
      vs == VersionsAt(tmp[f]) IN
  /\ pc[w] = "write" /\ fout[w].off = Size[wver[w]]
  /\ wver' = [wver EXCEPT ![w] = 0]
  /\ Goto(w, "idle")
  /\ UNCHANGED <<fin, list, buf, ksize, ver, read, clash>>
  /\ Cofile_closeandrename(w)
  /\ IF pub' = pub THEN UNCHANGED <<issued, replaced, raced, spoilt>>
     ELSE /\ issued' = issued \cup vs
          /\ replaced' = replaced \cup VersionsAt(pub[f])
          /\ raced' = IF f \in InUse THEN raced \cup vs ELSE raced
          /\ Rebind(f)

\* ... or close() before it, or the destructor does.
Close(w) ==
  /\ pc[w] = "write" /\ (fout[w].off < Size[wver[w]] \/ fout[w].bad)
  /\ wver' = [wver EXCEPT ![w] = 0]
  /\ Goto(w, "idle")
  /\ UNCHANGED <<fin, list, buf, ksize, ver, fate, clash, spoilt, faults>>
  /\ Cofile_close(w)

-----------------------------------------------------------------------------
\* newdir: access() misses the directory ...
Access(p, dir) == pc[p] = "idle" /\ dir \notin made /\ Goto(p, "mkdir")

\* ... mkdir() fails if another process has made it meanwhile ...
Mkdirfails(p, dir) == pc[p] = "mkdir" /\ dir \in made /\ Goto(p, "idle")

\* ... and newdir returns true if access() or mkdir() succeeds.
Newdir(p, dir) ==
  /\ pc[p] = (IF dir \in made THEN "idle" ELSE "mkdir")
  /\ made' = made \cup {dir}

\* cdir::opendir and copyfile give up when newdir() does.
Newdirfails(p, dir) ==
  /\ Access(p, dir) \/ Mkdirfails(p, dir)
  /\ UNCHANGED <<fs, fout, fin, list, wver, buf, ksize, ver, fate, clash, spoilt, faults>>

\* cdir::opendir and _opendir: the names that match the rules, which leave
\* temporary files out, up to maxfiles of them, as the directory has them or
\* sorted.
Opendir(c) ==
  LET there == {f \in Names : pub[f] # 0}
      most == IF Cardinality(there) < MaxFiles THEN Cardinality(there) ELSE MaxFiles IN
  /\ Newdir(c, "in")
  /\ \E l \in SetToAllKPermutations(there) :
       Len(l) = most /\ list' = [list EXCEPT ![c] = l]
  /\ Goto(c, "next")
  /\ UNCHANGED <<pub, tmp, inode, fout, fin, wver, buf, ksize, ver, fate, clash,
                 spoilt, faults>>

\* A wrong readdir: its test is one file too early.
Exhausted_Early(c) == Len(list[c]) <= 1

\* readdir: m_pos >= m_filelist.size().
Exhausted(c) == list[c] = <<>>

\* cdir::readdir: the next name (the stat() that fills the other members may
\* find the file gone) and cifile::open, which then fails.
Readdir(c) ==
  /\ pc[c] = "next"
  /\ IF Exhausted(c)
     THEN /\ Goto(c, "idle")
          /\ list' = [list EXCEPT ![c] = <<>>]
          /\ UNCHANGED fin
     ELSE LET f == Head(list[c]) IN
          /\ fin' = [fin EXCEPT ![c] = [file |-> f, ino |-> pub[f]]]
          /\ list' = [list EXCEPT ![c] = Tail(@)]
          /\ Goto(c, IF pub[f] = 0 THEN "remove" ELSE "read")
  /\ UNCHANGED <<fs, fout, wver, buf, ksize, ver, fate, clash, spoilt, faults>>

\* cifile::read and readline, a block at a time until the file has no more.
Read(c) ==
  LET data == inode[fin[c].ino].data IN
  /\ pc[c] = "read"
  /\ IF Len(buf[c]) < Len(data)
     THEN /\ buf' = [buf EXCEPT ![c] = Append(@, data[Len(@) + 1])]
          /\ UNCHANGED <<read, pc>>
     ELSE /\ read' = read \cup {v \in Versions : buf[c] = Whole(v)}
          /\ Goto(c, "remove")
          /\ UNCHANGED buf
  /\ UNCHANGED <<fs, fout, fin, list, wver, ksize, ver, issued, replaced, raced,
                 clash, spoilt, faults>>

\* A wrong closeandremove: no test whether the file is open.
Removes_Always(c) == TRUE

\* closeandremove: returns at once when the file is not open.
Removes(c) == fin[c].ino # 0

\* cifile::closeandremove: close, and remove() of the name, whatever file it
\* names by now.
Closeandremove(c) ==
  LET f == fin[c].file IN
  /\ pc[c] = "remove"
  /\ IF Removes(c) THEN pub' = [pub EXCEPT ![f] = 0] /\ Rebind(f)
                   ELSE UNCHANGED <<pub, spoilt>>
  /\ fin' = [fin EXCEPT ![c] = NoHandle]
  /\ buf' = [buf EXCEPT ![c] = <<>>]
  /\ Goto(c, "next")
  /\ UNCHANGED <<made, tmp, fout, list, wver, ksize, ver, fate, clash, faults>>
  /\ Keep(inode)

-----------------------------------------------------------------------------
\* copyfile: the directory of the copy, and the size of the source, -1 if there
\* is none ...
Filesize(k) ==
  /\ Newdir(k, "out")
  /\ \E f \in Names :
       /\ fin' = [fin EXCEPT ![k] = [file |-> f, ino |-> 0]]
       /\ ksize' = [ksize EXCEPT ![k] =
                      IF pub[f] = 0 THEN -1 ELSE Len(inode[pub[f]].data)]
  /\ Goto(k, "open")
  /\ UNCHANGED <<pub, tmp, inode, fout, list, wver, buf, ver, fate, clash, spoilt, faults>>

EndCopy(k) == fin' = [fin EXCEPT ![k] = NoHandle] /\ ksize' = [ksize EXCEPT ![k] = 0]

\* ... ifile.open and ofile.open, without which it returns false ...
Copyopen(k) ==
  LET i == pub[fin[k].file] IN
  /\ pc[k] = "open"
  /\ UNCHANGED <<list, wver, buf, ver, fate, spoilt>>
  /\ \/ /\ Fails(i = 0)
        /\ EndCopy(k) /\ Goto(k, "idle")
        /\ UNCHANGED <<fs, fout, clash>>
     \/ /\ i # 0
        /\ fin' = [fin EXCEPT ![k].ino = i]
        /\ Goto(k, "copy")
        /\ UNCHANGED <<ksize, faults>>
        /\ Cofile_open(k, Dst, i)

\* A wrong loop: it leaves the last block out.
Copied_Early(k) == fout[k].off >= ksize[k] - 1

\* The loop of copyfile ends when total_bytes = ifilesize.
Copied(k) == fout[k].off >= ksize[k]

\* The copying loop: a block of the source, or of the zeroed buffer if the
\* source has no more; the results of read and write are not looked at.
Copy(k) ==
  LET data == inode[fin[k].ino].data
      n == fout[k].off IN
  /\ pc[k] = "copy" /\ ~Copied(k)
  /\ UNCHANGED <<fin, list, pc, wver, buf, ksize, ver, fate, clash, spoilt>>
  /\ Cofile_write(k, IF n < Len(data) THEN data[n + 1] ELSE Zero, Now)

\* ifile.close and ofile.closeandrename, whose result is not looked at.
Copyclose(k) ==
  /\ pc[k] = "copy" /\ Copied(k)
  /\ fin' = [fin EXCEPT ![k].ino = 0]
  /\ Goto(k, "stamp")
  /\ UNCHANGED <<list, wver, buf, ksize, ver, fate, clash>>
  /\ Cofile_closeandrename(k)
  /\ Overtake(k, pub' # pub, pub' = pub \/ fout[k].bad)

\* filemtime of the source and setmtime of the copy, whose result is not looked
\* at either; copyfile returns true.
Copytime(k) ==
  LET i == pub[fin[k].file] IN
  /\ pc[k] = "stamp"
  /\ Goto(k, "copied")
  /\ UNCHANGED <<made, pub, tmp, fout, fin, list, wver, buf, ksize, ver, fate, clash>>
  /\ \/ /\ pub[Dst] # 0
        /\ inode' = [inode EXCEPT ![pub[Dst]].time = IF i = 0 THEN Unset ELSE inode[i].time]
        /\ UNCHANGED faults
        /\ Overtake(k, TRUE, FALSE)
     \/ /\ Fails(pub[Dst] = 0)
        /\ UNCHANGED inode
        /\ Overtake(k, FALSE, TRUE)

-----------------------------------------------------------------------------
\* A process is killed: its files are closed, no destructor runs, and a
\* temporary file stays.
Die(p) ==
  /\ pc[p] # "idle" /\ faults < MaxFaults
  /\ faults' = faults + 1
  /\ fout' = [q \in DOMAIN fout |-> IF q = p THEN NoOut ELSE fout[q]]
  /\ fin' = [q \in DOMAIN fin |-> IF q = p THEN NoHandle ELSE fin[q]]
  /\ list' = [q \in Consumers |-> IF q = p THEN <<>> ELSE list[q]]
  /\ buf' = [q \in Consumers |-> IF q = p THEN <<>> ELSE buf[q]]
  /\ wver' = [q \in Writers |-> IF q = p THEN 0 ELSE wver[q]]
  /\ ksize' = [q \in Copiers |-> IF q = p THEN 0 ELSE ksize[q]]
  /\ Goto(p, "idle")
  /\ UNCHANGED <<made, pub, tmp, ver, fate, clash, spoilt>>
  /\ Keep(inode)

Produce(w) == Open(w) \/ Write(w) \/ Closeandrename(w) \/ Close(w)
Consume(c) == \/ Newdirfails(c, "in") \/ Opendir(c) \/ Readdir(c) \/ Read(c)
              \/ Closeandremove(c)
Copyfile(k) == \/ Newdirfails(k, "out") \/ Filesize(k) \/ Copyopen(k) \/ Copy(k)
               \/ Copyclose(k) \/ Copytime(k)

Next ==
  \/ \E w \in Writers : Produce(w)
  \/ \E c \in Consumers : Consume(c)
  \/ \E k \in Copiers : Copyfile(k)
  \/ \E p \in Procs : Die(p)

(***************************************************************************)
(* Fairness: the consumers are services that scan the directory again and  *)
(* again.  Writers and copiers may stop anywhere.                          *)
(***************************************************************************)
Spec == Init /\ [][Next]_vars
FairSpec == Spec /\ \A c \in Consumers : WF_vars(Consume(c))

-----------------------------------------------------------------------------
\* A file is visible under its name only when it is complete: whatever the
\* name means at any moment is a whole version, through deaths of writers and
\* copiers and leftovers of their temporary files, unless a write to it, or to
\* the file it was copied from, has failed, or two cofiles were open on one
\* temporary name, or the source of a copy was exchanged before copyfile opened
\* it.
WholeFiles ==
  ~clash => \A f \in Files : pub[f] # 0 =>
    \/ VersionsAt(pub[f]) # {}
    \/ inode[pub[f]].torn
    \/ f = Dst /\ \E k \in Copiers : spoilt[k] = "early"

\* No version is lost unread: it is still under a name, or has been read to the
\* end, or a newer file has taken its place, unless it was published while a
\* consumer had the name open, whose remove() then hits the wrong file.
NoneLost ==
  ~clash => \A v \in issued :
    \/ \E f \in Names : v \in VersionsAt(pub[f])
    \/ v \in read \cup replaced \cup raced

\* What copyfile is to make: the content and the time of its source.
Faithful(k) ==
  /\ pub[Dst] # 0
  /\ inode[pub[Dst]].data = inode[pub[fin[k].file]].data
  /\ inode[pub[Dst]].time = inode[pub[fin[k].file]].time

\* When copyfile has returned true the copy has the content and the time of
\* its source, if the source was left alone, no other copy has come since, and
\* none of the calls that copyfile does not test has failed.
CopySame ==
  ~clash => \A k \in Copiers : pc[k] = "copied" /\ spoilt[k] = "no" => Faithful(k)

\* The same without the last condition, as public.h has it, where copyfile is to
\* return false when the disk is full or it has no permission.
CopyAsSaid ==
  ~clash => \A k \in Copiers :
    pc[k] = "copied" /\ spoilt[k] \in {"no", "failed"} => Faithful(k)

\* What a reader of the directory may take for granted of published files and copies.
FilesSound == WholeFiles /\ CopySame

\* Every version published is read in the end, whichever consumers die half-way
\* through it, with the same exceptions as NoneLost.
AllRead ==
  \A v \in Versions : v \in issued ~> (clash \/ v \in read \cup replaced \cup raced)
=============================================================================
