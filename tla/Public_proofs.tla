---------------------------- MODULE Public_proofs ----------------------------
(***************************************************************************)
(* Proofs about four parts of the library public.  The log file            *)
(* (LogFile), for any number of threads, lines and seconds: the spin lock  *)
(* excludes, and a log that is rotated while it is written keeps every     *)
(* line once and in order, but for a clash of backup names.  Messages      *)
(* (TcpFrame): for any script of messages, header length and buffer, what  *)
(* tcpread returns is what tcpwrite sent.  Sockets (TcpConn): for any      *)
(* number of descriptors and any set of inherited files a handle names a   *)
(* socket of its own object, and only the two leaks of OnlyTheseLeak       *)
(* exist.  Times (TimeTools): for any regular calendar, any set of summer  *)
(* seconds and any move of the clock, a time written and read back is the  *)
(* time it was, but for the hour that summer time adds.                    *)
(***************************************************************************)
EXTENDS LogFile, TcpConn, TcpFrame, TimeTools, FiniteSetTheorems, TLAPS

-----------------------------------------------------------------------------
\* The spin lock is held by the one thread that is between its two calls.
HeldInv == \A t \in Threads : lock = t <=> pc[t] \in Held

\* Until a rotation fails the stream is closed only in the middle of one; an open
\* stream has a file.
StreamInv ==
  /\ ~failed => good /\ (isopen \/ \E t \in Threads : pc[t] \in {"rename", "reopen"})
  /\ \A t \in Threads : pc[t] \in {"rename", "reopen"} => ~isopen
  /\ isopen => disk[Log] # Absent

\* The line a thread is logging is neither in a file before it has put it there,
\* nor among the refused ones before write() has returned.
Unput == {"test", "size", "rotate", "close", "rename", "reopen", "release", "spin", "put"}
PastInv ==
  \A t \in Threads :
    /\ pc[t] # "idle" => count[t] >= 1
    /\ \A i \in 1 .. Lines :
         /\ <<t, i>> \in OnDisk => i <= count[t] /\ (pc[t] \in Unput => i < count[t])
         /\ <<t, i>> \in refused => i <= count[t] /\ (pc[t] # "idle" => i < count[t])

\* No backup is newer than the one that is about to be made.
BackupInv ==
  /\ \A n \in Secs : disk[n] # Absent => n <= sec
  /\ \A t \in Threads : pc[t] = "rename" =>
       bak[t] <= sec /\ \A n \in Secs : disk[n] # Absent => n <= bak[t]

LogInv == TypeOK /\ HeldInv /\ StreamInv /\ PastInv /\ BackupInv /\ LogSound

-----------------------------------------------------------------------------
\* Names and lines.
LEMMA NameFacts ==
  /\ Log \in Names /\ Log \notin Secs /\ Secs \subseteq Names
  /\ Log \in Nat /\ Secs \subseteq Nat
  /\ \A n \in Secs : n < Log
  /\ \A n \in Names : n # Log => n \in Secs
BY LogFileAssumption DEF LogFileAssumption, Log, Names, Secs

\* What it means to be in a file.
LEMMA LineIn ==
  ASSUME TypeOK, NEW n \in Names, NEW x
  PROVE  x \in LinesIn(n) <=> disk[n] # Absent /\ \E a \in DOMAIN disk[n] : disk[n][a] = x
BY DEF LinesIn, Range

LEMMA LinesTyped ==
  ASSUME TypeOK
  PROVE  /\ \A n \in Names : LinesIn(n) \subseteq Line
         /\ OnDisk \subseteq Line
<1>1. ASSUME NEW n \in Names PROVE LinesIn(n) \subseteq Line
  <2>1. disk[n] # Absent => \A a \in DOMAIN disk[n] : disk[n][a] \in Line
    BY DEF TypeOK
  <2> QED
    BY <2>1 DEF LinesIn, Range
<1> QED
  BY <1>1 DEF OnDisk

\* A line put at the end of a file.
LEMMA AppendedLine ==
  ASSUME NEW S, NEW s \in Seq(S), NEW x \in S
  PROVE  /\ Append(s, x) \in Seq(S)
         /\ DOMAIN Append(s, x) = DOMAIN s \cup {Len(s) + 1}
         /\ DOMAIN s = 1 .. Len(s) /\ Len(s) \in Nat
         /\ \A a \in DOMAIN s : Append(s, x)[a] = s[a]
         /\ Append(s, x)[Len(s) + 1] = x
         /\ Range(Append(s, x)) = Range(s) \cup {x}
<1> DEFINE m == Append(s, x)
<1>1. /\ m \in Seq(S)
      /\ DOMAIN m = DOMAIN s \cup {Len(s) + 1}
      /\ DOMAIN s = 1 .. Len(s) /\ Len(s) \in Nat
      /\ \A a \in DOMAIN s : m[a] = s[a]
      /\ m[Len(s) + 1] = x
  OBVIOUS
<1> HIDE DEF m
<1>2. \A y : y \in Range(m) <=> y \in Range(s) \/ y = x
  BY <1>1 DEF Range
<1>3. Range(m) = Range(s) \cup {x}
  BY <1>2
<1> QED
  BY <1>1, <1>3 DEF m

-----------------------------------------------------------------------------
LEMMA LogInvInit == Init => LogInv
<1> SUFFICES ASSUME Init PROVE LogInv
  OBVIOUS
<1> USE LogFileAssumption, NameFacts DEF LogFileAssumption
<1>1. TypeOK
  <2>1. disk \in [Names -> {Absent} \cup Seq(Line)]
    <3>1. <<>> \in Seq(Line)
      OBVIOUS
    <3> QED
      BY <3>1 DEF Init
  <2>2. sec \in Secs /\ bak \in [Threads -> Secs] /\ count \in [Threads -> 0 .. Lines]
    BY DEF Init, Secs
  <2> QED
    BY <2>1, <2>2 DEF Init, TypeOK
<1>2. \A n \in Names : LinesIn(n) = {}
  BY DEF Init, LinesIn, Range
<1>3. OnDisk = {}
  BY <1>2 DEF OnDisk
<1>4. HeldInv
  BY DEF Init, HeldInv, Held
<1>5. StreamInv
  <2>1. disk[Log] \in Seq(Line)
    BY DEF Init
  <2> QED
    BY <2>1 DEF Init, StreamInv
<1>6. PastInv
  BY <1>3 DEF Init, PastInv
<1>7. BackupInv
  BY DEF Init, BackupInv, Secs
<1>8. LogSound
  BY <1>2, <1>3
  DEF Init, LogSound, OnceInOrder, AtMostOnce, InOrder, LossOnlyByClash, IsInjective
<1> QED
  BY <1>1, <1>4, <1>5, <1>6, <1>7, <1>8 DEF LogInv

\* What a line is, where it is put.
LEMMA ThisLine ==
  ASSUME TypeOK, PastInv, NEW t \in Threads, pc[t] # "idle"
  PROVE  This(t) \in Line
BY LogFileAssumption DEF LogFileAssumption, TypeOK, PastInv, This, Line

LEMMA TypeStep ==
  ASSUME LogInv, [Next]_vars
  PROVE  TypeOK'
<1> USE LogFileAssumption, NameFacts
    DEF LogFileAssumption, LogInv, TypeOK, Goto, stream, history
<1>1. CASE Tick
  BY <1>1 DEF Tick, Secs
<1>2. ASSUME NEW t \in Threads, Write(t) PROVE TypeOK'
  <2>1. <<t, count[t] + 1>> \in Line /\ count[t] + 1 \in 0 .. Lines
    BY <1>2 DEF Write, Line
  <2> QED
    BY <1>2, <2>1 DEF Write
<1>3. ASSUME NEW t \in Threads, Shift(t) PROVE TypeOK'
  BY <1>3 DEF Shift
<1>4. ASSUME NEW t \in Threads, Test(t) \/ Size(t) PROVE TypeOK'
  BY <1>4 DEF Test, Size
<1>5. ASSUME NEW t \in Threads, Acquire(t) PROVE TypeOK'
  BY <1>5 DEF Acquire, Held
<1>6. ASSUME NEW t \in Threads, Release(t) \/ Unlock(t) PROVE TypeOK'
  <2>1. 0 \in Secs
    BY DEF Secs
  <2> QED
    BY <1>6, <2>1 DEF Release, Unlock
<1>7. ASSUME NEW t \in Threads, CloseOld(t) PROVE TypeOK'
  BY <1>7 DEF CloseOld, Held
<1>8. ASSUME NEW t \in Threads, Rename(t) PROVE TypeOK'
  BY <1>8 DEF Rename, Held
<1>9. ASSUME NEW t \in Threads, Reopen(t) PROVE TypeOK'
  <2>1. <<>> \in Seq(Line)
    OBVIOUS
  <2>2. disk' \in [Names -> {Absent} \cup Seq(Line)]
    BY <1>9, <2>1 DEF Reopen
  <2>3. isopen' \in BOOLEAN /\ good' \in BOOLEAN /\ failed' \in BOOLEAN
    BY <1>9, Zenon DEF Reopen
  <2>4. tell' \in Nat
    BY <1>9 DEF Reopen
  <2> QED
    BY <1>9, <2>2, <2>3, <2>4 DEF Reopen, Held
<1>10. ASSUME NEW t \in Threads, Put(t) PROVE TypeOK'
  <2>1. This(t) \in Line
    BY <1>10, ThisLine DEF Put
  <2>2. CASE isopen
    <3>1. disk[Log] \in Seq(Line)
      BY <2>2 DEF StreamInv
    <3>2. Append(disk[Log], This(t)) \in Seq(Line) /\ Len(disk[Log]) + 1 \in Nat
      BY <2>1, <3>1
    <3> QED
      BY <1>10, <2>1, <2>2, <3>2 DEF Put, Inserted, Held
  <2> QED
    BY <1>10, <2>2 DEF Put, Held
<1>11. ASSUME NEW t \in Threads, Return(t) PROVE TypeOK'
  <2>1. This(t) \in Line
    BY <1>11, ThisLine DEF Return
  <2> QED
    BY <1>11, <2>1 DEF Return
<1>12. CASE UNCHANGED vars
  BY <1>12 DEF vars
<1> QED
  BY <1>1, <1>2, <1>3, <1>4, <1>5, <1>6, <1>7, <1>8, <1>9, <1>10, <1>11, <1>12
  DEF Next, Finished, ThreadStep, Spin

-----------------------------------------------------------------------------
LEMMA HeldStep ==
  ASSUME TypeOK, HeldInv, [Next]_vars
  PROVE  HeldInv'
<1> USE LogFileAssumption DEF LogFileAssumption, TypeOK, HeldInv, Held, Goto
<1>1. CASE Tick
  BY <1>1 DEF Tick
<1>2. ASSUME NEW t \in Threads, Write(t) \/ Shift(t) PROVE HeldInv'
  BY <1>2 DEF Write, Shift
<1>3. ASSUME NEW t \in Threads, Test(t) \/ Size(t) PROVE HeldInv'
  BY <1>3 DEF Test, Size
<1>4. ASSUME NEW t \in Threads, Acquire(t) PROVE HeldInv'
  BY <1>4 DEF Acquire
<1>5. ASSUME NEW t \in Threads, CloseOld(t) \/ Rename(t) \/ Reopen(t) \/ Put(t) PROVE HeldInv'
  BY <1>5 DEF CloseOld, Rename, Reopen, Put
<1>6. ASSUME NEW t \in Threads, Release(t) \/ Unlock(t) PROVE HeldInv'
  BY <1>6 DEF Release, Unlock
<1>7. ASSUME NEW t \in Threads, Return(t) PROVE HeldInv'
  BY <1>7 DEF Return
<1>8. CASE UNCHANGED vars
  BY <1>8 DEF vars
<1> QED
  BY <1>1, <1>2, <1>3, <1>4, <1>5, <1>6, <1>7, <1>8 DEF Next, Finished, ThreadStep, Spin

LEMMA StreamStep ==
  ASSUME LogInv, [Next]_vars
  PROVE  StreamInv'
<1> USE LogFileAssumption, NameFacts
    DEF LogFileAssumption, LogInv, TypeOK, HeldInv, StreamInv, Goto, stream, history
<1>1. CASE Tick
  BY <1>1 DEF Tick
<1>2. ASSUME NEW t \in Threads, Write(t) \/ Shift(t) \/ Test(t) \/ Size(t) PROVE StreamInv'
  BY <1>2 DEF Write, Shift, Test, Size
<1>3. ASSUME NEW t \in Threads, Acquire(t) PROVE StreamInv'
  BY <1>3 DEF Acquire
<1>4. ASSUME NEW t \in Threads, CloseOld(t) PROVE StreamInv'
  <2>1. ~failed => isopen
    BY <1>4 DEF CloseOld, Held
  <2> QED
    BY <1>4, <2>1 DEF CloseOld
<1>5. ASSUME NEW t \in Threads, Rename(t) PROVE StreamInv'
  BY <1>5 DEF Rename
<1>6. ASSUME NEW t \in Threads, Reopen(t) PROVE StreamInv'
  <2>1. \A u \in Threads : u # t => pc'[u] \notin {"rename", "reopen"}
    BY <1>6 DEF Reopen, Held
  <2>2. <<>> # Absent
    <3>1. <<>> \in Seq(Line)
      OBVIOUS
    <3> QED
      BY <3>1
  <2> QED
    BY <1>6, <2>1, <2>2 DEF Reopen
<1>7. ASSUME NEW t \in Threads, Release(t) \/ Unlock(t) PROVE StreamInv'
  BY <1>7 DEF Release, Unlock
<1>8. ASSUME NEW t \in Threads, Put(t) PROVE StreamInv'
  <2>1. ~failed => isopen
    BY <1>8 DEF Put, Held
  <2>2. CASE isopen
    <3>1. Append(disk[Log], This(t)) \in Seq(Line)
      BY <1>8, <2>2, ThisLine DEF Put
    <3>2. disk'[Log] # Absent
      BY <1>8, <2>2, <3>1 DEF Put, Inserted
    <3> QED
      BY <1>8, <2>2, <3>2 DEF Put
  <2> QED
    BY <1>8, <2>1, <2>2 DEF Put
<1>9. ASSUME NEW t \in Threads, Return(t) PROVE StreamInv'
  BY <1>9 DEF Return
<1>10. CASE UNCHANGED vars
  BY <1>10 DEF vars
<1> QED
  BY <1>1, <1>2, <1>3, <1>4, <1>5, <1>6, <1>7, <1>8, <1>9, <1>10
  DEF Next, Finished, ThreadStep, Spin

LEMMA BackupStep ==
  ASSUME LogInv, [Next]_vars
  PROVE  BackupInv'
<1> USE LogFileAssumption, NameFacts
    DEF LogFileAssumption, LogInv, TypeOK, HeldInv, BackupInv, Goto, stream, history
<1>1. CASE Tick
  BY <1>1 DEF Tick, Secs
<1>2. ASSUME NEW t \in Threads, Write(t) \/ Shift(t) \/ Test(t) \/ Size(t) PROVE BackupInv'
  BY <1>2 DEF Write, Shift, Test, Size
<1>3. ASSUME NEW t \in Threads, Acquire(t) PROVE BackupInv'
  BY <1>3 DEF Acquire
<1>4. ASSUME NEW t \in Threads, CloseOld(t) PROVE BackupInv'
  BY <1>4 DEF CloseOld, Held
<1>5. ASSUME NEW t \in Threads, Rename(t) PROVE BackupInv'
  <2>1. \A u \in Threads : pc'[u] # "rename"
    BY <1>5 DEF Rename, Held
  <2>2. \A n \in Secs : disk'[n] # Absent => n = bak[t] \/ disk[n] # Absent
    BY <1>5 DEF Rename
  <2> QED
    BY <1>5, <2>1, <2>2 DEF Rename
<1>6. ASSUME NEW t \in Threads, Reopen(t) PROVE BackupInv'
  <2>1. \A n \in Secs : disk'[n] = disk[n]
    BY <1>6 DEF Reopen
  <2> QED
    BY <1>6, <2>1 DEF Reopen
<1>7. ASSUME NEW t \in Threads, Release(t) \/ Unlock(t) PROVE BackupInv'
  <2>1. \A u \in Threads : pc'[u] = "rename" => pc[u] = "rename" /\ bak'[u] = bak[u]
    BY <1>7 DEF Release, Unlock
  <2> QED
    BY <1>7, <2>1 DEF Release, Unlock
<1>8. ASSUME NEW t \in Threads, Put(t) PROVE BackupInv'
  <2>1. \A n \in Secs : disk'[n] = disk[n]
    BY <1>8 DEF Put
  <2> QED
    BY <1>8, <2>1 DEF Put
<1>9. ASSUME NEW t \in Threads, Return(t) PROVE BackupInv'
  BY <1>9 DEF Return
<1>10. CASE UNCHANGED vars
  BY <1>10 DEF vars
<1> QED
  BY <1>1, <1>2, <1>3, <1>4, <1>5, <1>6, <1>7, <1>8, <1>9, <1>10
  DEF Next, Finished, ThreadStep, Spin

-----------------------------------------------------------------------------
(***************************************************************************)
(* What the three steps that change files do to the lines in them.         *)
(***************************************************************************)
\* A rotation moves the log's lines to the backup; what was there is lost.
LEMMA RenamedLines ==
  ASSUME LogInv, NEW t \in Threads, Rename(t), disk' # disk, NEW b, b = bak[t]
  PROVE  /\ b \in Secs /\ disk[Log] # Absent
         /\ disk'[b] = disk[Log] /\ disk'[Log] = Absent
         /\ \A n \in Names : n # b /\ n # Log => disk'[n] = disk[n]
         /\ LinesIn(b)' = LinesIn(Log) /\ LinesIn(Log)' = {}
         /\ \A n \in Names : n # b /\ n # Log => LinesIn(n)' = LinesIn(n)
         /\ OnDisk' \subseteq OnDisk
         /\ disk[b] = Absent => OnDisk' = OnDisk
<1> USE NameFacts DEF LogInv, TypeOK
<1>1. /\ b \in Secs /\ disk[Log] # Absent
      /\ disk'[b] = disk[Log] /\ disk'[Log] = Absent
      /\ \A n \in Names : n # b /\ n # Log => disk'[n] = disk[n]
  BY DEF Rename
<1>2. LinesIn(b)' = LinesIn(Log) /\ LinesIn(Log)' = {}
  BY <1>1 DEF LinesIn
<1>3. \A n \in Names : n # b /\ n # Log => LinesIn(n)' = LinesIn(n)
  BY <1>1 DEF LinesIn
<1>4. b \in Names
  BY <1>1
<1>5. \A x \in OnDisk' : x \in OnDisk
  <2> TAKE x \in OnDisk'
  <2>1. PICK n \in Names : x \in LinesIn(n)'
    BY DEF OnDisk
  <2>2. x \in LinesIn(n) \/ x \in LinesIn(Log)
    BY <2>1, <1>2, <1>3
  <2> QED
    BY <2>2 DEF OnDisk
<1>6. disk[b] = Absent => \A x \in OnDisk : x \in OnDisk'
  <2> SUFFICES ASSUME disk[b] = Absent, NEW x \in OnDisk PROVE x \in OnDisk'
    OBVIOUS
  <2>1. PICK n \in Names : x \in LinesIn(n)
    BY DEF OnDisk
  <2>2. n # b
    BY <2>1 DEF LinesIn
  <2>3. x \in LinesIn(n)' \/ x \in LinesIn(b)'
    BY <2>1, <2>2, <1>2, <1>3
  <2> QED
    BY <2>3, <1>4 DEF OnDisk
<1> QED
  BY <1>1, <1>2, <1>3, <1>5, <1>6

\* An open changes no lines.
LEMMA ReopenedLines ==
  ASSUME LogInv, NEW t \in Threads, Reopen(t)
  PROVE  /\ \A n \in Names : LinesIn(n)' = LinesIn(n)
         /\ \A n \in Names : disk'[n] # Absent =>
              disk'[n] = disk[n] \/ (disk'[n] = <<>> /\ disk[n] = Absent)
         /\ OnDisk' = OnDisk
<1> USE NameFacts DEF LogInv, TypeOK
<1>1. \A n \in Names : disk'[n] # Absent =>
        disk'[n] = disk[n] \/ (disk'[n] = <<>> /\ disk[n] = Absent)
  BY DEF Reopen
<1>2. \A n \in Names : disk'[n] = Absent => disk[n] = Absent
  BY LogFileAssumption DEF Reopen, LogFileAssumption
<1>3. Range(<<>>) = {}
  BY DEF Range
<1>4. \A n \in Names : LinesIn(n)' = LinesIn(n)
  BY <1>1, <1>2, <1>3 DEF LinesIn
<1> QED
  BY <1>1, <1>4 DEF OnDisk

\* An insertion adds one line at the end of the log.
LEMMA PutLines ==
  ASSUME LogInv, NEW t \in Threads, Put(t), isopen
  PROVE  /\ disk[Log] \in Seq(Line) /\ This(t) \in Line
         /\ disk'[Log] = Append(disk[Log], This(t)) /\ disk'[Log] # Absent
         /\ \A n \in Secs : disk'[n] = disk[n]
         /\ LinesIn(Log)' = LinesIn(Log) \cup {This(t)}
         /\ \A n \in Secs : LinesIn(n)' = LinesIn(n)
         /\ OnDisk' = OnDisk \cup {This(t)}
<1> USE NameFacts DEF LogInv, TypeOK
<1>1. disk[Log] # Absent /\ disk[Log] \in Seq(Line) /\ This(t) \in Line
  BY ThisLine DEF StreamInv, Put
<1>2. disk'[Log] = Append(disk[Log], This(t)) /\ \A n \in Secs : disk'[n] = disk[n]
  BY DEF Put, Inserted
<1>3. disk'[Log] # Absent
  <2>1. Append(disk[Log], This(t)) \in Seq(Line)
    BY <1>1
  <2> QED
    BY <1>2, <2>1, LogFileAssumption DEF LogFileAssumption
<1>4. LinesIn(Log)' = LinesIn(Log) \cup {This(t)} /\ \A n \in Secs : LinesIn(n)' = LinesIn(n)
  BY <1>1, <1>2, <1>3, AppendedLine DEF LinesIn
<1>5. OnDisk' = OnDisk \cup {This(t)}
  BY <1>4 DEF OnDisk
<1> QED
  BY <1>1, <1>2, <1>3, <1>4, <1>5

\* The other steps leave the files as they are.
LEMMA FilesChange ==
  ASSUME [Next]_vars, disk' # disk
  PROVE  \E t \in Threads : Rename(t) \/ Reopen(t) \/ (Put(t) /\ isopen)
BY DEF Next, Finished, ThreadStep, Tick, Write, Shift, Test, Size, Acquire, Spin, CloseOld,
       Release, Put, Unlock, Return, stream, history, vars

-----------------------------------------------------------------------------
LEMMA SameFiles ==
  ASSUME disk' = disk
  PROVE  OnDisk' = OnDisk /\ \A n \in Names : LinesIn(n)' = LinesIn(n)
<1>1. \A n \in Names : LinesIn(n)' = LinesIn(n)
  BY DEF LinesIn
<1> QED
  BY <1>1 DEF OnDisk

LEMMA PastStep ==
  ASSUME LogInv, [Next]_vars
  PROVE  PastInv'
<1> USE LogFileAssumption, NameFacts
    DEF LogFileAssumption, LogInv, TypeOK, PastInv, Goto, stream, history
<1>1. CASE Tick
  BY <1>1, SameFiles DEF Tick
<1>2. ASSUME NEW t \in Threads, Write(t) \/ Shift(t) PROVE PastInv'
  <2>1. OnDisk' = OnDisk
    BY <1>2, SameFiles DEF Write, Shift
  <2>2. \A u \in Threads : count'[u] = IF u = t THEN count[t] + 1 ELSE count[u]
    BY <1>2 DEF Write, Shift
  <2>3. \A u \in Threads : u # t => pc'[u] = pc[u]
    BY <1>2 DEF Write, Shift
  <2>4. pc[t] = "idle" /\ count[t] \in Nat
    BY <1>2 DEF Write, Shift
  <2>5. \A x \in refused' : x \in refused \/ (x = <<t, count[t] + 1>> /\ pc'[t] = "idle")
    BY <1>2 DEF Write, Shift
  <2> QED
    BY <2>1, <2>2, <2>3, <2>4, <2>5
<1>3. ASSUME NEW t \in Threads, Test(t) \/ Size(t) PROVE PastInv'
  BY <1>3, SameFiles DEF Test, Size, Unput
<1>4. ASSUME NEW t \in Threads, Acquire(t) PROVE PastInv'
  BY <1>4, SameFiles DEF Acquire, Unput
<1>5. ASSUME NEW t \in Threads, CloseOld(t) PROVE PastInv'
  BY <1>5, SameFiles DEF CloseOld, Unput
<1>6. ASSUME NEW t \in Threads, Rename(t) PROVE PastInv'
  <2>1. OnDisk' \subseteq OnDisk
    BY <1>6, SameFiles, RenamedLines
  <2> QED
    BY <1>6, <2>1 DEF Rename, Unput
<1>7. ASSUME NEW t \in Threads, Reopen(t) PROVE PastInv'
  BY <1>7, ReopenedLines DEF Reopen, Unput
<1>8. ASSUME NEW t \in Threads, Release(t) PROVE PastInv'
  BY <1>8, SameFiles DEF Release, Unput
<1>9. ASSUME NEW t \in Threads, Put(t) PROVE PastInv'
  <2>1. \A x \in OnDisk' : x \in OnDisk \/ x = <<t, count[t]>>
    <3>1. CASE isopen
      <4>1. OnDisk' = OnDisk \cup {This(t)}
        BY <1>9, <3>1, PutLines
      <4> QED
        BY <4>1 DEF This
    <3>2. CASE ~isopen
      BY <1>9, <3>2, SameFiles DEF Put
    <3> QED
      BY <3>1, <3>2
  <2>2. pc' = [pc EXCEPT ![t] = "unlock"] /\ UNCHANGED <<count, refused>> /\ pc[t] = "put"
    BY <1>9 DEF Put
  <2> QED
    BY <2>1, <2>2 DEF Unput
<1>10. ASSUME NEW t \in Threads, Unlock(t) PROVE PastInv'
  BY <1>10, SameFiles DEF Unlock, Unput
<1>11. ASSUME NEW t \in Threads, Return(t) PROVE PastInv'
  <2>1. OnDisk' = OnDisk
    BY <1>11, SameFiles DEF Return
  <2>2. \A x \in refused' : x \in refused \/ x = <<t, count[t]>>
    BY <1>11 DEF Return, This
  <2>3. pc' = [pc EXCEPT ![t] = "idle"] /\ UNCHANGED count /\ pc[t] = "return"
    BY <1>11 DEF Return
  <2> QED
    BY <2>1, <2>2, <2>3 DEF Unput
<1>12. CASE UNCHANGED vars
  BY <1>12, SameFiles DEF vars
<1> QED
  BY <1>1, <1>2, <1>3, <1>4, <1>5, <1>6, <1>7, <1>8, <1>9, <1>10, <1>11, <1>12
  DEF Next, Finished, ThreadStep, Spin

-----------------------------------------------------------------------------
\* As long as no rotation has failed, what is refused is not written.
LEMMA RefusedStep ==
  ASSUME LogInv, [Next]_vars, ~failed'
  PROVE  refused' \cap OnDisk' = {}
<1>1. ~failed /\ refused \cap OnDisk = {} /\ good
  <2>1. ~failed
    BY DEF Next, Finished, ThreadStep, Tick, Write, Shift, Test, Size, Acquire, Spin,
           CloseOld, Rename, Reopen, Release, Put, Unlock, Return, stream, history, vars
  <2> QED
    BY <2>1 DEF LogInv, LogSound, OnceInOrder, AtMostOnce, StreamInv
<1>2. ASSUME NEW t \in Threads, Write(t) PROVE refused' \cap OnDisk' = {}
  <2>1. OnDisk' = OnDisk
    BY <1>2, SameFiles DEF Write, stream
  <2>2. count[t] + 1 \in 1 .. Lines /\ t \in Threads /\ ~(count[t] + 1 <= count[t])
    BY <1>2, LogFileAssumption DEF Write, LogInv, TypeOK, LogFileAssumption
  <2>3. <<t, count[t] + 1>> \notin OnDisk
    BY <2>2 DEF LogInv, PastInv
  <2> QED
    BY <1>1, <1>2, <2>1, <2>3 DEF Write
<1>3. ASSUME NEW t \in Threads, Put(t), isopen PROVE refused' \cap OnDisk' = {}
  <2>1. OnDisk' = OnDisk \cup {This(t)} /\ This(t) \in Line
    BY <1>3, PutLines
  <2>2. This(t) \notin refused
    <3>1. count[t] \in 1 .. Lines /\ pc[t] # "idle" /\ ~(count[t] < count[t])
      BY <1>3, <2>1, LogFileAssumption DEF This, Line, Put, LogFileAssumption
    <3> QED
      BY <3>1 DEF LogInv, PastInv, This
  <2> QED
    BY <1>1, <1>3, <2>1, <2>2 DEF Put
<1>4. ASSUME NEW t \in Threads, Rename(t) PROVE refused' \cap OnDisk' = {}
  <2>1. OnDisk' \subseteq OnDisk
    BY <1>4, SameFiles, RenamedLines
  <2> QED
    BY <1>1, <1>4, <2>1 DEF Rename
<1>5. ASSUME NEW t \in Threads, Reopen(t) PROVE refused' \cap OnDisk' = {}
  BY <1>1, <1>5, ReopenedLines DEF Reopen
<1>6. CASE UNCHANGED <<disk, refused>>
  BY <1>1, <1>6, SameFiles
<1> QED
  BY <1>1, <1>2, <1>3, <1>4, <1>5, <1>6
  DEF Next, Finished, ThreadStep, Tick, Shift, Test, Size, Acquire, Spin, CloseOld, Release,
      Put, Unlock, Return, stream, history, vars

\* The files stay apart, and no line comes twice.
Apart ==
  \A m, n \in Names :
    /\ m # n => LinesIn(m) \cap LinesIn(n) = {}
    /\ disk[m] # Absent => IsInjective(disk[m])

LEMMA ApartStep ==
  ASSUME LogInv, [Next]_vars
  PROVE  Apart'
<1> USE NameFacts DEF Apart
<1>1. Apart
  BY DEF LogInv, LogSound, OnceInOrder, AtMostOnce
<1>2. CASE disk' = disk
  BY <1>1, <1>2, SameFiles
<1>3. ASSUME NEW t \in Threads, Rename(t), disk' # disk PROVE Apart'
  <2>1. PICK b : b = bak[t]
    OBVIOUS
  <2> HIDE NameFacts
  <2>2. /\ b \in Names /\ Log \in Names /\ b # Log
        /\ disk'[b] = disk[Log] /\ disk'[Log] = Absent
        /\ \A n \in Names : n # b /\ n # Log => disk'[n] = disk[n]
        /\ LinesIn(b)' = LinesIn(Log) /\ LinesIn(Log)' = {}
        /\ \A n \in Names : n # b /\ n # Log => LinesIn(n)' = LinesIn(n)
    BY <1>3, <2>1, RenamedLines, NameFacts
  <2>3. \A m, n \in Names : m # n => LinesIn(m)' \cap LinesIn(n)' = {}
    BY <1>1, <2>2
  <2>4. \A m \in Names : disk'[m] # Absent => IsInjective(disk'[m])
    BY <1>1, <2>2
  <2> QED
    BY <2>3, <2>4
<1>4. ASSUME NEW t \in Threads, Reopen(t) PROVE Apart'
  <2>1. IsInjective(<<>>)
    BY DEF IsInjective
  <2>2. \A m \in Names : disk'[m] # Absent => IsInjective(disk'[m])
    BY <1>1, <1>4, <2>1, ReopenedLines
  <2> QED
    BY <1>1, <1>4, <2>2, ReopenedLines
<1>5. ASSUME NEW t \in Threads, Put(t), isopen PROVE Apart'
  <2>1. /\ disk[Log] \in Seq(Line) /\ This(t) \in Line
        /\ disk'[Log] = Append(disk[Log], This(t))
        /\ \A n \in Secs : disk'[n] = disk[n]
        /\ LinesIn(Log)' = LinesIn(Log) \cup {This(t)}
        /\ \A n \in Secs : LinesIn(n)' = LinesIn(n)
    BY <1>5, PutLines
  <2>2. This(t) \notin OnDisk
    <3>1. count[t] \in 1 .. Lines /\ pc[t] \in Unput /\ ~(count[t] < count[t])
      BY <1>5, <2>1, LogFileAssumption DEF This, Line, Put, Unput, LogFileAssumption
    <3> QED
      BY <3>1 DEF LogInv, PastInv, This
  <2>3. \A n \in Names : This(t) \notin LinesIn(n)
    BY <2>2 DEF OnDisk
  <2>4. \A m, n \in Names : m # n => LinesIn(m)' \cap LinesIn(n)' = {}
    BY <1>1, <2>1, <2>3
  <2>5. disk[Log] # Absent /\ Range(disk[Log]) = LinesIn(Log)
    BY <1>5 DEF LogInv, StreamInv, LinesIn
  <2>6. IsInjective(disk'[Log])
    <3>1. PICK s \in Seq(Line) : s = disk[Log]
      BY <2>1
    <3>2. PICK m \in Seq(Line) : m = disk'[Log]
      BY <2>1, <3>1, AppendedLine
    <3>3. /\ DOMAIN m = DOMAIN s \cup {Len(s) + 1}
          /\ \A a \in DOMAIN s : m[a] = s[a]
          /\ m[Len(s) + 1] = This(t)
      BY <2>1, <3>1, <3>2, AppendedLine
    <3>4. \A a \in DOMAIN s : s[a] # This(t)
      BY <2>3, <2>5, <3>1 DEF Range
    <3>5. \A a, b \in DOMAIN s : s[a] = s[b] => a = b
      BY <1>1, <2>5, <3>1 DEF IsInjective
    <3>6. \A a, b \in DOMAIN m : m[a] = m[b] => a = b
      BY <3>3, <3>4, <3>5
    <3> QED
      BY <3>2, <3>6 DEF IsInjective
  <2>7. \A m \in Names : disk'[m] # Absent => IsInjective(disk'[m])
    BY <1>1, <2>1, <2>6
  <2> QED
    BY <2>4, <2>7
<1> QED
  BY <1>2, <1>3, <1>4, <1>5, FilesChange

\* Two lines of one thread stay in order.  b is the name a rotation uses.
LEMMA OrderStep ==
  ASSUME LogInv, TypeOK', [Next]_vars
  PROVE  InOrder'
<1> SUFFICES ASSUME NEW u \in Threads, NEW i \in 1 .. Lines, NEW j \in 1 .. Lines, i < j,
                    NEW n \in Names, NEW m \in Names,
                    <<u, i>> \in LinesIn(n)', <<u, j>> \in LinesIn(m)'
             PROVE  \/ n < m
                    \/ n = m /\ \A a, b \in DOMAIN disk'[n] :
                                   disk'[n][a] = <<u, i>> /\ disk'[n][b] = <<u, j>> => a < b
  BY DEF InOrder
<1> DEFINE Ordered(k, l) ==
      \/ k < l
      \/ k = l /\ \A a, b \in DOMAIN disk[k] : disk[k][a] = <<u, i>> /\ disk[k][b] = <<u, j>> => a < b
<1>1. \A k, l \in Names : <<u, i>> \in LinesIn(k) /\ <<u, j>> \in LinesIn(l) => Ordered(k, l)
  BY DEF LogInv, LogSound, OnceInOrder, InOrder
<1>2. CASE disk' = disk
  <2>1. <<u, i>> \in LinesIn(n) /\ <<u, j>> \in LinesIn(m)
    BY <1>2, SameFiles
  <2> QED
    BY <1>1, <1>2, <2>1
<1>3. ASSUME NEW t \in Threads, Rename(t), disk' # disk
      PROVE  \/ n < m
             \/ n = m /\ \A a, b \in DOMAIN disk'[n] :
                            disk'[n][a] = <<u, i>> /\ disk'[n][b] = <<u, j>> => a < b
  <2>1. PICK b : b = bak[t]
    OBVIOUS
  <2>2. /\ b \in Secs /\ disk'[b] = disk[Log] /\ disk'[Log] = Absent
        /\ \A k \in Names : k # b /\ k # Log => disk'[k] = disk[k]
        /\ LinesIn(b)' = LinesIn(Log) /\ LinesIn(Log)' = {}
        /\ \A k \in Names : k # b /\ k # Log => LinesIn(k)' = LinesIn(k)
    BY <1>3, <2>1, RenamedLines
  <2>3. n # Log /\ m # Log
    BY <2>2
  <2>4. \A k \in Secs : disk[k] # Absent => k <= b
    BY <1>3, <2>1 DEF LogInv, BackupInv, Rename
  <2>5. CASE n = b /\ m = b
    BY <1>1, <2>2, <2>5, NameFacts
  <2>6. CASE n = b /\ m # b
    <3>1. Ordered(Log, m)
      BY <1>1, <2>2, <2>3, <2>6, NameFacts
    <3>2. ~(Log < m) /\ Log # m
      BY <2>3, NameFacts
    <3> QED
      BY <3>1, <3>2
  <2>7. CASE n # b /\ m = b
    <3>1. n \in Secs /\ disk[n] # Absent
      BY <2>2, <2>3, <2>7, NameFacts DEF LinesIn
    <3> QED
      BY <2>2, <2>4, <2>7, <3>1, NameFacts
  <2>8. CASE n # b /\ m # b
    BY <1>1, <2>2, <2>3, <2>8
  <2> QED
    BY <2>5, <2>6, <2>7, <2>8
<1>4. ASSUME NEW t \in Threads, Reopen(t)
      PROVE  \/ n < m
             \/ n = m /\ \A a, b \in DOMAIN disk'[n] :
                            disk'[n][a] = <<u, i>> /\ disk'[n][b] = <<u, j>> => a < b
  <2>1. /\ <<u, i>> \in LinesIn(n) /\ <<u, j>> \in LinesIn(m)
        /\ \A k \in Names : disk'[k] # Absent =>
             disk'[k] = disk[k] \/ (disk'[k] = <<>> /\ disk[k] = Absent)
    BY <1>4, ReopenedLines
  <2>2. disk[n] # Absent /\ disk'[n] # Absent
    BY <1>4, <2>1 DEF LinesIn
  <2> QED
    BY <1>1, <2>1, <2>2
<1>5. ASSUME NEW t \in Threads, Put(t), isopen
      PROVE  \/ n < m
             \/ n = m /\ \A a, b \in DOMAIN disk'[n] :
                            disk'[n][a] = <<u, i>> /\ disk'[n][b] = <<u, j>> => a < b
  <2>1. /\ disk[Log] \in Seq(Line) /\ This(t) \in Line
        /\ disk'[Log] = Append(disk[Log], This(t))
        /\ \A k \in Secs : disk'[k] = disk[k]
        /\ LinesIn(Log)' = LinesIn(Log) \cup {This(t)}
        /\ \A k \in Secs : LinesIn(k)' = LinesIn(k)
    BY <1>5, PutLines
  <2>2. \A x \in Threads, k \in 1 .. Lines : <<x, k>> \in OnDisk /\ x = t => k < count[t]
    BY <1>5 DEF LogInv, PastInv, Put, Unput
  <2>3. \A k \in Names : \A l \in 1 .. Lines : <<t, l>> \in LinesIn(k) => l < count[t]
    BY <2>2 DEF OnDisk
  <2>4. count[t] \in Nat
    BY DEF LogInv, TypeOK
  <2>5. <<u, i>> # This(t)
    <3> SUFFICES ASSUME u = t, i = count[t] PROVE FALSE
      BY DEF This
    <3>1. <<u, j>> # This(t)
      BY DEF This
    <3>2. <<u, j>> \in LinesIn(m)
      BY <2>1, <3>1, NameFacts
    <3> QED
      BY <2>3, <2>4, <3>2
  <2>6. <<u, i>> \in LinesIn(n)
    BY <2>1, <2>5, NameFacts
  <2>7. CASE n \in Secs /\ m = Log
    BY <2>7, NameFacts
  <2>8. CASE m \in Secs
    <3>1. <<u, j>> \in LinesIn(m)
      BY <2>1, <2>8
    <3>2. Ordered(n, m)
      BY <1>1, <2>6, <3>1
    <3>3. n # Log
      BY <2>8, <3>2, NameFacts
    <3>4. disk'[n] = disk[n]
      BY <2>1, <3>3, NameFacts
    <3> QED
      BY <3>2, <3>4
  <2>9. CASE n = Log /\ m = Log
    <3>1. PICK s \in Seq(Line) : s = disk[Log]
      BY <2>1
    <3>2. PICK f : f = disk'[Log]
      OBVIOUS
    <3>3. /\ DOMAIN f = DOMAIN s \cup {Len(s) + 1}
          /\ DOMAIN s = 1 .. Len(s) /\ Len(s) \in Nat
          /\ \A a \in DOMAIN s : f[a] = s[a]
          /\ f[Len(s) + 1] = This(t)
      BY <2>1, <3>1, <3>2, AppendedLine
    <3>4. ASSUME NEW a \in DOMAIN f, NEW b \in DOMAIN f, f[a] = <<u, i>>, f[b] = <<u, j>>
          PROVE  a < b
      <4>1. a \in DOMAIN s
        BY <2>5, <3>3, <3>4
      <4>2. CASE b = Len(s) + 1
        BY <3>3, <4>1, <4>2
      <4>3. CASE b \in DOMAIN s
        <5>1. disk[Log] # Absent
          BY <1>5 DEF LogInv, StreamInv
        <5>2. <<u, j>> \in LinesIn(Log)
          BY <3>1, <3>3, <3>4, <4>3, <5>1 DEF LinesIn, Range
        <5>3. Ordered(Log, Log)
          BY <1>1, <2>6, <2>9, <5>2
        <5>4. \A c, d \in DOMAIN s : s[c] = <<u, i>> /\ s[d] = <<u, j>> => c < d
          BY <3>1, <5>3, NameFacts
        <5>5. s[a] = <<u, i>> /\ s[b] = <<u, j>>
          BY <3>3, <3>4, <4>1, <4>3
        <5> QED
          BY <4>1, <4>3, <5>4, <5>5
      <4> QED
        BY <3>3, <4>2, <4>3
    <3> QED
      BY <2>9, <3>2, <3>4
  <2> QED
    BY <2>7, <2>8, <2>9, NameFacts
<1> QED
  BY <1>2, <1>3, <1>4, <1>5, FilesChange

\* A line that went into an open stream stays, unless a rotation replaces a backup.
LEMMA LossStep ==
  ASSUME LogInv, [Next]_vars
  PROVE  LossOnlyByClash'
<1>1. LossOnlyByClash
  BY DEF LogInv, LogSound
<1>2. ASSUME NEW t \in Threads, Rename(t) PROVE LossOnlyByClash'
  <2>3. kept' = kept /\ (~clash' => ~clash)
    <3>1. kept' = kept /\ (clash' = (clash \/ disk[bak[t]] # Absent) \/ clash' = clash)
      BY <1>2 DEF Rename
    <3>2. clash = TRUE => clash' = TRUE
      BY <3>1, Zenon
    <3>3. clash = TRUE \/ clash = FALSE
      BY DEF LogInv, TypeOK
    <3> QED
      BY <3>1, <3>2, <3>3
  <2>1. CASE disk' # disk
    <3>1. disk[bak[t]] # Absent => clash'
      BY <1>2, <2>1 DEF Rename
    <3>2. disk[bak[t]] = Absent => OnDisk' = OnDisk
      BY <1>2, <2>1, RenamedLines
    <3> QED
      BY <1>1, <2>3, <3>1, <3>2 DEF LossOnlyByClash
  <2>2. CASE disk' = disk
    BY <1>1, <2>3, <2>2, SameFiles DEF LossOnlyByClash
  <2> QED
    BY <2>1, <2>2
<1>3. ASSUME NEW t \in Threads, Reopen(t) PROVE LossOnlyByClash'
  BY <1>1, <1>3, ReopenedLines DEF Reopen, LossOnlyByClash
<1>4. ASSUME NEW t \in Threads, Put(t), isopen PROVE LossOnlyByClash'
  <2>1. OnDisk' = OnDisk \cup {This(t)}
    BY <1>4, PutLines
  <2> QED
    BY <1>1, <1>4, <2>1 DEF Put, LossOnlyByClash
<1>5. CASE UNCHANGED <<disk, kept, clash>>
  BY <1>1, <1>5, SameFiles DEF LossOnlyByClash
<1> QED
  BY <1>2, <1>3, <1>4, <1>5
  DEF Next, Finished, ThreadStep, Tick, Write, Shift, Test, Size, Acquire, Spin, CloseOld,
      Release, Put, Unlock, Return, stream, history, vars

-----------------------------------------------------------------------------
\* The invariant holds initially and is kept by every step.
THEOREM LogInvariant == Spec => []LogInv
<1>1. ASSUME LogInv, [Next]_vars PROVE LogInv'
  <2>1. TypeOK' /\ HeldInv' /\ StreamInv' /\ PastInv' /\ BackupInv'
    BY <1>1, TypeStep, HeldStep, StreamStep, PastStep, BackupStep DEF LogInv
  <2>2. AtMostOnce'
    BY <1>1, RefusedStep, ApartStep DEF AtMostOnce, Apart
  <2>3. InOrder' /\ LossOnlyByClash'
    BY <1>1, <2>1, OrderStep, LossStep
  <2> QED
    BY <2>1, <2>2, <2>3 DEF LogInv, LogSound, OnceInOrder
<1> QED
  BY LogInvInit, <1>1, PTL DEF Spec

\* Every line logged through rotations by any number of threads is in the files once
\* and in its thread's order, none is there that write() refused, and only a second
\* rotation within a second loses any (clogfile::write, clogfile::backup).
THEOREM LogCorrect == Spec => []LogSound
<1>1. LogInv => LogSound
  BY DEF LogInv
<1> QED
  BY LogInvariant, <1>1, PTL

\* The spin lock works: two threads are never at once between its lock() and unlock().
THEOREM OneWriter ==
  Spec => [](\A t, u \in Threads : pc[t] \in Held /\ pc[u] \in Held => t = u)
<1>1. LogInv => \A t, u \in Threads : pc[t] \in Held /\ pc[u] \in Held => t = u
  BY DEF LogInv, HeldInv
<1> QED
  BY LogInvariant, <1>1, PTL

-----------------------------------------------------------------------------
\* The stream.  Byte b is followed by Succ(b), whatever the frames are.
FrameLen(n) == HeadOf(n) + Script[n].len
Succ(b) == IF b[2] < FrameLen(b[1]) THEN <<b[1], b[2] + 1>> ELSE <<b[1] + 1, 1>>

\* The message being read, how much of its frame has been read, and the byte that
\* must come next; and the byte the writer puts on the wire next.
Cur == Len(got) + 1
Consumed == IF rpc = "body" THEN HeadOf(Cur) + Len(rgot) ELSE Len(rgot)
Want == IF Consumed = 0 THEN <<Cur, 1>> ELSE Succ(<<Cur, Consumed>>)
Out == IF wleft = <<>> THEN <<wn + 1, 1>> ELSE Head(wleft)

\* What tcpread has is the beginning of the header or of the body.
ReadInv ==
  /\ rpc \in {"idle", "poll"} => rneed = 0
  /\ rpc # "idle" => Cur <= Len(Script)
  /\ rpc = "head" => Script[Cur].kind = "text" /\ rneed = HeadLen
  /\ rpc = "body" => rneed = Script[Cur].len
  /\ \A j \in DOMAIN rgot : rgot[j] = <<Cur, IF rpc = "body" THEN HeadOf(Cur) + j ELSE j>>

\* What tcpwrite still has to send is the end of its frame.
WriteInv ==
  wleft # <<>> =>
    /\ wn >= 1 /\ Len(wleft) <= FrameLen(wn)
    /\ \A j \in DOMAIN wleft : wleft[j] = <<wn, FrameLen(wn) - Len(wleft) + j>>

\* The wire has no gap, neither within nor at its two ends; after the connection has
\* gone down, only not at the reader's end.
WireInv ==
  /\ wire # <<>> => wire[1] = Want
  /\ \A k \in 1 .. Len(wire) - 1 : wire[k + 1] = Succ(wire[k])
  /\ link = "up" => Out = IF wire = <<>> THEN Want ELSE Succ(wire[Len(wire)])

FrameInv == FrameTypeOK /\ ReadInv /\ WriteInv /\ WireInv /\ Whole

LEMMA ElementOf ==
  ASSUME NEW S, NEW s \in Seq(S), NEW n \in 1 .. Len(s)
  PROVE  n \in DOMAIN s /\ s[n] \in S
OBVIOUS

LEMMA SameElements ==
  ASSUME NEW S, NEW s \in Seq(S), NEW t \in Seq(S), Len(s) = Len(t),
         \A j \in 1 .. Len(s) : s[j] = t[j]
  PROVE  s = t
OBVIOUS

\* Frames.
LEMMA FrameFacts ==
  ASSUME NEW n \in 1 .. Len(Script)
  PROVE  /\ n \in DOMAIN Script
         /\ Script[n].kind \in {"text", "bin"} /\ Script[n].len \in Nat /\ Script[n].len \in Lens
         /\ HeadOf(n) = IF Script[n].kind = "text" THEN HeadLen ELSE 0
         /\ HeadOf(n) \in Nat /\ FrameLen(n) \in Nat \ {0}
         /\ Frame(n) \in Seq(Byte) /\ Len(Frame(n)) = FrameLen(n)
         /\ \A j \in 1 .. FrameLen(n) : Frame(n)[j] = <<n, j>>
<1>1. /\ n \in DOMAIN Script /\ Script[n] \in [kind : {"text", "bin"}, len : Nat]
      /\ HeadLen \in Nat \ {0} /\ (Script[n].kind = "bin" => Script[n].len > 0)
  <2>1. /\ Script \in Seq([kind : {"text", "bin"}, len : Nat]) /\ HeadLen \in Nat \ {0}
        /\ \A m \in DOMAIN Script : Script[m].kind = "bin" => Script[m].len > 0
    BY FrameAssumption DEF FrameAssumption
  <2>2. n \in DOMAIN Script /\ Script[n] \in [kind : {"text", "bin"}, len : Nat]
    BY <2>1, ElementOf
  <2> QED
    BY <2>1, <2>2
<1>2. /\ Script[n].kind \in {"text", "bin"} /\ Script[n].len \in Nat /\ Script[n].len \in Lens
      /\ HeadOf(n) = IF Script[n].kind = "text" THEN HeadLen ELSE 0
  BY <1>1 DEF HeadOf, Lens
<1>3. HeadOf(n) \in Nat /\ FrameLen(n) \in Nat \ {0}
  BY <1>1, <1>2 DEF FrameLen
<1>4. Frame(n) = [i \in 1 .. FrameLen(n) |-> <<n, i>>]
  BY DEF Frame, FrameLen
<1>5. \A j \in 1 .. FrameLen(n) : Frame(n)[j] = <<n, j>> /\ Frame(n)[j] \in Byte
  <2> TAKE j \in 1 .. FrameLen(n)
  <2>1. Frame(n)[j] = <<n, j>> /\ j \in DOMAIN Frame(n)
    BY <1>4
  <2>2. {Frame(n)[i] : i \in DOMAIN Frame(n)} \in
          {{Frame(m)[i] : i \in DOMAIN Frame(m)} : m \in DOMAIN Script}
    BY <1>1
  <2> QED
    BY <2>1, <2>2 DEF Byte
<1>6. Frame(n) \in Seq(Byte) /\ Len(Frame(n)) = FrameLen(n)
  <2>1. Frame(n) \in [1 .. FrameLen(n) -> Byte]
    BY <1>4, <1>5
  <2> QED
    BY <2>1, <1>3, <1>4
<1> QED
  BY <1>1, <1>2, <1>3, <1>5, <1>6

\* The place of the reader in the frame of the message it reads.
LEMMA ReadFacts ==
  ASSUME FrameTypeOK, ReadInv
  PROVE  /\ Cur \in Nat \ {0} /\ Consumed \in Nat
         /\ rpc = "idle" \/ rpc = "poll" => rgot = <<>> /\ Consumed = 0
         /\ rpc # "idle" => /\ Cur \in 1 .. Len(Script)
                            /\ FrameLen(Cur) \in Nat \ {0}
                            /\ Consumed <= FrameLen(Cur)
         /\ rpc = "head" => Consumed = Len(rgot) /\ HeadOf(Cur) = HeadLen
         /\ rpc = "body" => Consumed = HeadOf(Cur) + Len(rgot)
         /\ Len(rgot) \in Nat /\ Len(rgot) <= rneed
<1>1. Len(got) \in Nat /\ Len(rgot) \in Nat /\ rgot \in Seq(Byte) /\ Len(rgot) <= rneed
  BY DEF FrameTypeOK
<1>2. Cur \in Nat \ {0} /\ (rpc # "idle" => Cur \in 1 .. Len(Script))
  BY FrameAssumption, <1>1 DEF Cur, ReadInv, FrameAssumption
<1>3. CASE rpc = "idle" \/ rpc = "poll"
  <2>1. rgot = <<>> /\ Consumed = 0
    BY <1>1, <1>3 DEF ReadInv, Consumed
  <2> QED
    BY <1>1, <1>2, <1>3, <2>1, FrameFacts
<1>4. CASE rpc = "head"
  <2>1. HeadOf(Cur) = HeadLen /\ Consumed = Len(rgot) /\ rneed = HeadLen
    BY <1>2, <1>4, FrameFacts DEF ReadInv, Consumed
  <2>2. FrameLen(Cur) = HeadLen + Script[Cur].len /\ Script[Cur].len \in Nat /\ HeadLen \in Nat
    BY FrameAssumption, <2>1, <1>2, <1>4, FrameFacts DEF FrameLen, FrameAssumption
  <2> QED
    BY <1>1, <1>2, <1>4, <2>1, <2>2, FrameFacts
<1>5. CASE rpc = "body"
  <2>1. Consumed = HeadOf(Cur) + Len(rgot) /\ rneed = Script[Cur].len
    BY <1>5 DEF ReadInv, Consumed
  <2>2. HeadOf(Cur) \in Nat /\ Script[Cur].len \in Nat /\ FrameLen(Cur) \in Nat \ {0}
    BY <1>2, <1>5, FrameFacts
  <2>3. FrameLen(Cur) = HeadOf(Cur) + Script[Cur].len
    BY DEF FrameLen
  <2> QED
    BY <1>1, <1>2, <1>5, <2>1, <2>2, <2>3
<1> QED
  BY <1>3, <1>4, <1>5 DEF FrameTypeOK

LEMMA StreamInit == FrameInit => FrameInv
BY FrameAssumption DEF FrameAssumption, FrameInit, FrameInv, FrameTypeOK, ReadInv, WriteInv, WireInv, Whole, Want, Out,
       Consumed, Cur

\* Steps of the writer and of the connection: the reader is not touched.
LEMMA WriterStep ==
  ASSUME FrameInv, Writing \/ Close \/ Break
  PROVE  FrameInv'
<1>t. /\ wire \in Seq(Byte) /\ wleft \in Seq(Byte) /\ wn \in 0 .. Len(Script)
      /\ Len(wire) \in Nat /\ Len(wleft) \in Nat
  BY DEF FrameInv, FrameTypeOK
<1>r. UNCHANGED reader /\ ReadInv' /\ Whole' /\ Want' = Want
  <2>1. UNCHANGED reader
    BY DEF Writing, Tcpwrite, Send, SendFails, Close, Break
  <2> QED
    BY <2>1 DEF reader, FrameInv, ReadInv, Whole, Want, Cur, Consumed
<1>1. CASE Tcpwrite
  <2>1. wn + 1 \in 1 .. Len(Script)
    BY FrameAssumption, <1>1, <1>t DEF Tcpwrite, FrameAssumption
  <2>2. /\ wn' = wn + 1 /\ wleft' = Frame(wn + 1) /\ wleft = <<>>
        /\ UNCHANGED <<wire, link>>
    BY <1>1 DEF Tcpwrite, Sent
  <2>3. /\ wleft' \in Seq(Byte) /\ Len(wleft') = FrameLen(wn') /\ FrameLen(wn') \in Nat \ {0}
        /\ \A j \in 1 .. FrameLen(wn') : wleft'[j] = <<wn', j>>
    BY <2>1, <2>2, FrameFacts
  <2>4. WriteInv'
    <3>1. DOMAIN wleft' = 1 .. FrameLen(wn')
      BY <2>3
    <3>2. \A j \in DOMAIN wleft' : wleft'[j] = <<wn', FrameLen(wn') - Len(wleft') + j>>
      BY <3>1, <2>3
    <3> QED
      BY <2>1, <2>2, <2>3, <3>2 DEF WriteInv, FrameLen, HeadOf
  <2>5. Out' = Out
    BY <2>2, <2>3 DEF Out
  <2> QED
    BY <2>1, <2>2, <2>3, <2>4, <2>5, <1>r DEF FrameInv, FrameTypeOK, WireInv, reader
<1>2. CASE Send
  <2>1. /\ wleft # <<>> /\ link = "up" /\ link' = "up" /\ Len(wire) < BufSize
        /\ wire' = Append(wire, Head(wleft)) /\ wleft' = Tail(wleft) /\ wn' = wn
    BY <1>2 DEF Send
  <2>2. /\ wire' \in Seq(Byte) /\ Len(wire') = Len(wire) + 1
        /\ \A k \in 1 .. Len(wire) : wire'[k] = wire[k]
        /\ wire'[Len(wire) + 1] = Head(wleft) /\ Head(wleft) \in Byte
    BY <2>1, <1>t
  <2>3. /\ wleft' \in Seq(Byte) /\ Len(wleft') = Len(wleft) - 1
        /\ \A j \in 1 .. Len(wleft) - 1 : wleft'[j] = wleft[j + 1]
        /\ Head(wleft) = wleft[1] /\ Len(wleft) >= 1
    BY <2>1, <1>t
  <2>4. wn \in 1 .. Len(Script) /\ Len(wleft) <= FrameLen(wn) /\ FrameLen(wn) \in Nat \ {0}
        /\ \A j \in 1 .. Len(wleft) : wleft[j] = <<wn, FrameLen(wn) - Len(wleft) + j>>
    <3>1. wn >= 1 /\ Len(wleft) <= FrameLen(wn)
      BY <2>1 DEF FrameInv, WriteInv
    <3>2. wn \in 1 .. Len(Script)
      BY <3>1, <1>t
    <3>3. FrameLen(wn) \in Nat \ {0}
      BY <3>2, FrameFacts
    <3>4. DOMAIN wleft = 1 .. Len(wleft)
      BY <1>t
    <3>5. \A j \in DOMAIN wleft : wleft[j] = <<wn, FrameLen(wn) - Len(wleft) + j>>
      BY <2>1 DEF FrameInv, WriteInv
    <3> QED
      BY <3>1, <3>2, <3>3, <3>4, <3>5
  <2>5. WriteInv'
    <3>1. DOMAIN wleft' = 1 .. Len(wleft) - 1
      BY <2>3
    <3>2. \A j \in DOMAIN wleft' : wleft'[j] = <<wn, FrameLen(wn) - Len(wleft') + j>>
      <4> TAKE j \in DOMAIN wleft'
      <4>1. j + 1 \in 1 .. Len(wleft) /\ wleft'[j] = wleft[j + 1]
        BY <3>1, <2>3, <1>t
      <4>2. wleft'[j] = <<wn, FrameLen(wn) - Len(wleft) + (j + 1)>>
        BY <4>1, <2>4
      <4>3. j \in Nat /\ Len(wleft') = Len(wleft) - 1 /\ FrameLen(wn) \in Nat
        BY <3>1, <2>3, <2>4, <1>t
      <4> QED
        BY <4>2, <4>3, <1>t
    <3> QED
      BY <2>1, <2>3, <2>4, <3>2, <1>t, SMTT(20) DEF WriteInv, FrameLen, HeadOf
  <2>6. Out = Head(wleft) /\ Head(wleft) = <<wn, FrameLen(wn) - Len(wleft) + 1>>
    BY <2>1, <2>3, <2>4 DEF Out
  <2>7. Out' = Succ(Head(wleft))
    <3>1. CASE Len(wleft) = 1
      <4>1. wleft' = <<>>
        BY <3>1, <2>3
      <4> QED
        BY <4>1, <3>1, <2>1, <2>4, <2>6 DEF Out, Succ
    <3>2. CASE Len(wleft) > 1
      <4>1. wleft' # <<>> /\ Head(wleft') = wleft'[1] /\ wleft'[1] = wleft[2]
        BY <3>2, <2>3
      <4>2. wleft[2] = <<wn, FrameLen(wn) - Len(wleft) + 2>>
        BY <3>2, <2>4, <1>t
      <4> QED
        BY <4>1, <4>2, <3>2, <2>4, <2>6, <1>t DEF Out, Succ
    <3> QED
      BY <3>1, <3>2, <2>3, <1>t
  <2>8. WireInv'
    <3>1. wire'[1] = Want'
      BY <2>1, <2>2, <2>6, <1>r, <1>t DEF FrameInv, WireInv
    <3>2. ASSUME NEW k \in 1 .. Len(wire') - 1 PROVE wire'[k + 1] = Succ(wire'[k])
      <4>1. CASE k < Len(wire)
        BY <4>1, <2>2, <1>t DEF FrameInv, WireInv
      <4>2. CASE k = Len(wire)
        BY <4>2, <2>1, <2>2, <2>6, <1>t DEF FrameInv, WireInv
      <4> QED
        BY <4>1, <4>2, <2>2, <1>t
    <3>3. wire' # <<>> /\ wire'[Len(wire')] = Head(wleft)
      BY <2>2, <1>t
    <3> QED
      BY <3>1, <3>2, <3>3, <2>7 DEF WireInv
  <2>9. Len(wire') <= BufSize
    BY FrameAssumption, <2>1, <2>2, <1>t DEF FrameAssumption
  <2> QED
    BY <2>1, <2>2, <2>3, <2>5, <2>8, <2>9, <1>r DEF FrameInv, FrameTypeOK, reader
<1>3. CASE SendFails
  <2>1. /\ wleft' = <<>> /\ link = "broken" /\ UNCHANGED <<wire, link, wn>>
    BY <1>3 DEF SendFails
  <2> QED
    BY <2>1, <1>r DEF FrameInv, FrameTypeOK, reader, WireInv, WriteInv
<1>4. CASE Close
  <2>1. /\ link' = "half" /\ UNCHANGED <<wire, wleft, wn>>
    BY <1>4 DEF Close, writer
  <2> QED
    BY <2>1, <1>r DEF FrameInv, FrameTypeOK, reader, WireInv, WriteInv, FrameLen
<1>5. CASE Break
  <2>1. /\ link' = "broken" /\ wire' = <<>> /\ UNCHANGED <<wleft, wn>>
    BY <1>5 DEF Break, writer
  <2> QED
    BY FrameAssumption, <2>1, <1>r DEF FrameInv, FrameTypeOK, reader, WireInv, WriteInv, FrameAssumption
<1> QED
  BY <1>1, <1>2, <1>3, <1>4, <1>5 DEF Writing

\* A byte read is the one that had to come next.
LEMMA RecvStep ==
  ASSUME FrameInv, Recv
  PROVE  FrameInv'
<1>t. /\ wire \in Seq(Byte) /\ rgot \in Seq(Byte) /\ got \in Seq(Seq(Byte))
      /\ Len(wire) \in Nat /\ Len(rgot) \in Nat /\ rneed \in {0, HeadLen} \cup Lens
  BY DEF FrameInv, FrameTypeOK
<1>1. /\ rpc \in {"head", "body"} /\ Len(rgot) < rneed /\ wire # <<>>
      /\ rgot' = Append(rgot, Head(wire)) /\ wire' = Tail(wire)
      /\ UNCHANGED <<link, wn, wleft, rpc, rneed, got>>
  BY DEF Recv, More, writer
<1>2. /\ Cur \in 1 .. Len(Script) /\ FrameLen(Cur) \in Nat \ {0}
      /\ Consumed \in Nat /\ Consumed < FrameLen(Cur)
      /\ rneed \in Nat /\ HeadOf(Cur) \in Nat
  <2>0. FrameInv /\ FrameTypeOK /\ ReadInv
    BY DEF FrameInv
  <2>1. /\ Cur \in 1 .. Len(Script) /\ FrameLen(Cur) \in Nat \ {0} /\ Consumed \in Nat
    BY <1>1, <2>0, ReadFacts
  <2>2. /\ Script[Cur].len \in Nat /\ FrameLen(Cur) = HeadOf(Cur) + Script[Cur].len
        /\ HeadOf(Cur) \in Nat /\ HeadLen \in Nat
    BY FrameAssumption, <2>1, FrameFacts DEF FrameLen, FrameAssumption
  <2>3. CASE rpc = "head"
    <3>1. rneed = HeadLen /\ Consumed = Len(rgot) /\ HeadOf(Cur) = HeadLen
      BY <2>0, <2>3, ReadFacts DEF ReadInv
    <3> QED
      BY <3>1, <2>1, <2>2, <1>1, <1>t
  <2>4. CASE rpc = "body"
    <3>1. rneed = Script[Cur].len /\ Consumed = HeadOf(Cur) + Len(rgot)
      BY <2>0, <2>4, ReadFacts DEF ReadInv
    <3> QED
      BY <3>1, <2>1, <2>2, <1>1, <1>t
  <2> QED
    BY <2>3, <2>4, <1>1
<1>3. Head(wire) = wire[1] /\ wire[1] = Want /\ Want = <<Cur, Consumed + 1>> /\ Head(wire) \in Byte
  <2>1. Head(wire) = wire[1] /\ wire[1] = Want /\ Head(wire) \in Byte
    BY <1>1, <1>t DEF FrameInv, WireInv
  <2>2. CASE Consumed = 0
    BY <2>1, <2>2 DEF Want
  <2>3. CASE Consumed > 0
    BY <2>1, <2>3, <1>2 DEF Want, Succ
  <2> QED
    BY <2>1, <2>2, <2>3, <1>2
<1>4. /\ rgot' \in Seq(Byte) /\ Len(rgot') = Len(rgot) + 1 /\ Len(rgot') <= rneed'
      /\ DOMAIN rgot' = 1 .. Len(rgot) + 1
      /\ \A j \in 1 .. Len(rgot) : rgot'[j] = rgot[j]
      /\ rgot'[Len(rgot) + 1] = <<Cur, Consumed + 1>>
  BY <1>1, <1>2, <1>3, <1>t
<1>5. Cur' = Cur /\ Consumed' = Consumed + 1
  BY <1>1, <1>2, <1>4, <1>t DEF Cur, Consumed, HeadOf
<1>6. ReadInv'
  <2>1. \A j \in DOMAIN rgot' : rgot'[j] = <<Cur, IF rpc = "body" THEN HeadOf(Cur) + j ELSE j>>
    <3> TAKE j \in DOMAIN rgot'
    <3>1. CASE j <= Len(rgot)
      BY <3>1, <1>4, <1>t DEF FrameInv, ReadInv
    <3>2. CASE j = Len(rgot) + 1
      BY <3>2, <1>1, <1>2, <1>4, <1>t, SMTT(20) DEF Consumed
    <3> QED
      BY <3>1, <3>2, <1>4, <1>t
  <2> QED
    BY <2>1, <1>1, <1>5 DEF FrameInv, ReadInv, HeadOf
<1>7. Want' = Succ(wire[1])
  <2>1. wire[1] = <<Cur, Consumed + 1>>
    BY <1>3
  <2>2. Consumed' # 0
    BY <1>2, <1>5
  <2> QED
    BY <2>1, <2>2, <1>5 DEF Want, Succ, FrameLen, HeadOf
<1>8. /\ wire' \in Seq(Byte) /\ Len(wire') = Len(wire) - 1
      /\ \A k \in 1 .. Len(wire) - 1 : wire'[k] = wire[k + 1]
      /\ Len(wire) >= 1
  BY <1>1, <1>t
<1>9. WireInv'
  <2>1. ASSUME NEW k \in 1 .. Len(wire') - 1 PROVE wire'[k + 1] = Succ(wire'[k])
    <3>1. k + 1 \in 1 .. Len(wire) - 1 /\ wire[k + 1 + 1] = Succ(wire[k + 1])
      BY <1>8, <1>t DEF FrameInv, WireInv
    <3>2. wire'[k + 1] = wire[k + 1 + 1] /\ wire'[k] = wire[k + 1]
      <4>1. k \in 1 .. Len(wire) - 1
        BY <1>8, <1>t
      <4> QED
        BY <4>1, <3>1, <1>8
    <3> QED
      BY <3>1, <3>2
  <2>2. wire' # <<>> => wire'[1] = Want'
    <3> SUFFICES ASSUME wire' # <<>> PROVE wire'[1] = Want'
      OBVIOUS
    <3>1. 1 \in 1 .. Len(wire) - 1
      BY <1>8, <1>t
    <3> QED
      BY <3>1, <1>7, <1>8 DEF FrameInv, WireInv
  <2>3. link' = "up" => Out' = IF wire' = <<>> THEN Want' ELSE Succ(wire'[Len(wire')])
    <3>1. Out' = Out /\ link' = link
      BY <1>1 DEF Out
    <3>2. link = "up" => Out = Succ(wire[Len(wire)])
      BY <1>1 DEF FrameInv, WireInv
    <3>3. CASE wire' = <<>>
      <4>1. Len(wire) = 1
        BY <3>3, <1>8, <1>t
      <4> QED
        BY <4>1, <3>1, <3>2, <3>3, <1>7
    <3>4. CASE wire' # <<>>
      <4>1. wire'[Len(wire')] = wire[Len(wire)]
        BY <3>4, <1>8, <1>t
      <4> QED
        BY <4>1, <3>1, <3>2, <3>4
    <3> QED
      BY <3>3, <3>4
  <2>4. \A b : Succ(b)' = Succ(b)
    BY DEF Succ, FrameLen, HeadOf
  <2> QED
    BY <2>1, <2>2, <2>3, <2>4 DEF WireInv
<1>10. WriteInv' /\ Whole'
  BY <1>1 DEF FrameInv, WriteInv, Whole, FrameLen, HeadOf, Body
<1>11. Len(wire') <= BufSize
  BY FrameAssumption, <1>8, <1>t DEF FrameInv, FrameTypeOK, FrameAssumption
<1> QED
  BY <1>1, <1>4, <1>6, <1>8, <1>9, <1>10, <1>11 DEF FrameInv, FrameTypeOK

\* A read that is over returns the body, or nothing has been taken from the stream
\* that anything could follow.
LEMMA ReaderStep ==
  ASSUME FrameInv, Tcpread \/ Poll \/ RecvFails \/ HeadDone \/ BodyDone
  PROVE  FrameInv'
<1>t. /\ FrameTypeOK /\ ReadInv /\ WireInv /\ rgot \in Seq(Byte) /\ got \in Seq(Seq(Byte))
      /\ Len(got) \in Nat /\ Len(rgot) \in Nat
  BY DEF FrameInv, FrameTypeOK
<1>w. /\ UNCHANGED <<wire, link, wn, wleft>>
      /\ WriteInv' /\ Out' = Out
  <2>1. UNCHANGED <<wire, link, wn, wleft>>
    BY DEF Tcpread, Poll, RecvFails, HeadDone, BodyDone, writer
  <2> QED
    BY <2>1 DEF FrameInv, WriteInv, Out
<1>h. Want' = Want \/ (wire = <<>> /\ link # "up") => WireInv'
  BY <1>w, <1>t DEF WireInv
<1>f. \A n \in 1 .. Len(Script) :
        /\ Script[n].kind \in {"text", "bin"} /\ Script[n].len \in Nat /\ Script[n].len \in Lens
        /\ HeadOf(n) = IF Script[n].kind = "text" THEN HeadLen ELSE 0
        /\ HeadOf(n) \in Nat /\ FrameLen(n) \in Nat \ {0}
        /\ Frame(n) \in Seq(Byte) /\ Len(Frame(n)) = FrameLen(n)
        /\ \A j \in 1 .. FrameLen(n) : Frame(n)[j] = <<n, j>>
        /\ FrameLen(n) = HeadOf(n) + Script[n].len
  BY FrameFacts DEF FrameLen
<1>c. HeadLen \in Nat \ {0} /\ Len(Script) \in Nat
  BY FrameAssumption DEF FrameAssumption
<1>s. ASSUME StartRead, rgot = <<>>, UNCHANGED <<rgot, got>>, Cur \in 1 .. Len(Script),
             rpc \in {"idle", "poll"}
      PROVE  FrameInv'
  <2>1. /\ Next1 = Script[Cur] /\ Cur' = Cur
        /\ rpc' = IF Script[Cur].kind = "text" THEN "head" ELSE "body"
        /\ rneed' = IF Script[Cur].kind = "text" THEN HeadLen ELSE Script[Cur].len
    BY <1>s DEF StartRead, Next1, Cur
  <2>2. ReadInv'
    BY <2>1, <1>s, <1>f DEF ReadInv, Cur
  <2>3. Consumed = 0 /\ Consumed' = 0
    BY <2>1, <1>s, <1>t, <1>f DEF Consumed, Cur, HeadOf
  <2>4. Want' = Want
    BY <2>1, <2>3 DEF Want
  <2>5. FrameTypeOK'
    BY <2>1, <1>s, <1>t, <1>w, <1>f, <1>c DEF FrameTypeOK
  <2> QED
    BY <2>2, <2>4, <2>5, <1>s, <1>w, <1>h DEF FrameInv, Whole
<1>1. CASE Tcpread
  <2>1. /\ rpc = "idle" /\ Cur \in 1 .. Len(Script) /\ rgot = <<>> /\ UNCHANGED <<rgot, got>>
        /\ rneed = 0 /\ Consumed = 0
    BY <1>1, <1>t, <1>c, ReadFacts DEF Tcpread, Cur, ReadInv
  <2>2. CASE rpc' = "poll" /\ UNCHANGED rneed
    <3>1. ReadInv' /\ Want' = Want
      BY <2>1, <2>2, <1>t, <1>c DEF ReadInv, Want, Consumed, Cur
    <3>2. FrameTypeOK'
      BY <2>1, <2>2, <1>t, <1>w DEF FrameTypeOK
    <3> QED
      BY <3>1, <3>2, <2>1, <1>w, <1>h DEF FrameInv, Whole
  <2> QED
    BY <2>1, <2>2, <1>1, <1>s DEF Tcpread
<1>2. CASE Poll
  <2>1. /\ rpc = "poll" /\ Cur \in 1 .. Len(Script) /\ rgot = <<>> /\ UNCHANGED <<rgot, got>>
        /\ rneed = 0 /\ Consumed = 0
    BY <1>2, <1>t, <1>c, ReadFacts DEF Poll, ReadInv
  <2>2. CASE rpc' = "idle" /\ UNCHANGED rneed
    <3>1. ReadInv' /\ Want' = Want
      BY <2>1, <2>2, <1>t, <1>c DEF ReadInv, Want, Consumed, Cur
    <3>2. FrameTypeOK'
      BY <2>1, <2>2, <1>t, <1>w DEF FrameTypeOK
    <3> QED
      BY <3>1, <3>2, <2>1, <1>w, <1>h DEF FrameInv, Whole
  <2> QED
    BY <2>1, <2>2, <1>2, <1>s DEF Poll
<1>3. CASE RecvFails
  <2>1. /\ wire = <<>> /\ link # "up" /\ rpc' = "idle" /\ rgot' = <<>> /\ rneed' = 0 /\ got' = got
    BY <1>3 DEF RecvFails, EndRead
  <2>2. ReadInv'
    BY <2>1 DEF ReadInv
  <2>3. FrameTypeOK'
    BY <2>1, <1>t, <1>w DEF FrameTypeOK
  <2> QED
    BY <2>1, <2>2, <2>3, <1>w, <1>h DEF FrameInv, Whole
<1>4. CASE HeadDone
  <2>1. /\ rpc = "head" /\ ~More /\ rneed' \in Lengths(rgot) /\ rpc' = "body" /\ rgot' = <<>>
        /\ got' = got
    BY <1>4 DEF HeadDone
  <2>2. /\ Cur \in 1 .. Len(Script) /\ rneed = HeadLen /\ Consumed = Len(rgot)
        /\ HeadOf(Cur) = HeadLen /\ Script[Cur].kind = "text" /\ Cur' = Cur
    BY <2>1, <1>t, ReadFacts DEF ReadInv, Cur
  <2>3. Len(rgot) = HeadLen
    BY <2>1, <2>2, <1>t, <1>c DEF More, FrameTypeOK
  <2>4. rgot = SubSeq(Frame(Cur), 1, HeadLen)
    <3>1. \A j \in 1 .. HeadLen : rgot[j] = <<Cur, j>> /\ Frame(Cur)[j] = <<Cur, j>>
      <4> TAKE j \in 1 .. HeadLen
      <4>1. j \in DOMAIN rgot /\ j \in 1 .. FrameLen(Cur)
        <5>1. FrameLen(Cur) = HeadLen + Script[Cur].len /\ Script[Cur].len \in Nat
          BY <2>2, FrameFacts DEF FrameLen
        <5>2. DOMAIN rgot = 1 .. HeadLen
          BY <2>3, <1>t
        <5> QED
          BY <5>1, <5>2, <1>c
      <4> QED
        BY <4>1, <2>1, <2>2, <1>t, <1>f DEF ReadInv
    <3>2. /\ SubSeq(Frame(Cur), 1, HeadLen) \in Seq(Byte)
          /\ Len(SubSeq(Frame(Cur), 1, HeadLen)) = HeadLen
          /\ \A j \in 1 .. HeadLen : SubSeq(Frame(Cur), 1, HeadLen)[j] = Frame(Cur)[j]
      <4>1. Frame(Cur) \in Seq(Byte) /\ HeadLen <= Len(Frame(Cur)) /\ Len(Frame(Cur)) \in Nat
        BY <2>2, <1>f, <1>c
      <4> QED
        BY <4>1, <1>c
    <3> QED
      BY <3>1, <3>2, <2>3, <1>t, SameElements
  <2>5. rneed' = Script[Cur].len
    <3>1. Cur \in DOMAIN Script
      BY <2>2, FrameFacts
    <3> QED
      BY <3>1, <2>1, <2>2, <2>4 DEF Lengths
  <2>6. ReadInv'
    BY <2>1, <2>2, <2>5 DEF ReadInv
  <2>7. Consumed' = HeadLen /\ Consumed = HeadLen
    BY <2>1, <2>2, <2>3, <1>c DEF Consumed, HeadOf
  <2>8. Want' = Want
    BY <2>2, <2>7 DEF Want
  <2>9. FrameTypeOK'
    BY <2>1, <2>2, <2>5, <1>t, <1>w, <1>f DEF FrameTypeOK
  <2> QED
    BY <2>1, <2>6, <2>8, <2>9, <1>w, <1>h DEF FrameInv, Whole
<1>5. CASE BodyDone
  <2>1. /\ rpc = "body" /\ ~More /\ got' = Append(got, rgot)
        /\ rpc' = "idle" /\ rgot' = <<>> /\ rneed' = 0
    BY <1>5 DEF BodyDone, EndRead
  <2>2. /\ Cur \in 1 .. Len(Script) /\ rneed = Script[Cur].len
        /\ Consumed = HeadOf(Cur) + Len(rgot) /\ HeadOf(Cur) \in Nat
        /\ FrameLen(Cur) = HeadOf(Cur) + Script[Cur].len /\ FrameLen(Cur) \in Nat \ {0}
        /\ Script[Cur].len \in Nat
    BY <2>1, <1>t, <1>f, ReadFacts DEF ReadInv
  <2>3. Len(rgot) = Script[Cur].len /\ Consumed = FrameLen(Cur)
    BY <2>1, <2>2, <1>t, SMTT(20) DEF More, FrameTypeOK
  <2>4. /\ Len(got') = Len(got) + 1 /\ Cur' = Cur + 1 /\ got' \in Seq(Seq(Byte))
        /\ DOMAIN got' = 1 .. Len(got) + 1 /\ got'[Len(got) + 1] = rgot
        /\ \A n \in 1 .. Len(got) : got'[n] = got[n]
    BY <2>1, <1>t DEF Cur
  <2>5. rgot = Body(Cur)
    <3>1. DOMAIN rgot = 1 .. Script[Cur].len /\ rgot = [j \in DOMAIN rgot |-> rgot[j]]
      BY <2>3, <1>t
    <3>2. \A j \in 1 .. Script[Cur].len : rgot[j] = <<Cur, HeadOf(Cur) + j>>
      BY <3>1, <2>1, <1>t DEF ReadInv
    <3> QED
      BY <3>1, <3>2 DEF Body
  <2>6. Whole'
    <3> SUFFICES ASSUME NEW n \in DOMAIN got' PROVE got'[n] = Body(n)
      BY DEF Whole, Body, HeadOf
    <3>1. CASE n \in 1 .. Len(got)
      <4>1. n \in DOMAIN got
        BY <3>1, <1>t
      <4> QED
        BY <4>1, <3>1, <2>4 DEF FrameInv, Whole
    <3>2. CASE n = Cur
      BY <3>2, <2>4, <2>5 DEF Cur
    <3> QED
      BY <3>1, <3>2, <2>4, <1>t DEF Cur
  <2>7. ReadInv'
    BY <2>1 DEF ReadInv
  <2>8. Want' = Want
    <3>1. Consumed' = 0 /\ Want' = <<Cur + 1, 1>>
      BY <2>1, <2>4 DEF Consumed, Want
    <3>2. Want = <<Cur + 1, 1>>
      BY <2>2, <2>3 DEF Want, Succ
    <3> QED
      BY <3>1, <3>2
  <2>9. FrameTypeOK'
    BY <2>1, <2>4, <1>t, <1>w DEF FrameTypeOK
  <2> QED
    BY <2>6, <2>7, <2>8, <2>9, <1>w, <1>h DEF FrameInv
<1> QED
  BY <1>1, <1>2, <1>3, <1>4, <1>5

\* The messages keep FrameInv for every script, header length and buffer size.
THEOREM MessagesInvariant == FrameSpec => []FrameInv
<1>1. FrameInit => FrameInv
  BY StreamInit
<1>2. FrameInv /\ [FrameNext]_frameVars => FrameInv'
  <2> SUFFICES ASSUME FrameInv, [FrameNext]_frameVars PROVE FrameInv'
    OBVIOUS
  <2>1. CASE UNCHANGED frameVars
    BY <2>1 DEF frameVars, FrameInv, FrameTypeOK, ReadInv, WriteInv, WireInv, Whole, Want, Out, Consumed, Cur
  <2> QED
    BY <2>1, WriterStep, RecvStep, ReaderStep DEF FrameNext, Read
<1> QED
  BY <1>1, <1>2, PTL DEF FrameSpec

\* What tcpread returns is what tcpwrite sent, whole and in turn, and the stream is at
\* the first byte of a frame whenever no read is under way, however the bytes are split
\* over sends and receives, whichever reads time out and wherever the connection ends.
THEOREM MessagesDelivered == FrameSpec => []Delivered
<1>1. FrameInv => Delivered
  <2> SUFFICES ASSUME FrameInv, rpc \in {"idle", "poll"}, wire # <<>>
               PROVE  Head(wire) = <<Len(got) + 1, 1>>
    BY DEF Delivered, InStep, FrameInv
  <2>1. Consumed = 0
    BY ReadFacts DEF FrameInv
  <2>2. wire[1] = <<Len(got) + 1, 1>>
    BY <2>1 DEF FrameInv, WireInv, Want, Cur
  <2> QED
    BY <2>2 DEF FrameInv, FrameTypeOK
<1> QED
  BY <1>1, MessagesInvariant, PTL

-----------------------------------------------------------------------------
\* The sockets.  Both properties and the types are inductive together: a handle that
\* is overwritten or closed is the only one that names its descriptor, because the
\* three objects' sockets are of different kinds.
ConnInv == ConnTypeOK /\ HandlesValid /\ OnlyTheseLeak

LEMMA ConnFirst == ConnInit => ConnInv
BY TcpConnAssumption DEF TcpConnAssumption, ConnInit, ConnInv, ConnTypeOK, HandlesValid,
       OnlyTheseLeak, Fds, None

\* Closing a descriptor, or nothing.
LEMMA ClosedKinds ==
  ASSUME ConnTypeOK, NEW f \in Fds \cup {None}
  PROVE  /\ Closed(kind, f)
              \in [Fds -> {"free", "other", "bound", "listen", "conn", "client"}]
         /\ \A g \in Fds : Closed(kind, f)[g] = IF g = f THEN "free" ELSE kind[g]
BY TcpConnAssumption DEF TcpConnAssumption, ConnTypeOK, Closed, Fds, None

LEMMA ConnStep ==
  ASSUME ConnInv, [ConnNext]_connVars
  PROVE  ConnInv'
<1> USE TcpConnAssumption DEF TcpConnAssumption, ConnInv, ConnTypeOK, HandlesValid,
            OnlyTheseLeak, Fds, None, Lowest
<1>1. CASE OtherOpen
  BY <1>1 DEF OtherOpen
<1>2. CASE OtherClose
  BY <1>2 DEF OtherClose, Closed
<1>3. CASE Connect
  <2>1. Previous(kind, c_connfd) = Closed(kind, c_connfd)
    BY DEF Previous
  <2>2. PICK before : before = Closed(kind, c_connfd)
    OBVIOUS
  <2>3. /\ before \in [Fds -> {"free", "other", "bound", "listen", "conn", "client"}]
        /\ \A g \in Fds : before[g] = IF g = c_connfd THEN "free" ELSE kind[g]
    BY <2>2, ClosedKinds
  <2> QED
    BY <1>3, <2>1, <2>2, <2>3 DEF Connect
<1>4. CASE ClientClose
  BY <1>4 DEF ClientClose, Closed
<1>5. CASE Initserver
  <2>1. PICK before :
          before = IF m_listenfd > 0 THEN Closed(kind, m_listenfd) ELSE kind
    OBVIOUS
  <2>2. /\ before \in [Fds -> {"free", "other", "bound", "listen", "conn", "client"}]
        /\ \A g \in Fds :
             before[g] = IF g = m_listenfd /\ g > 0 THEN "free" ELSE kind[g]
    BY <2>1, ClosedKinds
  <2> QED
    BY <1>5, <2>1, <2>2, SMTT(20) DEF Initserver
<1>6. CASE Accept
  BY <1>6 DEF Accept
<1>7. CASE Closelisten
  BY <1>7 DEF Closelisten, Closed
<1>8. CASE Closeclient
  BY <1>8 DEF Closeclient, Closed
<1>9. CASE Destroy
  BY <1>9 DEF Destroy, Closed
<1>10. CASE UNCHANGED connVars
  BY <1>10 DEF connVars
<1> QED
  BY <1>1, <1>2, <1>3, <1>4, <1>5, <1>6, <1>7, <1>8, <1>9, <1>10 DEF ConnNext

\* A handle is -1 or names a socket of its own object, so that no close() of the two
\* classes hits a file of somebody else, however descriptors are reused; and the client
\* leaks no socket, initserver only one that got number 0.
THEOREM HandlesSafe == ConnSpec => []HandlesExact
<1>1. ConnInv => HandlesExact
  BY DEF ConnInv, HandlesExact
<1>2. ConnInit => ConnInv
  BY ConnFirst
<1>3. ConnInv /\ [ConnNext]_connVars => ConnInv'
  BY ConnStep
<1> QED
  BY <1>1, <1>2, <1>3, PTL DEF ConnSpec

-----------------------------------------------------------------------------
\* Division and remainder.
LEMMA Divided ==
  ASSUME NEW t \in Int, NEW b \in Nat \ {0}
  PROVE  t = (t \div b) * b + (t % b) /\ t % b \in 0 .. b - 1 /\ t \div b \in Int
OBVIOUS

LEMMA WholeUnits ==
  ASSUME NEW t \in Int, NEW b \in Nat \ {0}, NEW r, NEW q, r = t % b, q = t \div b
  PROVE  q * b = t - r
BY Divided

LEMMA Distributed ==
  ASSUME NEW d \in Int, NEW k \in Int, NEW e \in Int, NEW b \in Int
  PROVE  (d * k + e) * b = d * (k * b) + e * b
OBVIOUS

LEMMA RemainderUnique ==
  ASSUME NEW b \in Nat \ {0}, NEW p \in Int, NEW q \in Int,
         NEW r \in 0 .. b - 1, NEW s \in 0 .. b - 1, p * b + r = q * b + s
  PROVE  r = s
<1>1. ASSUME NEW d \in Nat \ {0} PROVE d * b >= b
  OBVIOUS
<1>2. CASE p < q
  <2>1. (q - p) * b = r - s /\ q - p \in Nat \ {0}
    BY <1>2
  <2> QED
    BY <2>1, <1>1
<1>3. CASE p > q
  <2>1. (p - q) * b = s - r /\ p - q \in Nat \ {0}
    BY <1>3
  <2> QED
    BY <2>1, <1>1
<1> QED
  BY <1>2, <1>3

\* What is left of t after whole a's and then whole b's is what is left after whole b's,
\* if an a is made of whole b's.
LEMMA RemainderTwice ==
  ASSUME NEW t \in Int, NEW a \in Nat \ {0}, NEW b \in Nat \ {0}, a % b = 0
  PROVE  (t % a) % b = t % b
<1> DEFINE k == a \div b
           r == t % a
<1>1. a = k * b /\ k \in Int
  BY Divided
<1>2. t = (t \div a) * a + r /\ r \in 0 .. a - 1 /\ t \div a \in Int
  BY Divided
<1>3. r = (r \div b) * b + (r % b) /\ r % b \in 0 .. b - 1 /\ r \div b \in Int
  BY <1>2, Divided
<1>4. t = (t \div b) * b + (t % b) /\ t % b \in 0 .. b - 1 /\ t \div b \in Int
  BY Divided
<1> HIDE DEF k, r
<1> DEFINE d == t \div a
           e == r \div b
           q == d * k + e
<1>5. d \in Int /\ e \in Int
  BY <1>2, <1>3
<1> HIDE DEF d, e
<1>6. q * b = d * (k * b) + e * b
  BY <1>1, <1>5, Distributed
<1>7. t = d * a + r /\ r = e * b + (r % b)
  BY <1>2, <1>3 DEF d, e
<1>8. d * (k * b) = d * a
  BY <1>1
<1>9. q \in Int /\ d * a \in Int /\ e * b \in Int /\ q * b \in Int
  BY <1>1, <1>5
<1>10. t = q * b + (r % b)
  BY <1>2, <1>3, <1>6, <1>7, <1>8, <1>9
<1>11. r % b = t % b
  BY <1>3, <1>4, <1>9, <1>10, RemainderUnique
<1> QED
  BY <1>11 DEF r

\* mktime takes back what localtime has made of a time at which the clocks are not ahead.
LEMMA TimeKept ==
  ASSUME NEW t \in Int
  PROVE  /\ \A f \in Fields : Part(t, f) \in Int
         /\ Part(t, "year") * Unit["year"] + Part(t, "mon") * Unit["mon"]
              + Part(t, "day") * Unit["day"] + Part(t, "hour") * Unit["hour"]
              + Part(t, "min") * Unit["min"] + Part(t, "sec") * Unit["sec"] = t
         /\ \A f \in Fields \ {"year"} : Part(t, f) >= 0
         /\ t >= -1 => Part(t, "year") >= -1
<1> DEFINE Left(f) == t % Unit[f]
<1>1. \A f \in Fields : Unit[f] \in Nat \ {0}
  BY TimeToolsAssumption DEF TimeToolsAssumption
<1>2. \A f \in Fields : Left(f) \in Nat
  BY <1>1, Divided
<1>3. /\ Part(t, "year") = t \div Unit["year"] /\ Part(t, "year") \in Int
      /\ Part(t, "year") * Unit["year"] = t - Left("year")
  <2>1. Part(t, "year") = t \div Unit["year"]
    BY DEF Part
  <2>2. PICK b : b = Unit["year"]
    OBVIOUS
  <2>3. b \in Nat \ {0}
    BY <1>1, <2>2 DEF Fields
  <2>4. t \div b \in Int /\ (t \div b) * b = t - (t % b)
    BY <2>3, Divided, WholeUnits
  <2> QED
    BY <2>1, <2>2, <2>4
<1>4. ASSUME NEW f \in Fields, NEW g \in Fields, Unit[f] % Unit[g] = 0, g # "year",
             Larger[g] = f
      PROVE  /\ Part(t, g) \in Nat
             /\ Part(t, g) * Unit[g] = Left(f) - Left(g)
  <2>1. Part(t, g) = Left(f) \div Unit[g]
    BY <1>4 DEF Part
  <2>2. Left(f) \in Nat /\ Unit[g] \in Nat \ {0} /\ Unit[f] \in Nat \ {0}
    BY <1>1, <1>2
  <2>3. Left(f) % Unit[g] = Left(g)
    BY <2>2, <1>4, RemainderTwice
  <2> HIDE DEF Left
  <2>4. PICK x, b : x = Left(f) /\ b = Unit[g]
    OBVIOUS
  <2>5. x \in Int /\ b \in Nat \ {0} /\ x % b = Left(g)
    BY <2>2, <2>3, <2>4
  <2>6. x \div b \in Int /\ (x \div b) * b = x - Left(g)
    BY <2>5, Divided, WholeUnits
  <2>7. x \div b >= 0
    BY <2>2, <2>4, <2>5
  <2> QED
    BY <2>1, <2>4, <2>6, <2>7
<1>5. /\ Larger["mon"] = "year" /\ Larger["day"] = "mon" /\ Larger["hour"] = "day"
      /\ Larger["min"] = "hour" /\ Larger["sec"] = "min"
      /\ DOMAIN Larger = {"mon", "day", "hour", "min", "sec"}
  BY DEF Larger
<1>6. \A g \in {"mon", "day", "hour", "min", "sec"} : Unit[Larger[g]] % Unit[g] = 0
  BY <1>5, TimeToolsAssumption DEF TimeToolsAssumption
<1>7. Part(t, "mon") \in Nat /\ Part(t, "mon") * Unit["mon"] = Left("year") - Left("mon")
  BY <1>4, <1>5, <1>6 DEF Fields
<1>8. Part(t, "day") \in Nat /\ Part(t, "day") * Unit["day"] = Left("mon") - Left("day")
  BY <1>4, <1>5, <1>6 DEF Fields
<1>9. Part(t, "hour") \in Nat /\ Part(t, "hour") * Unit["hour"] = Left("day") - Left("hour")
  BY <1>4, <1>5, <1>6 DEF Fields
<1>10. Part(t, "min") \in Nat /\ Part(t, "min") * Unit["min"] = Left("hour") - Left("min")
  BY <1>4, <1>5, <1>6 DEF Fields
<1>11. Part(t, "sec") \in Nat /\ Part(t, "sec") * Unit["sec"] = Left("min") - Left("sec")
  BY <1>4, <1>5, <1>6 DEF Fields
<1>12. Left("sec") = 0
  BY TimeToolsAssumption DEF TimeToolsAssumption
<1>13. t >= -1 => Part(t, "year") >= -1
  BY <1>1, <1>3 DEF Fields
<1> HIDE DEF Left
<1>14. /\ Left("year") \in Int /\ Left("mon") \in Int /\ Left("day") \in Int
       /\ Left("hour") \in Int /\ Left("min") \in Int
  BY <1>2 DEF Fields
<1>15. Part(t, "year") * Unit["year"] + Part(t, "mon") * Unit["mon"]
         + Part(t, "day") * Unit["day"] + Part(t, "hour") * Unit["hour"]
         + Part(t, "min") * Unit["min"] + Part(t, "sec") * Unit["sec"] = t
  BY <1>3, <1>7, <1>8, <1>9, <1>10, <1>11, <1>12, <1>14
<1> QED
  BY <1>3, <1>7, <1>8, <1>9, <1>10, <1>11, <1>13, <1>15 DEF Fields

DateInv == DateTypeOK /\ TimesRight

LEMMA LocalTyped ==
  ASSUME NEW t \in Times \cup {-1}, NEW f \in Fields
  PROVE  Written(t, f) \in Nat
<1> DEFINE l == IF t \in Summer THEN t + Ahead ELSE t
<1>1. l \in Int /\ l >= -1
  BY TimeToolsAssumption DEF TimeToolsAssumption, Times
<1> HIDE DEF l
<1>2. Part(l, f) \in Int /\ (f # "year" => Part(l, f) >= 0) /\ (f = "year" => Part(l, f) >= -1)
  BY <1>1, TimeKept DEF Fields
<1>3. localtime(t)[f] = First[f] + Part(l, f)
  BY DEF localtime, l
<1> QED
  BY <1>2, <1>3 DEF Written, First, Fields

\* A text has the fields of its format.
LEMMA ShownFields == ASSUME NEW fmt PROVE Shown(fmt) \subseteq Fields
BY DEF Shown, Fields, Day

\* Except for the formats that are mistaken, timetostr and its comment agree.
LEMMA AskedShown ==
  ASSUME NEW fmt \in Formats, NEW cstr \in BOOLEAN, ~Mistaken(fmt, cstr)
  PROVE  Asked(fmt) = Shown(fmt)
<1>1. CASE Shown(fmt) = {}
  BY <1>1 DEF Mistaken
<1>2. CASE Shown(fmt) # {}
  <2>1. fmt \in {"", "yyyy-mm-dd hh24:mi:ss", "yyyymmddhh24miss", "yyyy-mm-dd hh24:mi",
                 "yyyymmddhh24mi", "yyyy-mm-dd hh24", "yyyymmddhh24", "yyyy-mm-dd", "yyyymmdd",
                 "yyyy-mm", "hh24miss", "hh24mi", "hh24", "mi"}
    BY <1>2 DEF Shown
  <2> QED
    BY <2>1 DEF Asked, Shown, Fields, Day, NoYear, NoHour, NoMinute, Second
<1> QED
  BY <1>1, <1>2

LEMMA AskedFields == ASSUME NEW fmt PROVE Asked(fmt) \subseteq Fields
BY DEF Asked

LEMMA TextOf ==
  ASSUME NEW t \in Times \cup {-1}, NEW w, NEW fmt, NEW cstr \in BOOLEAN, DateTypeOK,
         Show(t, w, fmt, cstr)
  PROVE  /\ Shown(fmt) # {} =>
              /\ DOMAIN text' = Shown(fmt)
              /\ \A f \in DOMAIN text' : text'[f] = Written(t, f)
         /\ Shown(fmt) = {} => text' = IF cstr THEN Empty ELSE text
         /\ DOMAIN text' \subseteq Fields /\ \A f \in DOMAIN text' : text'[f] \in Nat
<1>1. CASE Shown(fmt) = {}
  BY <1>1 DEF Show, timetostr, Empty, DateTypeOK
<1>2. CASE Shown(fmt) # {}
  <2>1. text' = [f \in Shown(fmt) |-> Written(t, f)]
    BY <1>2 DEF Show, timetostr, Written
  <2> QED
    BY <1>2, <2>1, ShownFields, LocalTyped
<1> QED
  BY <1>1, <1>2

\* Fourteen digits are all six fields.
LEMMA FullText ==
  ASSUME DOMAIN text \subseteq Fields
  PROVE  Width(text) = 14 <=> DOMAIN text = Fields
<1>1. IsFiniteSet(Fields) /\ Cardinality(Fields) = 6
  <2>1. IsFiniteSet({}) /\ Cardinality({}) = 0
    BY FS_EmptySet
  <2>2. IsFiniteSet({"year"}) /\ Cardinality({"year"}) = 1
    BY FS_Singleton
  <2>3. LET S == {"year"} \cup {"mon"} IN IsFiniteSet(S) /\ Cardinality(S) = 2
    BY <2>2, FS_AddElement
  <2>4. LET S == ({"year"} \cup {"mon"}) \cup {"day"} IN IsFiniteSet(S) /\ Cardinality(S) = 3
    BY <2>3, FS_AddElement
  <2>5. LET S == (({"year"} \cup {"mon"}) \cup {"day"}) \cup {"hour"}
        IN  IsFiniteSet(S) /\ Cardinality(S) = 4
    BY <2>4, FS_AddElement
  <2>6. LET S == ((({"year"} \cup {"mon"}) \cup {"day"}) \cup {"hour"}) \cup {"min"}
        IN  IsFiniteSet(S) /\ Cardinality(S) = 5
    BY <2>5, FS_AddElement
  <2>7. LET S == (((({"year"} \cup {"mon"}) \cup {"day"}) \cup {"hour"}) \cup {"min"}) \cup {"sec"}
        IN  IsFiniteSet(S) /\ Cardinality(S) = 6
    BY <2>6, FS_AddElement
  <2>8. Fields = (((({"year"} \cup {"mon"}) \cup {"day"}) \cup {"hour"}) \cup {"min"}) \cup {"sec"}
    BY DEF Fields
  <2> QED
    BY <2>7, <2>8
<1>2. /\ Cardinality(DOMAIN text) \in Nat /\ Cardinality(DOMAIN text) <= 6
      /\ Cardinality(DOMAIN text) = 6 <=> DOMAIN text = Fields
  BY <1>1, FS_Subset, FS_CardinalityType
<1>3. Width(text) = 14 => Cardinality(DOMAIN text) = 6
  BY <1>2 DEF Width
<1>4. DOMAIN text = Fields => Width(text) = 14
  BY <1>2 DEF Width, Fields
<1> QED
  BY <1>2, <1>3, <1>4

\* Reading back what was written for a time that is not in summer.
LEMMA ReadBack ==
  ASSUME DateTypeOK, DOMAIN text = Fields, when \notin Summer,
         \A f \in Fields : text[f] = Written(when, f)
  PROVE  strtotime(text) = when
<1> DEFINE tm == [f \in Fields |-> CASE f = "year" -> text.year - 1900
                                     [] f = "mon" -> tm_mon(text)
                                     [] OTHER -> text[f]]
<1>1. when \in Int /\ \A f \in Fields : Part(when, f) \in Int
  BY TimeToolsAssumption, TimeKept DEF DateTypeOK, Times, TimeToolsAssumption
<1>2. \A f \in Fields : localtime(when)[f] = First[f] + Part(when, f)
  BY DEF localtime
<1>3. \A f \in Fields : tm[f] - First[f] = Part(when, f)
  BY <1>1, <1>2 DEF Written, tm_mon, First, Fields
<1>4. strtotime(text) = mktime(tm)
  BY FullText DEF strtotime, DateTypeOK
<1> HIDE DEF tm
<1>5. \A f \in Fields : Seconds(tm, f) = Part(when, f) * Unit[f]
  BY <1>3 DEF Seconds
<1>6. mktime(tm) = when
  BY <1>1, <1>5, TimeKept DEF mktime, Fields
<1> QED
  BY <1>4, <1>6

LEMMA DateFirst == ASSUME DateInit PROVE DateInv
<1>1. 0 \in Times
  BY TimeToolsAssumption DEF TimeToolsAssumption, Times
<1> QED
  BY <1>1 DEF DateInit, DateInv, DateTypeOK, TimesRight, Empty

\* What a step does to the time a text shows: it shows what it should, unless the
\* format is mistaken or the time is not the one it was meant to show.
LEMMA ShowsRight ==
  ASSUME DateInv, NEW t \in Times \cup {-1}, NEW w \in Times \cup {-1},
         NEW fmt \in Formats, NEW cstr \in BOOLEAN, Show(t, w, fmt, cstr)
  PROVE  /\ DOMAIN text' \subseteq Fields /\ \A f \in DOMAIN text' : text'[f] \in Nat
         /\ when' \in Times \cup {-1} /\ want' \subseteq Fields
         /\ ~Mistaken(fmt, cstr) /\ t = w =>
              DOMAIN text' = want' /\ \A f \in want' : text'[f] = Written(when', f)
<1>1. DateTypeOK
  BY DEF DateInv
<1>2. when' = w /\ want' = Asked(fmt)
  BY DEF Show
<1>3. /\ DOMAIN text' \subseteq Fields /\ \A f \in DOMAIN text' : text'[f] \in Nat
      /\ when' \in Times \cup {-1} /\ want' \subseteq Fields
  BY <1>1, <1>2, TextOf, AskedFields
<1>4. ASSUME ~Mistaken(fmt, cstr), t = w
      PROVE  DOMAIN text' = want' /\ \A f \in want' : text'[f] = Written(when', f)
  <2>1. want' = Shown(fmt)
    BY <1>2, <1>4, AskedShown
  <2>2. CASE Shown(fmt) # {}
    BY <1>1, <1>2, <1>4, <2>1, <2>2, TextOf
  <2>3. CASE Shown(fmt) = {}
    <3>1. text' = IF cstr THEN Empty ELSE text
      BY <1>1, <2>3, TextOf
    <3>2. DOMAIN text' = {}
      BY <1>4, <2>3, <3>1 DEF Mistaken, Empty
    <3> QED
      BY <2>1, <2>3, <3>2
  <2> QED
    BY <2>2, <2>3
<1> QED
  BY <1>3, <1>4

LEMMA DateStep == ASSUME DateInv, [DateNext]_dateVars PROVE DateInv'
<1> USE DEF DateInv
<1>1. ~odd => mtime = due /\ DOMAIN text = want /\ \A f \in want : text[f] = Written(when, f)
  BY DEF TimesRight
<1>2. DOMAIN text \subseteq Fields /\ {mtime, due, when} \subseteq Times \cup {-1}
  BY DEF DateTypeOK
<1>3. ~odd /\ DOMAIN text = Fields /\ when \notin Summer => strtotime(text) = when
  BY <1>1, ReadBack
<1>4. DOMAIN text # Fields => strtotime(text) = -1
  BY <1>2, FullText DEF strtotime
<1>5. ASSUME NEW t \in Times \cup {-1}, NEW w \in Times \cup {-1},
             NEW fmt \in Formats, NEW cstr \in BOOLEAN, Show(t, w, fmt, cstr),
             UNCHANGED <<mtime, due>>, odd' \in BOOLEAN,
             ~odd' => ~odd /\ ~Mistaken(fmt, cstr) /\ t = w
      PROVE  DateInv'
  <2>1. /\ DOMAIN text' \subseteq Fields /\ \A f \in DOMAIN text' : text'[f] \in Nat
        /\ when' \in Times \cup {-1} /\ want' \subseteq Fields
        /\ ~Mistaken(fmt, cstr) /\ t = w =>
             DOMAIN text' = want' /\ \A f \in want' : text'[f] = Written(when', f)
    BY <1>5, ShowsRight
  <2>2. DateTypeOK'
    BY <1>2, <1>5, <2>1 DEF DateTypeOK
  <2>3. TimesRight'
    BY <1>1, <1>5, <2>1 DEF TimesRight
  <2> QED
    BY <2>2, <2>3
<1>6. CASE Setmtime
  <2>1. /\ mtime' \in Times \cup {-1} /\ due' = when
        /\ text' = text /\ when' = when /\ want' = want
        /\ odd' = (odd \/ DOMAIN text # Fields \/ when \in Summer)
    BY <1>6 DEF Setmtime
  <2>2. DateTypeOK'
    BY <1>2, <2>1 DEF DateTypeOK
  <2>3. ~odd' => mtime' = due'
    BY <1>3, <1>6, <2>1 DEF Setmtime
  <2>4. TimesRight'
    BY <1>1, <2>1, <2>3 DEF TimesRight
  <2> QED
    BY <2>2, <2>4
<1>7. ASSUME NEW fmt \in Formats, NEW cstr \in BOOLEAN, Filemtime(fmt, cstr) PROVE DateInv'
  <2>1. /\ Show(mtime, due, fmt, cstr) /\ odd' = (odd \/ Mistaken(fmt, cstr))
        /\ UNCHANGED <<mtime, due>>
    BY <1>7 DEF Filemtime
  <2>2. odd' \in BOOLEAN /\ (~odd' => ~odd /\ ~Mistaken(fmt, cstr) /\ mtime = due)
    BY <1>1, <2>1 DEF DateTypeOK, Mistaken
  <2> QED
    BY <1>2, <1>5, <2>1, <2>2
<1>8. ASSUME NEW fmt \in Formats, NEW cstr \in BOOLEAN, NEW timetvl \in Offsets,
             Ltime(fmt, timetvl, cstr)
      PROVE  DateInv'
  <2>1. PICK now \in Clock :
          /\ now + timetvl \in Times
          /\ Show(now + timetvl, now + timetvl, fmt, cstr)
          /\ odd' = (odd \/ Mistaken(fmt, cstr))
          /\ UNCHANGED <<mtime, due>>
    BY <1>8 DEF Ltime
  <2>2. odd' \in BOOLEAN /\ (~odd' => ~odd /\ ~Mistaken(fmt, cstr))
    BY <2>1 DEF DateTypeOK, Mistaken
  <2> QED
    BY <1>5, <2>1, <2>2
<1>9. ASSUME NEW fmt \in Formats, NEW cstr \in BOOLEAN, NEW timetvl \in Offsets,
             Addtime(fmt, timetvl, cstr)
      PROVE  DateInv'
  <2>1. CASE strtotime(text) = -1
    <3>1. text' = Empty /\ want' = {} /\ UNCHANGED <<mtime, when, due, odd>>
      BY <1>9, <2>1 DEF Addtime
    <3> QED
      BY <1>1, <3>1 DEF DateTypeOK, TimesRight, Empty
  <2>2. CASE strtotime(text) # -1
    <3> DEFINE t == strtotime(text) + timetvl
               w == when + timetvl
    <3>1. /\ t \in Times /\ w \in Times
          /\ Show(t, w, fmt, cstr)
          /\ odd' = (odd \/ when \in Summer \/ Mistaken(fmt, cstr)) /\ UNCHANGED <<mtime, due>>
      BY <1>9, <2>2 DEF Addtime
    <3>2. ~odd /\ when \notin Summer => t = w
      BY <1>3, <1>4, <2>2
    <3> HIDE DEF t, w
    <3>3. odd' \in BOOLEAN /\ (~odd' => ~odd /\ ~Mistaken(fmt, cstr) /\ t = w)
      BY <3>1, <3>2 DEF DateTypeOK, Mistaken
    <3> QED
      BY <1>5, <3>1, <3>3
  <2> QED
    BY <2>1, <2>2
<1>10. CASE UNCHANGED dateVars
  BY <1>1, <1>10 DEF dateVars, DateTypeOK, TimesRight
<1> QED
  BY <1>6, <1>7, <1>8, <1>9, <1>10 DEF DateNext

\* The types of the times and texts.
THEOREM DatesTyped == DateSpec => []DateTypeOK
<1>1. DateInv => DateTypeOK
  BY DEF DateInv
<1>2. DateInit => DateInv
  BY DateFirst
<1>3. DateInv /\ [DateNext]_dateVars => DateInv'
  BY DateStep
<1> QED
  BY <1>1, <1>2, <1>3, PTL DEF DateSpec

\* For every regular calendar, summer, clock and sequence of calls: a text shows exactly
\* the fields its format asks for, of the time it was made for, and a file has the time
\* it was given, until one of the exceptions TimesRight names (timetostr, strtotime,
\* addtime, setmtime).
THEOREM TimesAlwaysRight == DateSpec => []TimesRight
<1>1. DateInv => TimesRight
  BY DEF DateInv
<1>2. DateInit => DateInv
  BY DateFirst
<1>3. DateInv /\ [DateNext]_dateVars => DateInv'
  BY DateStep
<1> QED
  BY <1>1, <1>2, <1>3, PTL DEF DateSpec
=============================================================================
