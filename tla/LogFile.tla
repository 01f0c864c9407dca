------------------------------ MODULE LogFile ------------------------------
(***************************************************************************)
(* The log file class clogfile (public.h, public.cpp) shared by threads:   *)
(* write() tests the stream and the file size without the spin lock and    *)
(* takes the lock to rotate the file and, again, to append the line.       *)
(*                                                                         *)
(* A line is a record <<thread, number>>.  disk maps the log's name and    *)
(* the backup names (the second in which the backup was made) to what is   *)
(* in the file; a name without a file is mapped to Absent.  isopen, tell   *)
(* and good are the stream's is_open(), tellp() and good(); libstdc++      *)
(* reports position 0 for a file opened with ios::app until the first      *)
(* line is appended.  lock is the holder of m_splock or NoThread.          *)
(*                                                                         *)
(* pc[t] is the place of thread t:                                         *)
(*   "idle"    outside clogfile                                            *)
(*   "test"    in backup, at its own test of is_open()                     *)
(*   "size"    in backup, at the test of tellp()                           *)
(*   "rotate"  in backup, spinning on the lock                             *)
(*   "close", "rename", "reopen", "release"  in backup, holding the lock   *)
(*   "spin"    in write or operator<<, spinning on the lock                *)
(*   "put"     holding the lock, about to insert the line                  *)
(*   "unlock"  line inserted                                               *)
(*   "return"  in write, about to return good(), which it reads unlocked   *)
(*                                                                         *)
(* History variables: kept, the lines inserted in an open stream; refused, *)
(* those whose write() returned false; clash, a backup replaced another;   *)
(* failed, a rotation left the stream closed.                              *)
(***************************************************************************)
EXTENDS Integers, Sequences, SequencesExt, FiniteSets

CONSTANTS
  Threads, NoThread,
  Lines,         \* bound: lines each thread logs
  MaxSize,       \* m_maxsize, in lines
  LastSec,       \* bound: the clock stops at this second
  Backup,        \* m_backup
  Faults,        \* TRUE if rename and open may fail
  Absent         \* a name without a file

VARIABLES disk, isopen, tell, good, lock, pc, count, sec, shift, bak,
          kept, refused, clash, failed

vars == <<disk, isopen, tell, good, lock, pc, count, sec, shift, bak,
          kept, refused, clash, failed>>
stream == <<disk, isopen, tell, good>>
history == <<kept, refused, clash, failed>>

Secs == 0 .. LastSec
Log == LastSec + 1         \* the log's own name, after every backup's
Names == Secs \cup {Log}
Line == Threads \X (1 .. Lines)

ASSUME LogFileAssumption ==
  /\ NoThread \notin Threads
  /\ Lines \in Nat /\ MaxSize \in Nat /\ LastSec \in Nat
  /\ Backup \in BOOLEAN /\ Faults \in BOOLEAN
  /\ Absent \notin Seq(Line)

Held == {"close", "rename", "reopen", "release", "put", "unlock"}

\* The type invariant.
TypeOK ==
  /\ disk \in [Names -> {Absent} \cup Seq(Line)]
  /\ isopen \in BOOLEAN /\ good \in BOOLEAN
  /\ tell \in Nat
  /\ lock \in Threads \cup {NoThread}
  /\ pc \in [Threads -> {"idle", "test", "size", "rotate", "spin", "return"} \cup Held]
  /\ count \in [Threads -> 0 .. Lines]
  /\ sec \in Secs
  /\ shift \in [Threads -> BOOLEAN]
  /\ bak \in [Threads -> Secs]
  /\ kept \subseteq Line /\ refused \subseteq Line
  /\ clash \in BOOLEAN /\ failed \in BOOLEAN

\* clogfile::open has been called: the file is there and empty.
Init ==
  /\ disk = [n \in Names |-> IF n = Log THEN <<>> ELSE Absent]
  /\ isopen = TRUE /\ good = TRUE
  /\ tell = 0
  /\ lock = NoThread
  /\ pc = [t \in Threads |-> "idle"]
  /\ count = [t \in Threads |-> 0]
  /\ sec = 0
  /\ shift = [t \in Threads |-> FALSE]
  /\ bak = [t \in Threads |-> 0]
  /\ kept = {} /\ refused = {} /\ clash = FALSE /\ failed = FALSE

Goto(t, l) == pc' = [pc EXCEPT ![t] = l]
This(t) == <<t, count[t]>>                \* the line t is logging

-----------------------------------------------------------------------------
\* write(): the first test of is_open(), without the lock.
Write(t) ==
  /\ pc[t] = "idle"
  /\ count[t] < Lines
  /\ count' = [count EXCEPT ![t] = @ + 1]
  /\ shift' = [shift EXCEPT ![t] = FALSE]
  /\ IF isopen
     THEN Goto(t, IF Backup THEN "test" ELSE "spin") /\ UNCHANGED refused
     ELSE refused' = refused \cup {<<t, count[t] + 1>>} /\ UNCHANGED pc
  /\ UNCHANGED <<stream, lock, sec, bak, kept, clash, failed>>

\* operator<<: no test at all.
Shift(t) ==
  /\ pc[t] = "idle"
  /\ count[t] < Lines
  /\ count' = [count EXCEPT ![t] = @ + 1]
  /\ shift' = [shift EXCEPT ![t] = TRUE]
  /\ Goto(t, "spin")
  /\ UNCHANGED <<stream, lock, sec, bak, history>>

\* backup(): the second test of is_open(); write ignores backup's result.
Test(t) ==
  /\ pc[t] = "test"
  /\ Goto(t, IF isopen THEN "size" ELSE "spin")
  /\ UNCHANGED <<stream, lock, count, sec, shift, bak, history>>

\* backup(): tellp() > m_maxsize; tellp() of a closed stream is -1.
Size(t) ==
  /\ pc[t] = "size"
  /\ Goto(t, IF isopen /\ tell > MaxSize THEN "rotate" ELSE "spin")
  /\ UNCHANGED <<stream, lock, count, sec, shift, bak, history>>

\* spinlock_mutex::lock, in backup and in write.
Acquire(t) ==
  /\ pc[t] \in {"rotate", "spin"}
  /\ lock = NoThread
  /\ lock' = t
  /\ Goto(t, IF pc[t] = "rotate" THEN "close" ELSE "put")
  /\ UNCHANGED <<stream, count, sec, shift, bak, history>>

\* spinlock_mutex::lock while another thread has it: the loop goes round.
Spin(t) ==
  /\ pc[t] \in {"rotate", "spin"}
  /\ lock # NoThread
  /\ UNCHANGED vars

\* backup(): fout.close(), which fails on a closed stream, then the backup's
\* name from the current second.
CloseOld(t) ==
  /\ pc[t] = "close"
  /\ isopen' = FALSE
  /\ good' = (good /\ isopen)
  /\ bak' = [bak EXCEPT ![t] = sec]
  /\ Goto(t, "rename")
  /\ UNCHANGED <<disk, tell, lock, count, sec, shift, history>>

\* backup(): rename(), which replaces a file that has the new name already.
Rename(t) ==
  /\ pc[t] = "rename"
  /\ Goto(t, "reopen")
  /\ \/ /\ disk[Log] # Absent
        /\ disk' = [disk EXCEPT ![bak[t]] = disk[Log], ![Log] = Absent]
        /\ clash' = (clash \/ disk[bak[t]] # Absent)
     \/ /\ Faults \/ disk[Log] = Absent
        /\ UNCHANGED <<disk, clash>>
  /\ UNCHANGED <<isopen, tell, good, lock, count, sec, shift, bak, kept, refused, failed>>

\* A wrong reopen: the mode is ios::out, which truncates, not ios::app.
Reopen_Truncates(t) ==
  /\ pc[t] = "reopen"
  /\ Goto(t, "release")
  /\ isopen' = TRUE /\ good' = TRUE
  /\ tell' = 0
  /\ disk' = [disk EXCEPT ![Log] = <<>>]
  /\ UNCHANGED <<lock, count, sec, shift, bak, history>>

\* backup(): fout.open(), which creates the file if it is not there; it clears
\* the stream's error state or, if it fails, sets it.
Reopen(t) ==
  /\ pc[t] = "reopen"
  /\ Goto(t, "release")
  /\ \/ /\ isopen' = TRUE /\ good' = TRUE
        /\ tell' = 0
        /\ disk' = [disk EXCEPT ![Log] = IF @ = Absent THEN <<>> ELSE @]
        /\ UNCHANGED failed
     \/ /\ Faults
        /\ good' = FALSE /\ failed' = TRUE
        /\ UNCHANGED <<disk, isopen, tell>>
  /\ UNCHANGED <<lock, count, sec, shift, bak, kept, refused, clash>>

\* A wrong backup: it returns without unlocking.
Release_Forgets(t) ==
  /\ pc[t] = "release"
  /\ bak' = [bak EXCEPT ![t] = 0]
  /\ Goto(t, "spin")
  /\ UNCHANGED <<stream, lock, count, sec, shift, history>>

\* backup(): m_splock.unlock(); write goes on to take the lock again.
Release(t) ==
  /\ pc[t] = "release"
  /\ lock' = NoThread
  /\ bak' = [bak EXCEPT ![t] = 0]
  /\ Goto(t, "spin")
  /\ UNCHANGED <<stream, count, sec, shift, history>>

\* A wrong insertion: the line goes to the start of the file.
Inserted_AtStart(file, line) == <<line>> \o file

\* ios::app: the line goes to the end of the file.
Inserted(file, line) == Append(file, line)

\* write() and operator<<: the insertion; on a closed stream it sets badbit and
\* the line is gone.
Put(t) ==
  /\ pc[t] = "put"
  /\ Goto(t, "unlock")
  /\ IF isopen
     THEN /\ disk' = [disk EXCEPT ![Log] = Inserted(@, This(t))]
          /\ tell' = Len(disk[Log]) + 1
          /\ kept' = kept \cup {This(t)}
          /\ UNCHANGED good
     ELSE good' = FALSE /\ UNCHANGED <<disk, tell, kept>>
  /\ UNCHANGED <<isopen, lock, count, sec, shift, bak, refused, clash, failed>>

Unlock(t) ==
  /\ pc[t] = "unlock"
  /\ lock' = NoThread
  /\ Goto(t, IF shift[t] THEN "idle" ELSE "return")
  /\ UNCHANGED <<stream, count, sec, shift, bak, history>>

\* write() returns good() as it is now, which another thread may have changed.
Return(t) ==
  /\ pc[t] = "return"
  /\ Goto(t, "idle")
  /\ refused' = IF good THEN refused ELSE refused \cup {This(t)}
  /\ UNCHANGED <<stream, lock, count, sec, shift, bak, kept, clash, failed>>

\* The clock.
Tick ==
  /\ sec < LastSec
  /\ sec' = sec + 1
  /\ UNCHANGED <<stream, lock, pc, count, shift, bak, history>>

ThreadStep(t) ==
  \/ Write(t) \/ Shift(t) \/ Test(t) \/ Size(t) \/ Acquire(t) \/ Spin(t)
  \/ CloseOld(t) \/ Rename(t) \/ Reopen(t) \/ Release(t) \/ Put(t) \/ Unlock(t) \/ Return(t)

AllDone == \A t \in Threads : pc[t] = "idle" /\ count[t] = Lines
Finished == AllDone /\ UNCHANGED vars

Next == Tick \/ Finished \/ \E t \in Threads : ThreadStep(t)

\* Fairness: every thread keeps running; a spinning thread gets the lock once
\* nobody else wants it any more.
Spec == Init /\ [][Next]_vars
FairSpec == Spec /\ \A t \in Threads : WF_vars(ThreadStep(t))

-----------------------------------------------------------------------------
\* The lines in the file called n.
LinesIn(n) == IF disk[n] = Absent THEN {} ELSE Range(disk[n])
OnDisk == UNION {LinesIn(n) : n \in Names}

\* No line is in two places: neither a rotation nor two insertions duplicate.  And
\* none is there for which write() returned false, so that the caller may log it
\* again, as long as no rotation has left the stream closed: after that the result
\* may be that of another thread's rotation.
AtMostOnce ==
  /\ ~failed => refused \cap OnDisk = {}
  /\ \A m, n \in Names :
       /\ m # n => LinesIn(m) \cap LinesIn(n) = {}
       /\ disk[m] # Absent => IsInjective(disk[m])

\* The lines of one thread are in the order it logged them, within a file and
\* from an older backup to a newer one to the log, although rotations cut in between.
InOrder ==
  \A t \in Threads : \A i, j \in 1 .. Lines : i < j =>
    \A n, m \in Names :
      <<t, i>> \in LinesIn(n) /\ <<t, j>> \in LinesIn(m) =>
        \/ n < m
        \/ n = m /\ \A a, b \in DOMAIN disk[n] :
                       disk[n][a] = <<t, i>> /\ disk[n][b] = <<t, j>> => a < b

\* What clogfile::write promises for what it logged, through every rotation: each
\* line once, and in order.
OnceInOrder == AtMostOnce /\ InOrder

\* The only way to lose a line that went into an open stream is a rotation in
\* the second of an earlier one: whatever the threads do, nothing else does.
LossOnlyByClash == ~clash => kept \subseteq OnDisk

\* A log that is rotated by several threads (write, backup) has every line it should,
\* once and in its place.
LogSound == OnceInOrder /\ LossOnlyByClash

\* Every call returns: no thread keeps the lock.
AllReturn == <>AllDone

=============================================================================
