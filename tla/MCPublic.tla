------------------------------ MODULE MCPublic ------------------------------
(***************************************************************************)
(* Values for checking with TLC the parts of public.cpp that a process     *)
(* uses by itself: a behaviour is one of LogFile (two threads that log),   *)
(* of TcpConn (the calls that open and close sockets), of TcpFrame (those  *)
(* that read and write on one), of TextTools or of TimeTools (part), and   *)
(* the variables of the others keep their first values.  The process of    *)
(* TcpConn closed its standard files, so that descriptor 0 is free; the    *)
(* messages of TcpFrame are two texts, an empty one and a binary message   *)
(* between them.                                                           *)
(***************************************************************************)
EXTENDS LogFile, TcpConn, TcpFrame, TimeTools

CONSTANTS MaxInt, MaxLong, MaxText, t1, t2

VARIABLES part, call, place, str, pstart, ret, value

textvars == <<call, place, str, pstart, ret, value>>
allvars == <<part, vars, connVars, frameVars, textvars, dateVars>>

TwoThreads == {t1, t2}

Nothing == {}
Text(n) == [kind |-> "text", len |-> n]
Bin(n) == [kind |-> "bin", len |-> n]
Messages == <<Text(2), Bin(2), Text(0), Text(1)>>

-----------------------------------------------------------------------------
\* The calls of the string helpers: all short texts of the characters that matter.
Open == <<"<", "a", ">">>
Shut == <<"<", "/", "a", ">">>
Tags == {Open, Shut, <<"<", "b", ">">>, <<"1">>}
Calls ==
  [op : {"match"}, str : BoundedSeq({"a", "b"}, 3), rules : BoundedSeq({"a", "B", "*", ","}, 4)]
  \cup [op : {"trim"}, str : BoundedSeq({"a", "b", " "}, 4), cstr : BOOLEAN]
  \cup [op : {"split"}, buffer : BoundedSeq({"a", " ", ","}, 4),
        sepstr : {<<",">>, <<",", ",">>, <<" ">>}, bdelspace : BOOLEAN]
  \cup [op : {"replace"}, str : BoundedSeq({"a", "b"}, 3), str1 : BoundedSeq({"a", "b"}, 2),
        str2 : BoundedSeq({"a", "b"}, 2) \cup {<<"b", "b", "a", "a">>}, bloop : BOOLEAN, cstr : {FALSE}]
  \cup [op : {"replace"}, str : {<<"a">>}, str1 : {<<"a">>}, str2 : {<<"a">>}, bloop : {TRUE}, cstr : {TRUE}]
  \cup [op : {"getvalue"}, str : BoundedSeq({"1", "9", "-", "."}, 3), ilen : {0},
        kind : {"int", "unsigned int", "long", "unsigned long", "double", "float"}]
  \cup [op : {"getvalue"}, str : {<<"t", "r", "u", "e">>, <<"t">>}, ilen : 0 .. 2,
        kind : {"bool", "string", "char"}]
  \cup [op : {"xml"}, xml : {FlattenSeq(tags) : tags \in BoundedSeq(Tags, 4)}, start : {Open}, end : {Shut},
        kind : {"string", "char", "int"}, ilen : 0 .. 2]
Texts == INSTANCE TextTools WITH pc <- place

\* A year of two months of two days, and so on; summer is in the first year.
Calendar == [year |-> 32, mon |-> 16, day |-> 8, hour |-> 4, min |-> 2, sec |-> 1]
FirstSummer == 10 .. 16
Instants == {0, 17, 30}
ThereAndBack == {-3, 5}

-----------------------------------------------------------------------------
\* A step of one part.  When TimeTools promises nothing any more (odd) its steps are
\* not followed any further.
InLog(A) == part = "log" /\ A /\ UNCHANGED <<part, connVars, frameVars, textvars, dateVars>>
InConn(A) == part = "conn" /\ A /\ UNCHANGED <<part, vars, frameVars, textvars, dateVars>>
InFrames(A) == part = "frames" /\ A /\ UNCHANGED <<part, vars, connVars, textvars, dateVars>>
InTexts(A) == part = "texts" /\ A /\ UNCHANGED <<part, vars, connVars, frameVars, dateVars>>
InDates(A) == part = "dates" /\ ~odd /\ A /\ UNCHANGED <<part, vars, connVars, frameVars, textvars>>

MCInit ==
  /\ part \in {"log", "conn", "frames", "texts", "dates"}
  /\ Init /\ ConnInit /\ FrameInit /\ Texts!Init /\ DateInit /\ (part # "dates" => mtime = 0)
MCNext ==
  \/ InLog(Next) \/ InConn(ConnNext) \/ InFrames(FrameNext)
  \/ InTexts(Texts!Next) \/ InDates(DateNext)

\* The fairness of the specifications, each in its part.
MCSpec ==
  /\ MCInit /\ [][MCNext]_allvars
  /\ \A t \in Threads : WF_allvars(InLog(ThreadStep(t)))
  /\ WF_allvars(InFrames(Read)) /\ WF_allvars(InFrames(Writing))
  /\ WF_allvars(InTexts(Texts!ReplaceTurn))

-----------------------------------------------------------------------------
\* Every call of the log returns: no thread keeps the spin lock.
LogsReturn == part = "log" => AllReturn

\* Everything sent is read in the end, unless the connection goes down.
MessagesArrive == part = "frames" => AllDelivered

\* The properties of the string helpers, stated in TextTools: matchstr understands its
\* rules as its comment explains them.
MatchRight == Texts!MatchRight

\* Fields are cut, trimmed, read as numbers and found between tags as they should be
\* (splittocmd, deletelrchr, getvalue, getxmlbuffer).
FieldsRight == Texts!FieldsRight /\ Texts!ValuesRight

\* replacestr replaces what it should, and returns.
ReplaceRight == Texts!ReplaceRight
=============================================================================
