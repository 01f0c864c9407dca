----------------------------- MODULE TextTools ------------------------------
(***************************************************************************)
(* The string helpers of public.cpp: trimming, replacestr, picknumber,     *)
(* matchstr, the class ccmdstr and the getxmlbuffer family.  A string is a *)
(* sequence of characters; positions count from 1, and npos is 0.          *)
(*                                                                         *)
(* call is the call under way or made, ret what it returned, value what it *)
(* stored.  Only replacestr is more than one step: a turn of its loop each *)
(* (str and pstart are the code's).  cstr marks the char* version of a     *)
(* function where the two differ.                                          *)
(***************************************************************************)
EXTENDS Integers, SequencesExt

CONSTANTS
  Calls,        \* the calls considered, records with a field op
  MaxInt,       \* the largest int and long, in Nat
  MaxLong,
  MaxText       \* bound: the characters replacestr has memory for

VARIABLES call, pc, str, pstart, ret, value
vars == <<call, pc, str, pstart, ret, value>>

npos == 0
DigitChars == <<"0", "1", "2", "3", "4", "5", "6", "7", "8", "9">>
Digits == ToSet(DigitChars)
Signs == {"+", "-"}
Idle == [op |-> "none"]

\* The type invariant.
TypeOK ==
  /\ call \in Calls \cup {Idle} /\ pc \in {"idle", "replace", "done", "overflow"}
  /\ pc = "idle" <=> call = Idle
  /\ DOMAIN str = 1 .. Len(str) /\ Len(str) <= MaxText
  /\ pstart \in 1 .. Len(str) + 1 /\ ret \in BOOLEAN

Init ==
  /\ call = Idle /\ pc = "idle"
  /\ str = <<>> /\ pstart = 1 /\ ret = FALSE /\ value = <<>>

-----------------------------------------------------------------------------
\* string::find: the first place of t in s at or after from.  A from that is not a
\* position (in the code: a size_t that wrapped around) finds nothing.
Places(s, t) == {p \in 1 .. Len(s) - Len(t) + 1 : SubSeq(s, p, p + Len(t) - 1) = t}
Find(s, t, from) ==
  LET at == {p \in Places(s, t) : p >= from} IN IF from < 1 \/ at = {} THEN npos ELSE Min(at)

\* toupper, for the letters the calls use.
Lower == <<"a", "b", "t", "r", "u", "e">>
Capital == <<"A", "B", "T", "R", "U", "E">>
toupper(s) ==
  [i \in DOMAIN s |-> IF Contains(Lower, s[i]) THEN Capital[CHOOSE k \in DOMAIN Lower : Lower[k] = s[i]]
                      ELSE s[i]]

\* deletelchr with cc = ' '; the two versions agree.
Inked(s) == {i \in DOMAIN s : s[i] # " "}
deletelchr(s) == IF Inked(s) = {} THEN <<>> ELSE SubSeq(s, Min(Inked(s)), Len(s))

\* deleterchr of a string: nothing is deleted when pos, the last character to stay,
\* is the first of all.
deleterchr(s) ==
  IF Inked(s) = {} THEN <<>> ELSE IF Max(Inked(s)) = 1 THEN s ELSE SubSeq(s, 1, Max(Inked(s)))

\* Wrong: piscc is not reset by a character that stays.
Piscc_Sticks(s) == LET at == DOMAIN s \ Inked(s) IN IF at = {} THEN 0 ELSE Min(at)

\* The char* version: piscc is where the blanks at the end begin.
Piscc(s) == FoldLeftDomain(LAMBDA p, i : IF s[i] # " " THEN 0 ELSE IF p = 0 THEN i ELSE p, 0, s)
deleterchr_c(s) == IF Piscc(s) = 0 THEN s ELSE SubSeq(s, 1, Piscc(s) - 1)

deletelrchr(s, cstr) == IF cstr THEN deleterchr_c(deletelchr(s)) ELSE deleterchr(deletelchr(s))

\* splittocmd: the field from pos on, and then those behind the next separator.
m_cmdstr(buffer, sep) ==
  LET fields[pos \in 1 .. Len(buffer) + 1] ==
        LET pos1 == Find(buffer, sep, pos)
        IN IF pos1 = npos THEN <<SubSeq(buffer, pos, Len(buffer))>>
           ELSE <<SubSeq(buffer, pos, pos1 - 1)>> \o fields[pos1 + Len(sep)]
  IN fields[1]
splittocmd(buffer, sep, bdelspace) ==
  LET fields == m_cmdstr(buffer, sep)
  IN  [i \in DOMAIN fields |-> IF bdelspace THEN deletelrchr(fields[i], FALSE) ELSE fields[i]]

picknumber(s, bsigned, bdot) ==
  SelectSeq(s, LAMBDA c : c \in Digits \/ (bsigned /\ c \in Signs) \/ (bdot /\ c = "."))

-----------------------------------------------------------------------------
\* Wrong: the last part may be anywhere.
AtEnd_Anywhere(f, part) == Find(f, part, 1)

\* matchstr: one rule of the list.  pos1 is where the search for the next part
\* between two stars begins, 0 after a break.
AtEnd(f, part) == Find(f, part, Len(f) - Len(part) + 1)
RuleMatches(f, rule) ==
  LET parts == m_cmdstr(rule, <<"*">>)
      Turn(pos1, j) ==
        IF \/ pos1 = npos
           \/ j = 1 /\ ~IsPrefix(parts[1], f)
           \/ j = Len(parts) /\ AtEnd(f, parts[j]) = npos
           \/ Find(f, parts[j], pos1) = npos
        THEN npos
        ELSE Find(f, parts[j], pos1) + Len(parts[j])
  IN FoldLeftDomain(Turn, 1, parts) # npos

matchstr(s, rules) ==
  LET rule == m_cmdstr(toupper(rules), <<",">>)
  IN  /\ rules # <<>>
      /\ rules = <<"*">> \/ \E i \in DOMAIN rule : rule[i] # <<>> /\ RuleMatches(toupper(s), rule[i])

-----------------------------------------------------------------------------
\* stoi, stol and stoul of a text with digits and signs: what follows the first
\* digits is ignored; no digit, or a value out of range, is an exception.
Value(ds) == FoldLeft(LAMBDA n, c : 10 * n + (CHOOSE k \in 1 .. 10 : DigitChars[k] = c) - 1, 0, ds)
Leading(s, chars) == SubSeq(s, 1, Max({n \in 0 .. Len(s) : \A i \in 1 .. n : s[i] \in chars}))
stoi(s, low, high) ==
  LET signed == s # <<>> /\ s[1] \in Signs
      digits == Leading(IF signed THEN Tail(s) ELSE s, Digits)
      v == IF signed /\ s[1] = "-" THEN 0 - Value(digits) ELSE Value(digits)
      ok == digits # <<>> /\ v \in low .. high
  IN  [ok |-> ok, v |-> IF ok THEN v ELSE <<>>]

\* Wrong: signs are never picked.
PicksSigns_Never(kind) == FALSE

\* getvalue and getxmlbuffer into a number.  An unsigned int is read by stoi, too.
PicksSigns(kind) == kind \in {"int", "long"}
Low(kind) == CASE kind = "long" -> -MaxLong - 1 [] kind = "unsigned long" -> 0 [] OTHER -> -MaxInt - 1
High(kind) == CASE kind = "long" -> MaxLong [] kind = "unsigned long" -> 2 * MaxLong + 1 [] OTHER -> MaxInt
Number(s, kind) == stoi(picknumber(s, PicksSigns(kind), FALSE), Low(kind), High(kind))

\* stod and stof: a digit must come first, behind a sign and a dot.  What they make
\* of the text is left to them.
stod(s) ==
  LET body == IF s # <<>> /\ s[1] \in Signs THEN Tail(s) ELSE s
      first == IF body # <<>> /\ body[1] = "." THEN 2 ELSE 1
      ok == first <= Len(body) /\ body[first] \in Digits
  IN  [ok |-> ok, v |-> IF ok THEN s ELSE <<>>]

\* The first ilen characters, or all if ilen is 0.
Limited(s, ilen) == IF ilen > 0 /\ ilen < Len(s) THEN SubSeq(s, 1, ilen) ELSE s
Integral == {"int", "unsigned int", "long", "unsigned long"}
Converted(s, kind, ilen) ==
  CASE kind \in Integral -> Number(s, kind)
    [] kind \in {"double", "float"} -> stod(picknumber(s, TRUE, TRUE))
    [] kind = "bool" -> [ok |-> TRUE, v |-> toupper(s) = <<"T", "R", "U", "E">>]
    [] kind \in {"string", "char"} -> [ok |-> TRUE, v |-> Limited(s, ilen)]

\* getxmlbuffer of a string: from behind the first start tag to the first end tag.
\* If that lies before, the length is negative and stands for all that follows.
Element(xml, start, end, ilen) ==
  LET startp == Find(xml, start, 1)
      endp == Find(xml, end, 1)
      from == startp + Len(start)
      room == endp - from
      length == IF ilen > 0 /\ ilen < room THEN ilen ELSE room
  IN  IF startp = npos \/ endp = npos THEN [ok |-> FALSE, v |-> <<>>]
      ELSE [ok |-> TRUE, v |-> SubSeq(xml, from, IF length < 0 THEN Len(xml) ELSE from + length - 1)]

\* The versions for the other types; that for char* does not ask for the result.
getxmlbuffer(xml, start, end, kind, ilen) ==
  LET got == Element(xml, start, end, IF kind = "string" THEN ilen ELSE 0)
  IN  IF kind # "char" /\ ~got.ok THEN got
      ELSE IF kind = "string" THEN got
      ELSE Converted(got.v, kind, ilen)

-----------------------------------------------------------------------------
\* A call that returns at once.
Returns(op, r(_), v(_)) ==
  /\ pc = "idle"
  /\ \E c \in Calls :
       /\ c.op = op
       /\ call' = c /\ pc' = "done" /\ ret' = r(c) /\ value' = v(c)
  /\ UNCHANGED <<str, pstart>>

Trim == Returns("trim", LAMBDA c : TRUE, LAMBDA c : deletelrchr(c.str, c.cstr))
Splittocmd == Returns("split", LAMBDA c : TRUE, LAMBDA c : splittocmd(c.buffer, c.sepstr, c.bdelspace))
Matchstr == Returns("match", LAMBDA c : matchstr(c.str, c.rules), LAMBDA c : <<>>)
Getvalue ==
  Returns("getvalue", LAMBDA c : Converted(c.str, c.kind, c.ilen).ok,
                      LAMBDA c : Converted(c.str, c.kind, c.ilen).v)
Getxmlbuffer ==
  Returns("xml", LAMBDA c : getxmlbuffer(c.xml, c.start, c.end, c.kind, c.ilen).ok,
                 LAMBDA c : getxmlbuffer(c.xml, c.start, c.end, c.kind, c.ilen).v)

\* Wrong: the guard asks whether the old text contains the new one.
Endless_Swapped(c) == c.bloop /\ Find(c.str1, c.str2, 1) # npos

\* replacestr up to its loop: nothing is done for empty texts, or if the loop would
\* find str1 again in every str2.  The char* version returns true all the same.
Endless(c) == c.bloop /\ Find(c.str2, c.str1, 1) # npos
Refused(c) == c.str = <<>> \/ c.str1 = <<>> \/ Endless(c)
Replacestr ==
  /\ pc = "idle"
  /\ \E c \in Calls :
       /\ c.op = "replace"
       /\ call' = c /\ str' = c.str /\ pstart' = 1
       /\ pc' = IF Refused(c) THEN "done" ELSE "replace"
       /\ ret' = (c.cstr /\ Refused(c))
  /\ UNCHANGED value

\* A turn of the loop.  The bound: a text that grows beyond MaxText is given up.
Replaced(ppos) == SubSeq(str, 1, ppos - 1) \o call.str2 \o SubSeq(str, ppos + Len(call.str1), Len(str))
ReplaceTurn ==
  /\ pc = "replace"
  /\ LET ppos == Find(str, call.str1, IF call.bloop THEN 1 ELSE pstart)
     IN  IF ppos = npos
         THEN pc' = "done" /\ ret' = TRUE /\ UNCHANGED <<str, pstart>>
         ELSE IF Len(Replaced(ppos)) > MaxText
         THEN pc' = "overflow" /\ UNCHANGED <<str, pstart, ret>>
         ELSE /\ str' = Replaced(ppos)
              /\ pstart' = IF call.bloop THEN pstart ELSE ppos + Len(call.str2)
              /\ UNCHANGED <<pc, ret>>
  /\ UNCHANGED <<call, value>>

\* The caller has used the results.
Done ==
  /\ pc \in {"done", "overflow"}
  /\ call' = Idle /\ pc' = "idle" /\ str' = <<>> /\ pstart' = 1 /\ ret' = FALSE /\ value' = <<>>

Next ==
  \/ Trim \/ Splittocmd \/ Matchstr \/ Getvalue \/ Getxmlbuffer
  \/ Replacestr \/ ReplaceTurn \/ Done

Spec == Init /\ [][Next]_vars
\* Fairness: a call that is under way goes on.
FairSpec == Spec /\ WF_vars(ReplaceTurn)

-----------------------------------------------------------------------------
\* What a rule means, where a star stands for any characters.
Glob(f, rule) ==
  LET m[i \in 1 .. Len(f) + 1, j \in 1 .. Len(rule) + 1] ==
        IF j > Len(rule) THEN i > Len(f)
        ELSE \/ rule[j] = "*" /\ m[i, j + 1]
             \/ i <= Len(f) /\ rule[j] = "*" /\ m[i + 1, j]
             \/ i <= Len(f) /\ rule[j] = f[i] /\ m[i + 1, j + 1]
  IN  m[1, 1]

\* The texts between the commas of a list of rules.
Listed(rules) ==
  {SubSeq(rules, b[1], b[2]) : b \in
     {b \in (1 .. Len(rules) + 1) \X (0 .. Len(rules)) :
        /\ b[1] = 1 \/ rules[b[1] - 1] = ","
        /\ b[2] = Len(rules) \/ rules[b[2] + 1] = ","
        /\ b[1] <= b[2] + 1 /\ \A i \in b[1] .. b[2] : rules[i] # ","}}

\* What matchstr is asked: does the name match one of the rules of the list?
Meant == \E rule \in Listed(toupper(call.rules)) \ {<<>>} : Glob(toupper(call.str), rule)

\* A rule without a star that a longer name begins and ends with.
BothEnds(f, rule) ==
  ~Contains(rule, "*") /\ rule # f /\ IsPrefix(rule, f) /\ IsSuffix(rule, f)

\* matchstr finds every name its rules mean and lets in no other, except that nothing
\* is promised for a name that begins and ends with a rule without a star: the code
\* takes it, which is not what its comment says (public.h:70).
MatchRight ==
  pc = "done" /\ call.op = "match" =>
    /\ Meant => ret
    /\ ret => \/ Meant
              \/ \E rule \in Listed(toupper(call.rules)) \ {<<>>} : BothEnds(toupper(call.str), rule)

\* What is between the blanks.
Stripped(s) == IF Inked(s) = {} THEN <<>> ELSE SubSeq(s, Min(Inked(s)), Max(Inked(s)))

\* The string version of deleterchr does nothing if only the first character is to
\* stay, unlike its comment (public.h:29): of a text with a single character that is not
\* blank nothing is promised.
OneInked(s) == Cardinality(Inked(s)) = 1

\* splittocmd cuts a text at every separator, from left to right, and nowhere else,
\* and loses nothing but the separators and, with bdelspace, the blanks around a
\* field; both versions of deletelrchr take off the same blanks.  The exception is
\* OneInked, in the version for strings.
FieldsRight ==
  /\ pc = "done" /\ call.op = "trim" =>
       value = Stripped(call.str) \/ (~call.cstr /\ OneInked(call.str))
  /\ pc = "done" /\ call.op = "split" /\ ~call.bdelspace =>
       /\ FlattenSeq([i \in DOMAIN value |->
                       value[i] \o IF i < Len(value) THEN call.sepstr ELSE <<>>]) = call.buffer
       /\ \A i \in 1 .. Len(value) - 1 : Places(value[i] \o call.sepstr, call.sepstr) = {Len(value[i]) + 1}
       /\ Places(Last(value), call.sepstr) = {}
  /\ pc = "done" /\ call.op = "split" /\ call.bdelspace =>
       LET fields == splittocmd(call.buffer, call.sepstr, FALSE)
       IN  /\ Len(value) = Len(fields)
           /\ \A i \in DOMAIN fields : value[i] = Stripped(fields[i]) \/ OneInked(fields[i])

\* A text that is just a number of the type asked for.
Plain(s, kind) ==
  LET digits == IF s # <<>> /\ s[1] = "-" /\ kind \in {"int", "long"} THEN Tail(s) ELSE s
  IN  digits # <<>> /\ ToSet(digits) \subseteq Digits

\* The largest number of the type, which for an unsigned int is beyond what the code
\* reads.
Largest(kind) == IF kind = "unsigned int" THEN 2 * MaxInt + 1 ELSE High(kind)

\* A number in a field is read for what it is, and refused if it is too large for its
\* type; a field without digits is refused.  Whether an unsigned int that an int
\* cannot hold is read is left open, and of other texts nothing is promised: 1.7 is
\* read as 17, and -5 as 5 where the type is unsigned.
NumbersRight ==
  pc = "done" /\ call.op = "getvalue" /\ call.kind \in Integral =>
    /\ ToSet(call.str) \cap Digits = {} => ~ret
    /\ Plain(call.str, call.kind) =>
         LET v == IF call.str[1] = "-" THEN 0 - Value(Tail(call.str)) ELSE Value(call.str)
         IN  /\ ret => value = v /\ v <= Largest(call.kind)
             /\ v \in Low(call.kind) .. High(call.kind) => ret

Starts == Places(call.xml, call.start)
Ends == Places(call.xml, call.end)

\* getxmlbuffer finds what is between the first tags of that name, up to ilen
\* characters, if no end tag comes before the start tag (then the limit is
\* forgotten, too).  If there are no such tags it stores nothing and returns false;
\* the char* version, which never exceeds the limit, returns true then, which is not
\* what its comment says (public.h:138), and nothing is promised of it.
ElementRight ==
  pc = "done" /\ call.op = "xml" =>
    LET content == SubSeq(call.xml, Min(Starts) + Len(call.start), Min(Ends) - 1)
        wanted == Converted(content, call.kind, call.ilen)
    IN  /\ Starts = {} \/ Ends = {} => value = <<>> /\ (ret => call.kind = "char")
        /\ Starts # {} /\ Ends # {} /\ Min(Starts) < Min(Ends) => ret = wanted.ok /\ value = wanted.v
        /\ call.kind = "char" /\ call.ilen > 0 => Len(value) <= call.ilen

\* What the caller of a getvalue or getxmlbuffer goes by.
ValuesRight == NumbersRight /\ ElementRight

\* What the text must be when replacestr returns: with bloop no str1 is left, without
\* it all that are met from left to right have been replaced.
Replaces ==
  IF call.str = <<>> \/ call.str1 = <<>> \/ (call.bloop /\ Places(call.str2, call.str1) # {})
  THEN str = call.str
  ELSE IF call.bloop THEN Places(str, call.str1) = {}
  ELSE str = ReplaceAllSubSeqs(call.str2, call.str1, call.str)

\* replacestr returns, having replaced what it should.  But its guard against an endless
\* loop does not see every one: with bloop and a longer str2 the text may grow for ever,
\* as aab does with ab for bbaa.
ReplaceRight ==
  call.op = "replace" ~>
    /\ call.op = "replace"
    /\ \/ pc = "done" /\ Replaces
       \/ pc = "overflow" /\ call.bloop /\ Len(call.str2) > Len(call.str1)
=============================================================================
