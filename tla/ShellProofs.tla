----------------------------- MODULE ShellProofs -----------------------------
(***************************************************************************)
(* The shell on the terminal, for every size of the screen and the line,   *)
(* every set of keys and every text that the commands show.  The recursive *)
(* functions of the model (the fold of terminal_write, the loops of        *)
(* printint and printf) are first shown to exist, by the least number for  *)
(* which they would not.                                                   *)
(***************************************************************************)
EXTENDS Shell, SequenceTheorems, NaturalsInduction, WellFoundedInduction, TLAPS

(***************************************************************************)
(* The line buffer.                                                        *)
(***************************************************************************)
Indices == 0 .. (CMD_BUF_SIZE - 1)

\* n is the length of the C string in buf.
EndsAt(buf, n) == n \in Indices /\ buf[n] = NUL /\ \A m \in 0 .. (n - 1) : buf[m] # NUL

\* A buffer with a NUL has a C string, of one length.
LEMMA StringEnds ==
    ASSUME NEW buf, NEW i \in Indices, buf[i] = NUL
    PROVE  \E n \in 0 .. i : EndsAt(buf, n)
<1> DEFINE Nulls == {n \in Nat : n <= i /\ buf[n] = NUL}
<1>1. i \in Nat /\ CMD_BUF_SIZE \in Nat \ {0}
  BY ShellConstants DEF Indices
<1>2. i \in Nulls /\ Nulls \subseteq Nat
  BY <1>1
<1>3. PICK n \in Nulls : \A m \in Nulls : <<m, n>> \notin OpToRel(<, Nat)
  <2> HIDE DEF Nulls
  <2> QED BY <1>2, NatLessThanWellFounded, WFMin
<1>4. \A m \in Nulls : ~(m < n)
  BY <1>3 DEF OpToRel
<1>5. n \in Nat /\ n <= i /\ buf[n] = NUL
  OBVIOUS
<1>6. \A m \in 0 .. (n - 1) : buf[m] # NUL
  <2> SUFFICES ASSUME NEW m \in 0 .. (n - 1), buf[m] = NUL PROVE FALSE
    OBVIOUS
  <2>1. m \in Nat /\ m < n /\ m <= i
    BY <1>1, <1>5
  <2>2. m \in Nulls
    BY <2>1
  <2> QED BY <1>4, <2>1, <2>2
<1> QED BY <1>1, <1>5, <1>6 DEF EndsAt, Indices

LEMMA StringEndsOnce ==
    ASSUME NEW buf, NEW m, NEW n, EndsAt(buf, m), EndsAt(buf, n)
    PROVE  m = n
  BY ShellConstants DEF EndsAt, Indices

LEMMA CStringIs ==
    ASSUME NEW buf, NEW n, EndsAt(buf, n)
    PROVE  CString(buf) = Line(buf, n)
<1> DEFINE c == CHOOSE k \in 0 .. (CMD_BUF_SIZE - 1) :
                   buf[k] = NUL /\ \A m \in 0 .. (k - 1) : buf[m] # NUL
<1>1. EndsAt(buf, c)
  BY DEF EndsAt, Indices
<1>2. c = n
  BY <1>1, StringEndsOnce
<1> QED BY <1>2 DEF CString

(***************************************************************************)
(* The keys of the line.                                                   *)
(***************************************************************************)

\* cnt[i] of the first i keys of s have a character.
Counts(cnt, s) ==
    /\ cnt \in [0 .. Len(s) -> Nat] /\ cnt[0] = 0
    /\ \A i \in 1 .. Len(s) :
          cnt[i] <= i /\ cnt[i] = IF s[i] = NUL THEN cnt[i - 1] ELSE cnt[i - 1] + 1

HasCount(s, n) == \E cnt : Counts(cnt, s) /\ cnt[Len(s)] = n

LEMMA CountEmpty == HasCount(<<>>, 0)
<1>1. PICK cnt : cnt = [i \in 0 .. 0 |-> 0]
  OBVIOUS
<1>2. Counts(cnt, <<>>) /\ cnt[Len(<<>>)] = 0
  BY <1>1 DEF Counts
<1> QED BY <1>2 DEF HasCount

LEMMA CountBound ==
    ASSUME NEW S, NEW s \in Seq(S), NEW n, HasCount(s, n)
    PROVE  n \in Nat /\ n <= Len(s)
<1>1. PICK cnt : Counts(cnt, s) /\ cnt[Len(s)] = n
  BY DEF HasCount
<1>2. Len(s) = 0 \/ Len(s) \in 1 .. Len(s)
  OBVIOUS
<1> QED BY <1>1, <1>2 DEF Counts

LEMMA CountAppend ==
    ASSUME NEW S, NEW s \in Seq(S), NEW ch \in S, NEW n, HasCount(s, n)
    PROVE  HasCount(Append(s, ch), IF ch = NUL THEN n ELSE n + 1)
<1>1. PICK cnt : Counts(cnt, s) /\ cnt[Len(s)] = n
  BY DEF HasCount
<1>2. PICK l \in Nat : l = Len(s)
  OBVIOUS
<1>3. PICK m : m = IF ch = NUL THEN n ELSE n + 1
  OBVIOUS
<1>4. n \in Nat /\ n <= l /\ m \in Nat /\ m <= l + 1
  BY <1>2, <1>3, CountBound
<1>5. PICK r : r = Append(s, ch)
  OBVIOUS
<1>6. Len(r) = l + 1 /\ r[l + 1] = ch /\ \A i \in 1 .. l : r[i] = s[i]
  BY <1>2, <1>5, AppendProperties
<1>7. PICK new : new = [i \in 0 .. (l + 1) |-> IF i = l + 1 THEN m ELSE cnt[i]]
  OBVIOUS
<1>8. /\ cnt \in [0 .. l -> Nat] /\ cnt[0] = 0 /\ cnt[l] = n
      /\ \A i \in 1 .. l : cnt[i] <= i /\ cnt[i] = IF s[i] = NUL THEN cnt[i - 1] ELSE cnt[i - 1] + 1
  BY <1>1, <1>2 DEF Counts
<1>9. new \in [0 .. (l + 1) -> Nat] /\ new[0] = 0 /\ new[l + 1] = m /\ new[l] = n
  BY <1>4, <1>7, <1>8
<1>10. \A i \in 1 .. l : new[i] = cnt[i] /\ new[i - 1] = cnt[i - 1]
  BY <1>7
<1>11. \A i \in 1 .. (l + 1) :
          new[i] <= i /\ new[i] = IF r[i] = NUL THEN new[i - 1] ELSE new[i - 1] + 1
  <2> SUFFICES ASSUME NEW i \in 1 .. (l + 1)
               PROVE  new[i] <= i /\ new[i] = IF r[i] = NUL THEN new[i - 1] ELSE new[i - 1] + 1
    OBVIOUS
  <2>1. CASE i = l + 1
    BY <1>3, <1>4, <1>6, <1>9, <2>1
  <2>2. CASE i \in 1 .. l
    <3>1. /\ new[i] = cnt[i] /\ new[i - 1] = cnt[i - 1] /\ r[i] = s[i] /\ cnt[i] <= i
          /\ cnt[i] = IF s[i] = NUL THEN cnt[i - 1] ELSE cnt[i - 1] + 1
      BY <1>6, <1>8, <1>10, <2>2
    <3> QED BY <3>1
  <2>3. i = l + 1 \/ i \in 1 .. l
    OBVIOUS
  <2> QED BY <2>1, <2>2, <2>3
<1>12. Counts(new, r)
  BY <1>6, <1>9, <1>11 DEF Counts
<1>13. HasCount(r, m)
  BY <1>6, <1>9, <1>12 DEF HasCount
<1> QED BY <1>3, <1>5, <1>13

LEMMA CountErase ==
    ASSUME NEW S, NEW s \in Seq(S), NEW n, HasCount(s, n), NEW r, NEW k \in Nat,
           Len(s) = k + 1, Len(r) = k, \A i \in 1 .. k : r[i] = s[i]
    PROVE  /\ HasCount(r, IF s[k + 1] = NUL THEN n ELSE n - 1)
           /\ s[k + 1] # NUL => n > 0
<1>1. PICK cnt : Counts(cnt, s) /\ cnt[k + 1] = n
  BY DEF HasCount
<1>2. /\ cnt \in [0 .. (k + 1) -> Nat] /\ cnt[0] = 0
      /\ \A i \in 1 .. (k + 1) :
            cnt[i] <= i /\ cnt[i] = IF s[i] = NUL THEN cnt[i - 1] ELSE cnt[i - 1] + 1
  BY <1>1 DEF Counts
<1>3. PICK new : new = [i \in 0 .. k |-> cnt[i]]
  OBVIOUS
<1>4. k + 1 \in 1 .. (k + 1) /\ (k + 1) - 1 = k /\ k \in 0 .. (k + 1) /\ cnt[k] \in Nat
  BY <1>2
<1>5. n = (IF s[k + 1] = NUL THEN cnt[k] ELSE cnt[k] + 1)
  BY <1>1, <1>2, <1>4
<1>6. new \in [0 .. k -> Nat] /\ new[0] = 0 /\ new[k] = cnt[k]
  BY <1>2, <1>3
<1>7. \A i \in 1 .. k :
         new[i] <= i /\ new[i] = IF r[i] = NUL THEN new[i - 1] ELSE new[i - 1] + 1
  <2> SUFFICES ASSUME NEW i \in 1 .. k
               PROVE  new[i] <= i /\ new[i] = IF r[i] = NUL THEN new[i - 1] ELSE new[i - 1] + 1
    OBVIOUS
  <2>1. i \in 1 .. (k + 1) /\ i \in 0 .. k /\ i - 1 \in 0 .. k
    OBVIOUS
  <2>2. new[i] = cnt[i] /\ new[i - 1] = cnt[i - 1] /\ r[i] = s[i]
    BY <1>3, <2>1
  <2>3. cnt[i] <= i /\ cnt[i] = IF s[i] = NUL THEN cnt[i - 1] ELSE cnt[i - 1] + 1
    BY <1>2, <2>1
  <2> QED BY <2>2, <2>3
<1>8. HasCount(r, cnt[k])
  BY <1>6, <1>7 DEF HasCount, Counts
<1>9. CASE s[k + 1] = NUL
  BY <1>5, <1>8, <1>9
<1>10. CASE s[k + 1] # NUL
  <2>1. n = cnt[k] + 1 /\ n - 1 = cnt[k] /\ n > 0
    BY <1>4, <1>5, <1>10
  <2> QED BY <1>8, <1>10, <2>1
<1> QED BY <1>9, <1>10

\* A line without its last key.
LEMMA AllButLast ==
    ASSUME NEW S, NEW s \in Seq(S), NEW k \in Nat, Len(s) = k + 1
    PROVE  LET r == SubSeq(s, 1, Len(s) - 1)
           IN  r \in Seq(S) /\ Len(r) = k /\ \A i \in 1 .. k : r[i] = s[i]
<1>1. \A i \in 1 .. k : s[i] \in S
  OBVIOUS
<1>2. PICK r : r = SubSeq(s, 1, k)
  OBVIOUS
<1>3. /\ r \in Seq(S) /\ Len(r) = (IF 1 <= k THEN k - 1 + 1 ELSE 0)
      /\ \A i \in 1 .. k - 1 + 1 : r[i] = s[1 + i - 1]
  BY <1>1, <1>2, SubSeqProperties
<1>4. k - 1 + 1 = k /\ (~(1 <= k) => k = 0) /\ \A i \in 1 .. k : 1 + i - 1 = i
  OBVIOUS
<1>5. r \in Seq(S) /\ Len(r) = k /\ \A i \in 1 .. k : r[i] = s[i]
  BY <1>3, <1>4
<1>6. (k + 1) - 1 = k
  OBVIOUS
<1> QED BY <1>2, <1>5, <1>6

\* What is true of the buffer at every step: it has its terminator, and it
\* holds the keys typed.
Buffer ==
    /\ pc \in {"prompt", "input", "process"}
    /\ buf_location \in Indices
    /\ DOMAIN command_buf = Indices
    /\ command_buf = [i \in Indices |-> command_buf[i]]
    /\ command_buf[CMD_BUF_SIZE - 1] = NUL

Record ==
    /\ typed \in Seq(Keys) /\ visible \in Seq(Keys) /\ slips \in Nat
    /\ Len(typed) <= CMD_BUF_SIZE - 1
    /\ HasCount(typed, Len(visible))
    /\ pc = "input" => buf_location = Len(typed)
    /\ pc # "prompt" => \A i \in 1 .. Len(typed) : command_buf[i - 1] = typed[i]
    /\ pc = "process" => command_buf[Len(typed)] = NUL

LineBuffer == Buffer /\ Record

LEMMA BufferInit == Init => LineBuffer
<1> SUFFICES ASSUME Init PROVE LineBuffer
  OBVIOUS
<1>1. CMD_BUF_SIZE \in Nat \ {0} /\ CMD_BUF_SIZE - 1 \in Indices /\ 0 \in Indices
  BY ShellConstants DEF Indices
<1>2. Buffer
  BY <1>1 DEF Init, Buffer, EmptyBuf, Indices
<1>3. typed = <<>> /\ visible = <<>> /\ Len(<<>>) = 0 /\ slips = 0 /\ pc = "prompt"
  BY DEF Init
<1>4. <<>> \in Seq(Keys) /\ 0 <= CMD_BUF_SIZE - 1
  BY <1>1
<1> QED BY <1>2, <1>3, <1>4, CountEmpty DEF LineBuffer, Record

\* What the keys do to the line.
LEMMA KeysRecorded ==
    ASSUME LineBuffer, NEW ch \in Keys, wait_for_command(ch)
    PROVE  /\ ch = NEWLINE => enter /\ UNCHANGED <<typed, visible, slips>>
           /\ ch = BACKSPACE /\ buf_location > 0 => backspace /\ EraseKey
           /\ ch = BACKSPACE /\ ~(buf_location > 0) =>
                 backspace /\ UNCHANGED <<typed, visible, slips>>
           /\ ch \notin {NEWLINE, BACKSPACE} /\ buf_location < CMD_BUF_SIZE - 1 =>
                 character(ch) /\ TypeKey(ch)
           /\ ch \notin {NEWLINE, BACKSPACE} /\ ~(buf_location < CMD_BUF_SIZE - 1) =>
                 character(ch) /\ UNCHANGED <<typed, visible, slips>>
           /\ overrun' = (overrun \/ slips' > MARGIN) /\ pc = "input"
<1>1. /\ pc = "input" /\ BACKSPACE # NEWLINE /\ RecordKey(ch)
      /\ CASE ch = NEWLINE   -> enter
           [] ch = BACKSPACE -> backspace
           [] OTHER          -> character(ch)
  BY ShellConstants DEF wait_for_command
<1>2. /\ ch = NEWLINE => enter
      /\ ch = BACKSPACE => backspace
      /\ ch \notin {NEWLINE, BACKSPACE} => character(ch)
  BY <1>1
<1>3. buf_location = Len(typed) /\ typed \in Seq(Keys)
  BY <1>1 DEF LineBuffer, Record
<1>4. buf_location > 0 <=> typed # <<>>
  BY <1>3
<1> QED BY <1>1, <1>2, <1>3, <1>4 DEF RecordKey

LEMMA BufferNext == LineBuffer /\ [Next]_vars => LineBuffer'
<1> SUFFICES ASSUME LineBuffer, [Next]_vars PROVE LineBuffer'
  OBVIOUS
<1>0. /\ CMD_BUF_SIZE \in Nat \ {0} /\ CMD_BUF_SIZE - 1 \in Indices /\ 0 \in Indices
      /\ buf_location \in Nat /\ buf_location < CMD_BUF_SIZE /\ Buffer /\ Record
  BY ShellConstants DEF Indices, Buffer, LineBuffer
<1>1. CASE output_prompt
  <2>1. Buffer'
    BY <1>0, <1>1 DEF output_prompt, Buffer, EmptyBuf, Indices
  <2>2. /\ typed' = <<>> /\ visible' = <<>> /\ slips' = 0 /\ buf_location' = 0 /\ pc' = "input"
        /\ Len(<<>>) = 0 /\ <<>> \in Seq(Keys) /\ 0 <= CMD_BUF_SIZE - 1
    BY <1>0, <1>1 DEF output_prompt
  <2>3. Record'
    BY <2>2, CountEmpty DEF Record
  <2> QED BY <2>1, <2>3 DEF LineBuffer
<1>2. ASSUME NEW ch \in Keys, wait_for_command(ch) PROVE LineBuffer'
  <2>0. PICK l \in Nat : /\ l = buf_location /\ l = Len(typed) /\ pc = "input"
                         /\ \A i \in 1 .. l : command_buf[i - 1] = typed[i]
    BY <1>0, <1>2, KeysRecorded DEF Record
  <2>1. CASE ch = NEWLINE
    <3>1. enter /\ UNCHANGED <<typed, visible, slips>>
      BY <1>2, <2>1, KeysRecorded
    <3>2. Buffer'
      BY <1>0, <3>1 DEF enter, Buffer
    <3>3. /\ command_buf' = [command_buf EXCEPT ![l] = NUL] /\ pc' = "process"
          /\ typed' = typed /\ visible' = visible /\ slips' = slips
      BY <2>0, <3>1 DEF enter
    <3>4. l \in Indices /\ \A i \in 1 .. l : i - 1 \in Indices /\ i - 1 # l
      BY <1>0, <2>0 DEF Indices
    <3>5. command_buf'[l] = NUL /\ \A i \in 1 .. l : command_buf'[i - 1] = typed[i]
      BY <1>0, <2>0, <3>3, <3>4 DEF Buffer
    <3>6. Record'
      BY <1>0, <2>0, <3>3, <3>5 DEF Record
    <3> QED BY <3>2, <3>6 DEF LineBuffer
  <2>2. CASE ch = BACKSPACE /\ buf_location > 0
    <3>1. backspace /\ EraseKey
      BY <1>2, <2>2, KeysRecorded
    <3>2. PICK k \in Nat : l = k + 1
      <4>1. l - 1 \in Nat /\ l = (l - 1) + 1
        BY <2>0, <2>2
      <4> QED BY <4>1
    <3>3. buf_location' = k /\ command_buf' = command_buf /\ pc' = pc
      BY <2>0, <2>2, <3>1, <3>2 DEF backspace
    <3>4. Buffer'
      BY <1>0, <2>0, <3>2, <3>3 DEF Buffer, Indices
    <3>5. /\ typed' \in Seq(Keys) /\ Len(typed') = k
          /\ \A i \in 1 .. k : typed'[i] = typed[i]
      <4>1. PICK s \in Seq(Keys) : s = typed
        BY <1>0 DEF Record
      <4>2. Len(s) = k + 1 /\ typed' = SubSeq(s, 1, Len(s) - 1)
        BY <2>0, <3>1, <3>2, <4>1 DEF EraseKey
      <4>3. /\ SubSeq(s, 1, Len(s) - 1) \in Seq(Keys) /\ Len(SubSeq(s, 1, Len(s) - 1)) = k
            /\ \A i \in 1 .. k : SubSeq(s, 1, Len(s) - 1)[i] = s[i]
        BY <4>2, AllButLast
      <4> QED BY <4>1, <4>2, <4>3
    <3>6. PICK n \in Nat : n = Len(visible)
      BY <1>0 DEF Record
    <3>7. /\ HasCount(typed', IF typed[k + 1] = NUL THEN n ELSE n - 1)
          /\ typed[k + 1] # NUL => n > 0
      BY <1>0, <2>0, <3>2, <3>5, <3>6, CountErase DEF Record
    <3>8. visible' \in Seq(Keys) /\ slips' \in Nat /\ HasCount(typed', Len(visible'))
      <4>1. CASE typed[k + 1] = NUL
        <5>1. visible' = visible /\ slips' = slips + 1
          BY <2>0, <3>1, <3>2, <4>1 DEF EraseKey
        <5> QED BY <1>0, <3>6, <3>7, <4>1, <5>1 DEF Record
      <4>2. CASE typed[k + 1] # NUL
        <5>1. visible' = SubSeq(visible, 1, Len(visible) - 1) /\ slips' = slips
          BY <2>0, <3>1, <3>2, <4>2 DEF EraseKey
        <5>2. n - 1 \in Nat /\ n = (n - 1) + 1
          BY <3>7, <4>2
        <5>3. visible' \in Seq(Keys) /\ Len(visible') = n - 1
          BY <1>0, <3>6, <5>1, <5>2, AllButLast DEF Record
        <5> QED BY <1>0, <3>7, <4>2, <5>1, <5>3 DEF Record
      <4> QED BY <4>1, <4>2
    <3>9. k <= CMD_BUF_SIZE - 1 /\ \A i \in 1 .. k : command_buf[i - 1] = typed'[i]
      BY <1>0, <2>0, <3>2, <3>5
    <3>10. Record'
      BY <2>0, <3>3, <3>5, <3>8, <3>9 DEF Record
    <3> QED BY <3>4, <3>10 DEF LineBuffer
  <2>3. CASE ch \notin {NEWLINE, BACKSPACE} /\ buf_location < CMD_BUF_SIZE - 1
    <3>1. character(ch) /\ TypeKey(ch)
      BY <1>2, <2>3, KeysRecorded
    <3>2. buf_location' = l + 1 /\ command_buf' = [command_buf EXCEPT ![l] = ch] /\ pc' = pc
      BY <2>0, <2>3, <3>1 DEF character
    <3>3. Buffer'
      <4>1. l # CMD_BUF_SIZE - 1 /\ l + 1 \in Indices
        BY <1>0, <2>0, <2>3 DEF Indices
      <4>2. command_buf'[CMD_BUF_SIZE - 1] = NUL
        BY <1>0, <3>2, <4>1 DEF Buffer
      <4>3. DOMAIN command_buf' = Indices /\ command_buf' = [i \in Indices |-> command_buf'[i]]
        BY <1>0, <3>2 DEF Buffer
      <4> QED BY <1>0, <3>2, <4>1, <4>2, <4>3 DEF Buffer
    <3>4. /\ typed' = Append(typed, ch) /\ slips' = slips
          /\ visible' = IF ch = NUL THEN visible ELSE Append(visible, ch)
      BY <3>1 DEF TypeKey
    <3>5. /\ typed' \in Seq(Keys) /\ Len(typed') = l + 1 /\ typed'[l + 1] = ch
          /\ \A i \in 1 .. l : typed'[i] = typed[i]
      BY <1>0, <2>0, <3>4, AppendProperties DEF Record
    <3>6. PICK n \in Nat : n = Len(visible)
      BY <1>0 DEF Record
    <3>7. HasCount(typed', IF ch = NUL THEN n ELSE n + 1)
      BY <1>0, <3>4, <3>6, CountAppend DEF Record
    <3>8. visible' \in Seq(Keys) /\ HasCount(typed', Len(visible'))
      <4>1. CASE ch = NUL
        BY <1>0, <3>4, <3>6, <3>7, <4>1 DEF Record
      <4>2. CASE ch # NUL
        <5>1. visible' \in Seq(Keys) /\ Len(visible') = n + 1
          BY <1>0, <3>4, <3>6, <4>2, AppendProperties DEF Record
        <5> QED BY <3>7, <4>2, <5>1
      <4> QED BY <4>1, <4>2
    <3>9. l + 1 <= CMD_BUF_SIZE - 1 /\ \A i \in 1 .. (l + 1) : command_buf'[i - 1] = typed'[i]
      <4>1. l \in Indices /\ l + 1 <= CMD_BUF_SIZE - 1
        BY <1>0, <2>0, <2>3 DEF Indices
      <4>2. command_buf'[l] = ch /\ \A j \in Indices : j # l => command_buf'[j] = command_buf[j]
        BY <1>0, <3>2, <4>1 DEF Buffer
      <4>3. \A i \in 1 .. (l + 1) : \/ i = l + 1 /\ i - 1 = l
                                    \/ i \in 1 .. l /\ i - 1 \in Indices /\ i - 1 # l
        BY <1>0, <4>1 DEF Indices
      <4> QED BY <2>0, <3>5, <4>1, <4>2, <4>3
    <3>10. Record'
      BY <1>0, <2>0, <3>2, <3>4, <3>5, <3>8, <3>9 DEF Record
    <3> QED BY <3>3, <3>10 DEF LineBuffer
  <2>4. CASE \/ ch = BACKSPACE /\ ~(buf_location > 0)
             \/ ch \notin {NEWLINE, BACKSPACE} /\ ~(buf_location < CMD_BUF_SIZE - 1)
    <3>1. UNCHANGED <<typed, visible, slips, command_buf, buf_location, pc>>
      BY <1>2, <2>4, KeysRecorded DEF backspace, character
    <3> QED BY <1>0, <3>1 DEF LineBuffer, Buffer, Record
  <2> QED BY <2>1, <2>2, <2>3, <2>4
<1>3. CASE process_command
  BY <1>0, <1>3 DEF process_command, Buffer, Record, LineBuffer, ghosts
<1>4. CASE UNCHANGED vars
  BY <1>0, <1>4 DEF vars, ghosts, Buffer, Record, LineBuffer
<1> QED BY <1>1, <1>2, <1>3, <1>4 DEF Next

\* process_command runs the line that was typed, up to the first key without a
\* character, whatever was erased and however long the line.
THEOREM LineTypedIsRun == Spec => []RunsLineTyped
<1>1. LineBuffer => RunsLineTyped
  <2> SUFFICES ASSUME LineBuffer, pc = "process" PROVE RunsLineTyped
    BY DEF RunsLineTyped
  <2>1. PICK l \in Nat : l = Len(typed)
    BY DEF LineBuffer, Record
  <2>2. /\ l \in Indices /\ command_buf[l] = NUL /\ CMD_BUF_SIZE \in Nat
        /\ \A i \in 1 .. l : command_buf[i - 1] = typed[i] /\ typed[i] \in Keys
    BY <2>1, ShellConstants DEF LineBuffer, Record, Indices
  <2>3. PICK n \in 0 .. l : EndsAt(command_buf, n)
    BY <2>2, StringEnds
  <2>4. n \in Nat /\ \A i \in 1 .. n : i \in 1 .. l /\ i - 1 \in 0 .. (n - 1)
    OBVIOUS
  <2>5. \A i \in 1 .. n : typed[i] # NUL /\ command_buf[i - 1] = typed[i]
    BY <2>2, <2>3, <2>4 DEF EndsAt
  <2>6. n = l \/ typed[n + 1] = NUL
    <3>1. SUFFICES ASSUME n # l PROVE typed[n + 1] = NUL
      OBVIOUS
    <3>2. n + 1 \in 1 .. l /\ (n + 1) - 1 = n
      BY <3>1
    <3> QED BY <2>2, <2>3, <3>2 DEF EndsAt
  <2>7. PICK s, t : s = Line(command_buf, n) /\ t = SubSeq(typed, 1, n)
    OBVIOUS
  <2>8. /\ t \in Seq(Keys) /\ Len(t) = n
        /\ \A i \in 1 .. n : t[i] = typed[i]
    <3>1. \A i \in 1 .. n : typed[i] \in Keys
      BY <2>2, <2>4
    <3>2. /\ t \in Seq(Keys) /\ Len(t) = (IF 1 <= n THEN n - 1 + 1 ELSE 0)
          /\ \A i \in 1 .. n - 1 + 1 : t[i] = typed[1 + i - 1]
      BY <2>7, <3>1, SubSeqProperties
    <3>3. n - 1 + 1 = n /\ (~(1 <= n) => n = 0) /\ \A i \in 1 .. n : 1 + i - 1 = i
      OBVIOUS
    <3> QED BY <3>2, <3>3
  <2>9. s \in Seq(Keys) /\ Len(s) = n /\ \A i \in 1 .. n : s[i] = typed[i]
    <3>1. s = [i \in 1 .. n |-> command_buf[i - 1]]
      BY <2>7 DEF Line
    <3>2. \A i \in 1 .. n : command_buf[i - 1] \in Keys
      BY <2>2, <2>4
    <3> QED BY <2>5, <3>1, <3>2
  <2>10. s = t
    BY <2>8, <2>9, SeqEqual
  <2>11. CString(command_buf) = SubSeq(typed, 1, n)
    BY <2>3, <2>7, <2>10, CStringIs
  <2> QED BY <2>1, <2>5, <2>6, <2>11 DEF RunsLineTyped
<1> QED BY <1>1, BufferInit, BufferNext, PTL DEF Spec

(***************************************************************************)
(* The terminal, character by character.                                   *)
(***************************************************************************)
LEMMA ScreenSize ==
    /\ VGA_WIDTH \in Nat \ {0} /\ VGA_HEIGHT \in Nat \ {0} /\ WORD \in Nat
    /\ VGA_WIDTH * VGA_HEIGHT \in Nat /\ VGA_WIDTH * VGA_HEIGHT < WORD
    /\ VGA_HEIGHT < WORD /\ VGA_WIDTH < WORD
    /\ BLANK # NEWLINE /\ BLANK # NUL /\ NEWLINE # NUL
<1>1. /\ VGA_WIDTH \in Nat \ {0} /\ VGA_HEIGHT \in Nat \ {0} /\ WORD \in Nat
      /\ WORD > VGA_WIDTH * VGA_HEIGHT
  BY TerminalConstants
<1>2. ASSUME NEW w \in Nat \ {0}, NEW h \in Nat \ {0} PROVE w * h >= h /\ w * h >= w
  <2>1. w * h = h + (w - 1) * h /\ (w - 1) * h \in Nat
    BY <1>2
  <2>2. w * h = w + w * (h - 1) /\ w * (h - 1) \in Nat
    BY <1>2
  <2> QED BY <2>1, <2>2
<1>3. VGA_WIDTH * VGA_HEIGHT >= VGA_HEIGHT /\ VGA_WIDTH * VGA_HEIGHT >= VGA_WIDTH
      /\ VGA_WIDTH * VGA_HEIGHT \in Nat
  BY <1>1, <1>2
<1> QED BY <1>1, <1>3, TerminalConstants

Columns == 0 .. (VGA_WIDTH - 1)
Rows == 0 .. (VGA_HEIGHT - 1)

\* The cursor at a row and column is at one cell, and rows follow each other.
LEMMA CellAt ==
    ASSUME NEW x \in Columns, NEW y \in Rows
    PROVE  /\ y * VGA_WIDTH + x \in Cells
           /\ (y * VGA_WIDTH + x) % WORD = y * VGA_WIDTH + x
           /\ y * VGA_WIDTH \in Nat
           /\ (y + 1) * VGA_WIDTH = y * VGA_WIDTH + VGA_WIDTH
           /\ (y - 1) * VGA_WIDTH = y * VGA_WIDTH - VGA_WIDTH
           /\ (VGA_HEIGHT - 1) * VGA_WIDTH = VGA_WIDTH * VGA_HEIGHT - VGA_WIDTH
<1>1. ASSUME NEW w \in Nat \ {0}, NEW h \in Nat \ {0}, NEW r \in 0 .. (h - 1)
      PROVE  /\ r * w \in Nat /\ r * w + w <= w * h
             /\ (r + 1) * w = r * w + w /\ (r - 1) * w = r * w - w
             /\ (h - 1) * w = w * h - w
  <2> DEFINE d == h - 1 - r
  <2>1. d \in Nat /\ r \in Nat
    BY <1>1
  <2>2. d * w \in Nat /\ r * w \in Nat
    BY <1>1, <2>1
  <2>3. w * h = r * w + w + d * w
    BY <1>1, <2>1
  <2>4. (r + 1) * w = r * w + w /\ (r - 1) * w = r * w - w /\ (h - 1) * w = w * h - w
    BY <1>1, <2>1
  <2> HIDE DEF d
  <2> QED BY <1>1, <2>2, <2>3, <2>4
<1> DEFINE m == y * VGA_WIDTH
           n == VGA_WIDTH * VGA_HEIGHT
<1>2. /\ m \in Nat /\ m + VGA_WIDTH <= n
      /\ (y + 1) * VGA_WIDTH = m + VGA_WIDTH /\ (y - 1) * VGA_WIDTH = m - VGA_WIDTH
      /\ (VGA_HEIGHT - 1) * VGA_WIDTH = n - VGA_WIDTH
  BY <1>1, ScreenSize DEF Rows
<1>3. n \in Nat /\ n < WORD /\ WORD \in Nat /\ VGA_WIDTH \in Nat \ {0}
  BY ScreenSize
<1>4. Cells = 0 .. (n - 1)
  BY DEF Cells
<1> HIDE DEF m, n
<1>5. m + x \in 0 .. (n - 1) /\ (m + x) % WORD = m + x
  BY <1>2, <1>3 DEF Columns
<1> QED BY <1>2, <1>4, <1>5 DEF m, n

\* A terminal; one whose writes have all hit the text memory.
Screen(x, y, b, s) == [x |-> x, y |-> y, buffer |-> b, stray |-> s]
IsBuffer(b) == b = [c \in Cells |-> b[c]]
OnScreen(t) ==
    /\ t.x \in Columns /\ t.y \in Rows /\ IsBuffer(t.buffer)
    /\ t = Screen(t.x, t.y, t.buffer, t.stray) /\ ~t.stray

\* The buffer one line further up.
Shift(b) == [i \in Cells |-> IF i + VGA_WIDTH \in Cells THEN b[i + VGA_WIDTH] ELSE BLANK]

\* Fields of a terminal: each is changed on its own.
LEMMA Fields ==
    ASSUME NEW x, NEW y, NEW b, NEW s
    PROVE  /\ Screen(x, y, b, s).x = x /\ Screen(x, y, b, s).y = y
           /\ Screen(x, y, b, s).buffer = b /\ Screen(x, y, b, s).stray = s
  BY DEF Screen

LEMMA SetX ==
    ASSUME NEW t, NEW x, NEW y, NEW b, NEW s, NEW x1, t = Screen(x, y, b, s)
    PROVE  [t EXCEPT !.x = x1] = Screen(x1, y, b, s)
  BY SMT DEF Screen

LEMMA SetY ==
    ASSUME NEW t, NEW x, NEW y, NEW b, NEW s, NEW y1, t = Screen(x, y, b, s)
    PROVE  [t EXCEPT !.y = y1] = Screen(x, y1, b, s)
  BY SMT DEF Screen

LEMMA ScreenIsOn ==
    ASSUME NEW x \in Columns, NEW y \in Rows, NEW b, IsBuffer(b), NEW s, ~s
    PROVE  OnScreen(Screen(x, y, b, s))
<1>1. PICK t : t = Screen(x, y, b, s)
  OBVIOUS
<1>2. t.x = x /\ t.y = y /\ t.buffer = b /\ t.stray = s
  BY <1>1, Fields
<1> QED BY <1>1, <1>2 DEF OnScreen

LEMMA Positions ==
    ASSUME NEW x \in Columns, NEW y \in Rows, NEW b, NEW s
    PROVE  Position(Screen(x, y, b, s)) = y * VGA_WIDTH + x
<1>1. Position(Screen(x, y, b, s)) = (y * VGA_WIDTH + x) % WORD
  BY DEF Position, Screen
<1> QED BY <1>1, CellAt

\* The end of a line and the end of the screen.
LEMMA WrapAndScroll ==
    ASSUME NEW b, NEW s, IsBuffer(b)
    PROVE  /\ \A x \in Columns, y \in Rows :
                 putchar_scroll(putchar_wrap(Screen(x, y, b, s))) = Screen(x, y, b, s)
           /\ \A y \in Rows : putchar_wrap(Screen(VGA_WIDTH, y, b, s)) = Screen(0, y + 1, b, s)
           /\ \A y \in 0 .. VGA_HEIGHT : putchar_wrap(Screen(0, y, b, s)) = Screen(0, y, b, s)
           /\ putchar_scroll(Screen(0, VGA_HEIGHT, b, s)) = Screen(0, VGA_HEIGHT - 1, Shift(b), s)
           /\ \A x, y : y \in Rows => NextLine(Screen(x, y, b, s)) = Screen(0, y + 1, b, s)
<1>1. ASSUME NEW x, NEW y \in Rows PROVE NextLine(Screen(x, y, b, s)) = Screen(0, y + 1, b, s)
  <2>1. (y + 1) % WORD = y + 1
    BY ScreenSize DEF Rows
  <2>2. PICK t : t = Screen(x, y, b, s)
    OBVIOUS
  <2>3. t.y = y
    BY <2>2, Fields
  <2>4. PICK o, z : o = 0 /\ z = (t.y + 1) % WORD
    OBVIOUS
  <2>5. PICK u : u = [t EXCEPT !.x = o]
    OBVIOUS
  <2>6. u = Screen(o, y, b, s)
    BY <2>2, <2>5, SetX
  <2>7. [u EXCEPT !.y = z] = Screen(o, z, b, s)
    BY <2>6, SetY
  <2>8. NextLine(t) = [u EXCEPT !.y = z]
    BY <2>4, <2>5, Zenon DEF NextLine
  <2> QED BY <2>1, <2>2, <2>3, <2>4, <2>7, <2>8
<1>2. ASSUME NEW x \in Columns, NEW y \in Rows
      PROVE  putchar_scroll(putchar_wrap(Screen(x, y, b, s))) = Screen(x, y, b, s)
  <2>1. x # VGA_WIDTH /\ y # VGA_HEIGHT
    BY ScreenSize DEF Columns, Rows
  <2> QED BY <2>1 DEF putchar_scroll, putchar_wrap, Screen
<1>3. ASSUME NEW y \in Rows PROVE putchar_wrap(Screen(VGA_WIDTH, y, b, s)) = Screen(0, y + 1, b, s)
  <2>1. putchar_wrap(Screen(VGA_WIDTH, y, b, s)) = NextLine(Screen(VGA_WIDTH, y, b, s))
    BY DEF putchar_wrap, Screen
  <2> QED BY <1>1, <2>1
<1>4. ASSUME NEW y PROVE putchar_wrap(Screen(0, y, b, s)) = Screen(0, y, b, s)
  BY ScreenSize DEF putchar_wrap, Screen
<1>5. putchar_scroll(Screen(0, VGA_HEIGHT, b, s)) = Screen(0, VGA_HEIGHT - 1, Shift(b), s)
  BY DEF putchar_scroll, Scrolled, Screen, Shift
<1> QED BY <1>1, <1>2, <1>3, <1>4, <1>5

\* A character that is shown.
LEMMA PutLetter ==
    ASSUME NEW x \in Columns, NEW y \in Rows, NEW b, NEW s, IsBuffer(b), NEW ch, ch \notin {NEWLINE, NUL}
    PROVE  LET c == [b EXCEPT ![y * VGA_WIDTH + x] = ch]
           IN  /\ terminal_putchar(Screen(x, y, b, s), ch) =
                     IF x + 1 # VGA_WIDTH THEN Screen(x + 1, y, c, s)
                     ELSE IF y + 1 # VGA_HEIGHT THEN Screen(0, y + 1, c, s)
                     ELSE Screen(0, VGA_HEIGHT - 1, Shift(c), s)
               /\ IsBuffer(c)
<1> DEFINE at == y * VGA_WIDTH + x
           c == [b EXCEPT ![at] = ch]
           t == Screen(x, y, b, s)
<1>1. Position(t) = at /\ at \in Cells
  BY Positions, CellAt
<1>2. terminal_putentryat(t, ch) = [t EXCEPT !.buffer[Position(t)] = ch]
  <2> HIDE DEF t, at
  <2> QED BY <1>1 DEF terminal_putentryat
<1>3. terminal_putentryat(t, ch) = Screen(x, y, c, s)
  <2> HIDE DEF at
  <2> QED BY <1>1, <1>2 DEF Screen
<1>4. IsBuffer(c)
  <2> HIDE DEF at
  <2> QED BY <1>1 DEF IsBuffer
<1>5. putchar_show(t, ch) = Screen(x + 1, y, c, s)
  <2>1. (x + 1) % WORD = x + 1
    BY ScreenSize DEF Columns
  <2>2. putchar_show(t, ch) =
          [terminal_putentryat(t, ch) EXCEPT !.x = (terminal_putentryat(t, ch).x + 1) % WORD]
    BY DEF putchar_show
  <2> HIDE DEF c, t
  <2>3. Screen(x, y, c, s).x = x
    BY Fields
  <2>4. putchar_show(t, ch) = [Screen(x, y, c, s) EXCEPT !.x = x + 1]
    BY <1>3, <2>1, <2>2, <2>3
  <2>5. ASSUME NEW z PROVE [Screen(x, y, c, s) EXCEPT !.x = z] = Screen(z, y, c, s)
    BY SetX
  <2> QED BY <2>4, <2>5
<1> DEFINE u == terminal_putchar(t, ch)
<1>6. u = putchar_scroll(putchar_wrap(Screen(x + 1, y, c, s)))
  BY <1>5 DEF terminal_putchar
<1> HIDE DEF c, t, u
<1>7. CASE x + 1 # VGA_WIDTH
  <2>1. x + 1 \in Columns
    BY <1>7, ScreenSize DEF Columns
  <2>2. u = Screen(x + 1, y, c, s)
    BY <1>4, <1>6, <2>1, WrapAndScroll
  <2> QED BY <1>4, <1>7, <2>2 DEF c, t, u
<1>8. CASE x + 1 = VGA_WIDTH
  <2>1. u = putchar_scroll(Screen(0, y + 1, c, s))
    BY <1>4, <1>6, <1>8, WrapAndScroll
  <2>2. CASE y + 1 # VGA_HEIGHT
    <3>1. y + 1 \in Rows /\ 0 \in Columns /\ y + 1 \in 0 .. VGA_HEIGHT
      BY <2>2, ScreenSize DEF Columns, Rows
    <3>2. putchar_wrap(Screen(0, y + 1, c, s)) = Screen(0, y + 1, c, s)
      BY <1>4, <3>1, WrapAndScroll
    <3>3. putchar_scroll(putchar_wrap(Screen(0, y + 1, c, s))) = Screen(0, y + 1, c, s)
      BY <1>4, <3>1, WrapAndScroll
    <3>4. u = Screen(0, y + 1, c, s)
      BY <2>1, <3>2, <3>3
    <3> QED BY <1>4, <1>8, <2>2, <3>4 DEF c, t, u
  <2>3. CASE y + 1 = VGA_HEIGHT
    <3>1. u = Screen(0, VGA_HEIGHT - 1, Shift(c), s)
      BY <1>4, <2>1, <2>3, WrapAndScroll
    <3> QED BY <1>4, <1>8, <2>3, <3>1 DEF c, t, u
  <2> QED BY <2>2, <2>3
<1> QED BY <1>7, <1>8

\* A newline, and the character that shows nothing.
LEMMA PutNewline ==
    ASSUME NEW x \in Columns, NEW y \in Rows, NEW b, NEW s, IsBuffer(b)
    PROVE  /\ terminal_putchar(Screen(x, y, b, s), NEWLINE) =
                 IF y + 1 # VGA_HEIGHT THEN Screen(0, y + 1, b, s)
                 ELSE Screen(0, VGA_HEIGHT - 1, Shift(b), s)
           /\ terminal_putchar(Screen(x, y, b, s), NUL) = Screen(x, y, b, s)
<1>1. putchar_show(Screen(x, y, b, s), NEWLINE) = Screen(0, y + 1, b, s)
      /\ putchar_show(Screen(x, y, b, s), NUL) = Screen(x, y, b, s)
  <2>1. NextLine(Screen(x, y, b, s)) = Screen(0, y + 1, b, s)
    BY WrapAndScroll
  <2> QED BY <2>1, ScreenSize DEF putchar_show
<1>2. terminal_putchar(Screen(x, y, b, s), NUL) = Screen(x, y, b, s)
  BY <1>1, WrapAndScroll DEF terminal_putchar
<1>3. y + 1 \in 0 .. VGA_HEIGHT /\ 0 \in Columns
  BY ScreenSize DEF Rows, Columns
<1>4. terminal_putchar(Screen(x, y, b, s), NEWLINE) = putchar_scroll(putchar_wrap(Screen(0, y + 1, b, s)))
  BY <1>1 DEF terminal_putchar
<1>5. CASE y + 1 # VGA_HEIGHT
  <2>1. y + 1 \in Rows
    BY <1>5, ScreenSize DEF Rows
  <2> QED BY <1>2, <1>3, <1>4, <1>5, <2>1, WrapAndScroll
<1>6. CASE y + 1 = VGA_HEIGHT
  <2>1. putchar_wrap(Screen(0, VGA_HEIGHT, b, s)) = Screen(0, VGA_HEIGHT, b, s)
    BY <1>3, <1>6, WrapAndScroll
  <2> QED BY <1>2, <1>4, <1>6, <2>1, WrapAndScroll
<1> QED BY <1>5, <1>6

LEMMA ShiftIsBuffer == \A b : IsBuffer(Shift(b))
  BY DEF IsBuffer, Shift

\* A character that is shown moves the cursor to the next cell; at the end of
\* the screen everything is shifted up.
LEMMA LetterAdvances ==
    ASSUME NEW t, OnScreen(t), NEW ch, ch \notin {NEWLINE, NUL}
    PROVE  LET u == terminal_putchar(t, ch)
           IN  /\ OnScreen(u)
               /\ \E n \in {0, VGA_WIDTH} :
                     /\ Position(u) = Position(t) + 1 - n
                     /\ n = VGA_WIDTH => Position(t) + 1 = VGA_WIDTH * VGA_HEIGHT
                     /\ \A c \in Cells : c + n \in Cells =>
                           u.buffer[c] = IF c + n = Position(t) THEN ch ELSE t.buffer[c + n]
<1> DEFINE x == t.x
           y == t.y
           b == t.buffer
           s == t.stray
           at == y * VGA_WIDTH + x
           c == [b EXCEPT ![at] = ch]
           u == terminal_putchar(t, ch)
           Moves(n) == /\ Position(u) = Position(t) + 1 - n
                       /\ n = VGA_WIDTH => Position(t) + 1 = VGA_WIDTH * VGA_HEIGHT
                       /\ \A i \in Cells : i + n \in Cells =>
                             u.buffer[i] = IF i + n = Position(t) THEN ch ELSE t.buffer[i + n]
<1>1. x \in Columns /\ y \in Rows /\ IsBuffer(b) /\ t = Screen(x, y, b, s) /\ ~s
  BY DEF OnScreen
<1>2. Position(t) = at /\ at \in Cells /\ y * VGA_WIDTH \in Nat
      /\ (y + 1) * VGA_WIDTH = y * VGA_WIDTH + VGA_WIDTH
      /\ (VGA_HEIGHT - 1) * VGA_WIDTH = VGA_WIDTH * VGA_HEIGHT - VGA_WIDTH
  <2> HIDE DEF x, y, b, s
  <2> QED BY <1>1, Positions, CellAt
<1>3. /\ u = IF x + 1 # VGA_WIDTH THEN Screen(x + 1, y, c, s)
             ELSE IF y + 1 # VGA_HEIGHT THEN Screen(0, y + 1, c, s)
             ELSE Screen(0, VGA_HEIGHT - 1, Shift(c), s)
      /\ IsBuffer(c)
  <2> HIDE DEF x, y, b, s
  <2> QED BY <1>1, PutLetter
<1>4. \A i \in Cells : c[i] = IF i = at THEN ch ELSE b[i]
  <2> HIDE DEF x, y, b, s, at
  <2> QED BY <1>1, <1>2 DEF IsBuffer
<1>5. VGA_WIDTH \in Nat \ {0} /\ VGA_HEIGHT \in Nat \ {0} /\ VGA_WIDTH * VGA_HEIGHT \in Nat
      /\ x \in Nat /\ y \in Nat /\ x < VGA_WIDTH /\ y < VGA_HEIGHT /\ Cells \subseteq Nat
  BY <1>1, ScreenSize DEF Columns, Rows, Cells
<1> SUFFICES OnScreen(u) /\ \E n \in {0, VGA_WIDTH} : Moves(n)
  OBVIOUS
<1> HIDE DEF x, y, b, s, c, u, Moves
<1>6. ASSUME NEW x1 \in Columns, NEW y1 \in Rows, NEW c1, IsBuffer(c1), u = Screen(x1, y1, c1, s)
      PROVE  OnScreen(u) /\ Position(u) = y1 * VGA_WIDTH + x1 /\ u.buffer = c1
  BY <1>1, <1>6, ScreenIsOn, Positions, Fields
<1>7. CASE x + 1 # VGA_WIDTH
  <2>1. x + 1 \in Columns
    BY <1>5, <1>7 DEF Columns
  <2>2. OnScreen(u) /\ Position(u) = y * VGA_WIDTH + (x + 1) /\ u.buffer = c
    BY <1>1, <1>3, <1>6, <1>7, <2>1
  <2>3. Position(u) = Position(t) + 1 - 0
    BY <1>2, <1>5, <2>2
  <2>4. \A i \in Cells : i + 0 = i
    BY <1>5
  <2>5. \A i \in Cells : i + 0 \in Cells =>
           u.buffer[i] = IF i + 0 = Position(t) THEN ch ELSE t.buffer[i + 0]
    BY <1>2, <1>4, <2>2, <2>4 DEF b
  <2>6. Moves(0)
    BY <1>5, <2>3, <2>5 DEF Moves
  <2> QED BY <2>2, <2>6
<1>8. CASE x + 1 = VGA_WIDTH /\ y + 1 # VGA_HEIGHT
  <2>1. y + 1 \in Rows /\ 0 \in Columns
    BY <1>5, <1>8 DEF Rows, Columns
  <2>2. OnScreen(u) /\ Position(u) = (y + 1) * VGA_WIDTH + 0 /\ u.buffer = c
    BY <1>1, <1>3, <1>6, <1>8, <2>1
  <2>3. Position(u) = Position(t) + 1 - 0
    BY <1>2, <1>5, <1>8, <2>2
  <2>4. \A i \in Cells : i + 0 = i
    BY <1>5
  <2>5. \A i \in Cells : i + 0 \in Cells =>
           u.buffer[i] = IF i + 0 = Position(t) THEN ch ELSE t.buffer[i + 0]
    BY <1>2, <1>4, <2>2, <2>4 DEF b
  <2>6. Moves(0)
    BY <1>5, <2>3, <2>5 DEF Moves
  <2> QED BY <2>2, <2>6
<1>9. CASE x + 1 = VGA_WIDTH /\ y + 1 = VGA_HEIGHT
  <2>1. VGA_HEIGHT - 1 \in Rows /\ 0 \in Columns /\ y = VGA_HEIGHT - 1
    BY <1>5, <1>9 DEF Rows, Columns
  <2>2. OnScreen(u) /\ Position(u) = (VGA_HEIGHT - 1) * VGA_WIDTH + 0 /\ u.buffer = Shift(c)
    BY <1>1, <1>3, <1>6, <1>9, <2>1, ShiftIsBuffer
  <2>3. Position(u) = Position(t) + 1 - VGA_WIDTH /\ Position(t) + 1 = VGA_WIDTH * VGA_HEIGHT
    BY <1>2, <1>5, <1>9, <2>1, <2>2
  <2>4. \A i \in Cells : i + VGA_WIDTH \in Cells => u.buffer[i] = c[i + VGA_WIDTH]
    BY <2>2 DEF Shift
  <2>5. \A i \in Cells : i + VGA_WIDTH \in Cells =>
           u.buffer[i] = IF i + VGA_WIDTH = Position(t) THEN ch ELSE t.buffer[i + VGA_WIDTH]
    BY <1>2, <1>4, <2>4 DEF b
  <2>6. Moves(VGA_WIDTH)
    BY <2>3, <2>5 DEF Moves
  <2> QED BY <2>2, <2>6
<1> QED BY <1>7, <1>8, <1>9

\* Every character leaves the cursor on the screen.
LEMMA PutStays ==
    ASSUME NEW t, OnScreen(t), NEW ch
    PROVE  OnScreen(terminal_putchar(t, ch))
<1>1. CASE ch \notin {NEWLINE, NUL}
  BY <1>1, LetterAdvances
<1>2. CASE ch \in {NEWLINE, NUL}
  <2> DEFINE x == t.x
             y == t.y
             b == t.buffer
             s == t.stray
  <2>1. x \in Columns /\ y \in Rows /\ IsBuffer(b) /\ t = Screen(x, y, b, s) /\ ~s
    BY DEF OnScreen
  <2>2. /\ 0 \in Columns /\ VGA_HEIGHT - 1 \in Rows
        /\ y + 1 # VGA_HEIGHT => y + 1 \in Rows
    BY <2>1, ScreenSize DEF Columns, Rows
  <2> HIDE DEF x, y, b, s
  <2>3. /\ terminal_putchar(t, NEWLINE) =
              IF y + 1 # VGA_HEIGHT THEN Screen(0, y + 1, b, s)
              ELSE Screen(0, VGA_HEIGHT - 1, Shift(b), s)
        /\ terminal_putchar(t, NUL) = t
    BY <2>1, PutNewline
  <2>4. OnScreen(terminal_putchar(t, NEWLINE))
    BY <2>1, <2>2, <2>3, ScreenIsOn, ShiftIsBuffer
  <2> QED BY <1>2, <2>3, <2>4
<1> QED BY <1>1, <1>2

\* A step to the left, over the end of a line too.
LEMMA BackOne ==
    ASSUME NEW x \in Columns, NEW y \in Rows, x > 0 \/ y > 0, NEW b, NEW s
    PROVE  terminal_back(Screen(x, y, b, s), 1) =
              IF x = 0 THEN Screen(VGA_WIDTH - 1, y - 1, b, s) ELSE Screen(x - 1, y, b, s)
<1>1. PICK t : t = Screen(x, y, b, s)
  OBVIOUS
<1>2. t.x = x /\ t.y = y
  BY <1>1, Fields
<1>3. x \in Nat /\ y \in Nat /\ x < VGA_WIDTH /\ y < WORD /\ VGA_WIDTH \in Nat /\ WORD \in Nat
  BY ScreenSize DEF Columns, Rows
<1>4. CASE x = 0
  <2>1. (y - 1) % WORD = y - 1
    BY <1>3, <1>4
  <2>2. PICK z, w : z = (t.y - 1) % WORD /\ w = VGA_WIDTH - (1 - t.x)
    OBVIOUS
  <2>3. PICK u : u = [t EXCEPT !.y = z]
    OBVIOUS
  <2>4. u = Screen(x, z, b, s)
    BY <1>1, <2>3, SetY
  <2>5. [u EXCEPT !.x = w] = Screen(w, z, b, s)
    BY <2>4, SetX
  <2>6. terminal_back(t, 1) = [t EXCEPT !.y = (t.y - 1) % WORD, !.x = VGA_WIDTH - (1 - t.x)]
    BY <1>2, <1>4 DEF terminal_back
  <2>7. terminal_back(t, 1) = [u EXCEPT !.x = w]
    BY <2>2, <2>3, <2>6, Zenon
  <2>8. w = VGA_WIDTH - 1 /\ z = y - 1
    BY <1>2, <1>3, <1>4, <2>1, <2>2
  <2> QED BY <1>1, <1>4, <2>5, <2>7, <2>8
<1>5. CASE x # 0
  <2>1. ~(t.x - 1 < 0)
    BY <1>2, <1>3, <1>5
  <2>2. PICK w : w = t.x - 1
    OBVIOUS
  <2>3. terminal_back(t, 1) = [t EXCEPT !.x = t.x - 1]
    BY <2>1 DEF terminal_back
  <2>4. terminal_back(t, 1) = [t EXCEPT !.x = w]
    BY <2>2, <2>3, Zenon
  <2>5. [t EXCEPT !.x = w] = Screen(w, y, b, s)
    BY <1>1, SetX
  <2> QED BY <1>1, <1>2, <1>5, <2>2, <2>4, <2>5
<1> QED BY <1>4, <1>5

\* terminal_backspace clears the cell before the cursor and ends up there.
LEMMA BackspaceClears ==
    ASSUME NEW t, OnScreen(t), Position(t) > 0
    PROVE  LET u == terminal_backspace(t)
           IN  /\ OnScreen(u) /\ Position(u) = Position(t) - 1
               /\ \A c \in Cells :
                     u.buffer[c] = IF c = Position(t) - 1 THEN BLANK ELSE t.buffer[c]
<1> DEFINE x == t.x
           y == t.y
           b == t.buffer
           s == t.stray
           u == terminal_backspace(t)
<1>1. x \in Columns /\ y \in Rows /\ IsBuffer(b) /\ t = Screen(x, y, b, s) /\ ~s
  BY DEF OnScreen
<1>2. /\ VGA_WIDTH \in Nat \ {0} /\ VGA_HEIGHT \in Nat \ {0}
      /\ x \in Nat /\ y \in Nat /\ x < VGA_WIDTH /\ y < VGA_HEIGHT /\ Cells \subseteq Nat
      /\ BLANK \notin {NEWLINE, NUL}
  BY <1>1, ScreenSize DEF Columns, Rows, Cells
<1> HIDE DEF x, y, b, s
<1>3. /\ Position(t) = y * VGA_WIDTH + x /\ y * VGA_WIDTH \in Nat
      /\ (y - 1) * VGA_WIDTH = y * VGA_WIDTH - VGA_WIDTH
  BY <1>1, Positions, CellAt
<1>4. x > 0 \/ y > 0
  <2> SUFFICES ASSUME x = 0, y = 0 PROVE FALSE
    BY <1>2
  <2>1. y * VGA_WIDTH = 0
    BY <1>2
  <2> QED BY <1>3, <2>1
<1> DEFINE x1 == IF x = 0 THEN VGA_WIDTH - 1 ELSE x - 1
           y1 == IF x = 0 THEN y - 1 ELSE y
           at == y1 * VGA_WIDTH + x1
           c == [b EXCEPT ![at] = BLANK]
<1>5. x1 \in Columns /\ y1 \in Rows /\ terminal_back(t, 1) = Screen(x1, y1, b, s)
      /\ at = Position(t) - 1
  <2>1. x1 \in Columns /\ y1 \in Rows
    BY <1>2, <1>4 DEF Columns, Rows
  <2>2. terminal_back(t, 1) = Screen(x1, y1, b, s)
    BY <1>1, <1>4, BackOne
  <2>3. at = Position(t) - 1
    BY <1>2, <1>3
  <2> QED BY <2>1, <2>2, <2>3
<1>6. /\ terminal_putchar(Screen(x1, y1, b, s), BLANK) =
            IF x1 + 1 # VGA_WIDTH THEN Screen(x1 + 1, y1, c, s)
            ELSE IF y1 + 1 # VGA_HEIGHT THEN Screen(0, y1 + 1, c, s)
            ELSE Screen(0, VGA_HEIGHT - 1, Shift(c), s)
      /\ IsBuffer(c)
  <2> HIDE DEF x1, y1
  <2> QED BY <1>1, <1>2, <1>5, PutLetter
<1>7. at \in Cells
  <2> HIDE DEF x1, y1
  <2> QED BY <1>5, CellAt
<1>8. \A i \in Cells : c[i] = IF i = at THEN BLANK ELSE b[i]
  <2> HIDE DEF at
  <2> QED BY <1>1, <1>7 DEF IsBuffer
<1> HIDE DEF c, at
<1>9. terminal_putchar(Screen(x1, y1, b, s), BLANK) = Screen(x, y, c, s)
  BY <1>2, <1>4, <1>6
<1>10. terminal_back(Screen(x, y, c, s), 1) = Screen(x1, y1, c, s)
  BY <1>1, <1>4, BackOne
<1>11. u = Screen(x1, y1, c, s)
  BY <1>5, <1>9, <1>10 DEF terminal_backspace
<1> HIDE DEF x1, y1, u
<1>12. OnScreen(u) /\ Position(u) = at /\ u.buffer = c
  BY <1>1, <1>5, <1>6, <1>11, ScreenIsOn, Positions, Fields DEF at
<1> QED BY <1>5, <1>8, <1>12 DEF u, b

(***************************************************************************)
(* terminal_write, as steps.                                               *)
(***************************************************************************)

\* The largest element of a set of numbers.
LEMMA LargestOf ==
    ASSUME NEW k \in Nat, NEW S \in SUBSET (1 .. k), S # {}
    PROVE  Max(S) \in S /\ \A i \in S : i <= Max(S)
<1> DEFINE Lows == {i \in Nat : k - i \in S}
<1>1. PICK e \in S : TRUE
  OBVIOUS
<1>2. k - e \in Lows /\ Lows \subseteq Nat
  BY <1>1
<1>3. PICK i \in Lows : \A j \in Lows : <<j, i>> \notin OpToRel(<, Nat)
  <2> HIDE DEF Lows
  <2> QED BY <1>2, NatLessThanWellFounded, WFMin
<1>4. \A j \in Lows : ~(j < i)
  BY <1>3 DEF OpToRel
<1>5. i \in Nat /\ k - i \in S
  OBVIOUS
<1>6. \A j \in S : j <= k - i
  <2> SUFFICES ASSUME NEW j \in S, ~(j <= k - i) PROVE FALSE
    OBVIOUS
  <2>1. k - j \in Lows /\ k - j < i
    BY <1>5
  <2> QED BY <1>4, <2>1
<1> HIDE DEF Lows
<1>7. \E x \in S : \A y \in S : x >= y
  <2>1. \A y \in S : k - i >= y
    BY <1>5, <1>6
  <2> QED BY <1>5, <2>1
<1>8. Max(S) \in S /\ \A y \in S : Max(S) >= y
  BY <1>7 DEF Max
<1> QED BY <1>8

\* The fold of terminal_write.
Fold(f, t, data, s) ==
    IF s = {} THEN t ELSE terminal_putchar(f[s \ {Max(s)}], data[Max(s)])

LEMMA WriteIsFold ==
    ASSUME NEW t, NEW data
    PROVE  terminal_write(t, data) =
             (CHOOSE f : f = [s \in SUBSET (DOMAIN data) |-> Fold(f, t, data, s)])[DOMAIN data]
  BY DEF terminal_write, FoldLeft, MapThenFoldSet, Fold

\* f is the fold for the subsets of 1 .. k.
FoldsTo(f, t, data, n, k) ==
    /\ f = [s \in SUBSET (1 .. n) |-> f[s]]
    /\ \A s \in SUBSET (1 .. n) : s \subseteq 1 .. k => f[s] = Fold(f, t, data, s)

IsFold(f, t, data, n) == f = [s \in SUBSET (1 .. n) |-> Fold(f, t, data, s)]

LEMMA FoldExists ==
    ASSUME NEW t, NEW data, NEW n \in Nat
    PROVE  \E f : IsFold(f, t, data, n)
<1> DEFINE Good(k) == \E f : FoldsTo(f, t, data, n, k)
           Bad == {k \in Nat : ~Good(k)}
<1>1. Good(0)
  <2> DEFINE f == [s \in SUBSET (1 .. n) |-> t]
  <2>1. ASSUME NEW s \in SUBSET (1 .. n), s \subseteq 1 .. 0 PROVE f[s] = Fold(f, t, data, s)
    <3>1. s = {}
      BY <2>1
    <3> QED BY <3>1 DEF Fold
  <2>2. f = [s \in SUBSET (1 .. n) |-> f[s]]
    OBVIOUS
  <2> HIDE DEF f
  <2> QED BY <2>1, <2>2 DEF FoldsTo
<1>2. ASSUME NEW k \in Nat, Good(k) PROVE Good(k + 1)
  <2>1. PICK f : FoldsTo(f, t, data, n, k)
    BY <1>2
  <2> DEFINE g == [s \in SUBSET (1 .. n) |-> Fold(f, t, data, s)]
  <2>2. \A s \in SUBSET (1 .. n) : s \subseteq 1 .. k => g[s] = f[s]
    BY <2>1 DEF FoldsTo
  <2>3. ASSUME NEW s \in SUBSET (1 .. n), s \subseteq 1 .. (k + 1)
        PROVE  g[s] = Fold(g, t, data, s)
    <3>1. CASE s = {}
      BY <3>1 DEF Fold
    <3>2. CASE s # {}
      <4>1. Max(s) \in s /\ \A i \in s : i <= Max(s)
        BY <2>3, <3>2, LargestOf
      <4>2. s \ {Max(s)} \subseteq 1 .. k
        <5> SUFFICES ASSUME NEW i \in s, i # Max(s) PROVE i \in 1 .. k
          OBVIOUS
        <5>1. i \in 1 .. (k + 1) /\ Max(s) \in 1 .. (k + 1) /\ i <= Max(s)
          BY <2>3, <4>1
        <5> HIDE DEF Max
        <5> QED BY <1>2, <5>1
      <4>3. g[s \ {Max(s)}] = f[s \ {Max(s)}]
        BY <2>2, <4>2
      <4> QED BY <4>3 DEF Fold
    <3> QED BY <3>1, <3>2
  <2>4. g = [s \in SUBSET (1 .. n) |-> g[s]]
    OBVIOUS
  <2> HIDE DEF g
  <2>5. FoldsTo(g, t, data, n, k + 1)
    BY <2>3, <2>4 DEF FoldsTo
  <2> QED BY <2>5
<1>3. Good(n)
  <2> SUFFICES ASSUME n \in Bad PROVE FALSE
    OBVIOUS
  <2>1. PICK k \in Bad : \A j \in Bad : <<j, k>> \notin OpToRel(<, Nat)
    <3>1. Bad \subseteq Nat
      OBVIOUS
    <3> HIDE DEF Bad
    <3> QED BY <3>1, NatLessThanWellFounded, WFMin
  <2>2. k \in Nat /\ k # 0 /\ ~Good(k)
    BY <1>1
  <2>3. k - 1 \in Nat /\ k - 1 \notin Bad
    <3>1. \A j \in Bad : ~(j < k)
      BY <2>1 DEF OpToRel
    <3> HIDE DEF Bad
    <3> QED BY <2>2, <3>1
  <2>4. Good(k - 1)
    BY <2>3
  <2>5. Good((k - 1) + 1)
    <3> HIDE DEF Good
    <3> QED BY <1>2, <2>3, <2>4
  <2>6. (k - 1) + 1 = k
    BY <2>2
  <2> HIDE DEF Good
  <2> QED BY <2>2, <2>5, <2>6
<1>4. PICK f : FoldsTo(f, t, data, n, n)
  BY <1>3
<1>5. IsFold(f, t, data, n)
  BY <1>4 DEF FoldsTo, IsFold
<1> QED BY <1>5

\* The terminals between the characters of data.
Steps(f, t, data, n) ==
    /\ f[0] = t
    /\ \A m \in 1 .. n : f[m] = terminal_putchar(f[m - 1], data[m])
    /\ terminal_write(t, data) = f[n]

\* terminal_write puts one character after the other.
LEMMA WriteSteps ==
    ASSUME NEW t, NEW data, NEW n \in Nat, DOMAIN data = 1 .. n
    PROVE  \E f : Steps(f, t, data, n)
<1> DEFINE g == CHOOSE f : f = [s \in SUBSET (1 .. n) |-> Fold(f, t, data, s)]
<1>1. g = [s \in SUBSET (1 .. n) |-> Fold(g, t, data, s)]
      /\ terminal_write(t, data) = g[1 .. n]
  <2>1. \E f : f = [s \in SUBSET (1 .. n) |-> Fold(f, t, data, s)]
    <3>1. \E f : IsFold(f, t, data, n)
      BY FoldExists
    <3> QED BY <3>1, Zenon DEF IsFold
  <2>2. g = [s \in SUBSET (1 .. n) |-> Fold(g, t, data, s)]
    BY <2>1, Zenon
  <2>3. terminal_write(t, data) =
          (CHOOSE f : f = [s \in SUBSET (DOMAIN data) |-> Fold(f, t, data, s)])[DOMAIN data]
    BY WriteIsFold, Zenon
  <2> QED BY <2>2, <2>3, Zenon
<1> HIDE DEF g
<1> DEFINE f == [m \in 0 .. n |-> g[1 .. m]]
<1>2. \A m \in 0 .. n : g[1 .. m] = Fold(g, t, data, 1 .. m)
  <2>1. \A m \in 0 .. n : 1 .. m \in SUBSET (1 .. n)
    OBVIOUS
  <2> QED BY <1>1, <2>1
<1>3. f[0] = t
  <2>1. 1 .. 0 = {} /\ 0 \in 0 .. n
    OBVIOUS
  <2>2. f[0] = g[1 .. 0]
    BY <2>1
  <2>3. Fold(g, t, data, {}) = t
    BY DEF Fold
  <2> QED BY <1>2, <2>1, <2>2, <2>3
<1>4. ASSUME NEW m \in 1 .. n PROVE f[m] = terminal_putchar(f[m - 1], data[m])
  <2>1. 1 .. m # {} /\ m \in 1 .. m /\ m \in Nat /\ m - 1 \in 0 .. n /\ m \in 0 .. n
    OBVIOUS
  <2>2. Max(1 .. m) \in 1 .. m /\ \A i \in 1 .. m : i <= Max(1 .. m)
    BY <2>1, LargestOf
  <2>3. Max(1 .. m) = m
    BY <2>1, <2>2
  <2>4. (1 .. m) \ {m} = 1 .. (m - 1)
    BY <2>1
  <2>5. g[1 .. m] = terminal_putchar(g[1 .. (m - 1)], data[m])
    BY <1>2, <2>1, <2>3, <2>4 DEF Fold
  <2> QED BY <2>1, <2>5
<1>5. terminal_write(t, data) = f[n]
  BY <1>1
<1> HIDE DEF f
<1> QED BY <1>3, <1>4, <1>5 DEF Steps

\* A text: a sequence of characters.
Text(data) == \E S : data \in Seq(S)

\* Writing leaves the cursor on the screen.
LEMMA WriteStays ==
    ASSUME NEW t, OnScreen(t), NEW data, Text(data)
    PROVE  OnScreen(terminal_write(t, data))
<1>1. PICK n \in Nat : DOMAIN data = 1 .. n
  BY LenProperties DEF Text
<1>2. PICK f : Steps(f, t, data, n)
  BY <1>1, WriteSteps
<1> DEFINE Bad == {m \in Nat : m <= n /\ ~OnScreen(f[m])}
<1>3. Bad = {}
  <2> SUFFICES ASSUME Bad # {} PROVE FALSE
    OBVIOUS
  <2>1. PICK m \in Bad : \A j \in Bad : <<j, m>> \notin OpToRel(<, Nat)
    <3>1. Bad \subseteq Nat
      OBVIOUS
    <3> HIDE DEF Bad
    <3> QED BY <3>1, NatLessThanWellFounded, WFMin
  <2>2. m \in Nat /\ m <= n /\ ~OnScreen(f[m]) /\ m # 0
    BY <1>2 DEF Steps
  <2>3. m - 1 \in Nat /\ m - 1 \notin Bad /\ m - 1 <= n /\ m \in 1 .. n
    <3>1. \A j \in Bad : ~(j < m)
      BY <2>1 DEF OpToRel
    <3> HIDE DEF Bad
    <3> QED BY <2>2, <3>1
  <2>4. OnScreen(f[m - 1])
    BY <2>3
  <2>5. f[m] = terminal_putchar(f[m - 1], data[m])
    BY <1>2, <2>3 DEF Steps
  <2> QED BY <2>2, <2>4, <2>5, PutStays
<1>4. n \notin Bad
  BY <1>3
<1> QED BY <1>2, <1>4 DEF Steps

LEMMA OneIsText == ASSUME NEW ch PROVE Text(<<ch>>)
<1>1. <<ch>> \in Seq({ch})
  OBVIOUS
<1> QED BY <1>1 DEF Text

LEMMA EmptyIsText == Text(<<>>)
  BY EmptySeq DEF Text

LEMMA ConcatIsText ==
    ASSUME NEW s, NEW t, Text(s), Text(t)
    PROVE  Text(s \o t)
<1>1. PICK S, T : s \in Seq(S) /\ t \in Seq(T)
  BY DEF Text
<1>2. s \in Seq(S \cup T) /\ t \in Seq(S \cup T)
  BY <1>1, SeqMonotonic
<1>3. s \o t \in Seq(S \cup T)
  BY <1>2, ConcatProperties
<1> QED BY <1>3 DEF Text

LEMMA ReverseIsText ==
    ASSUME NEW s, Text(s)
    PROVE  Text(Reverse(s))
<1>1. PICK S : s \in Seq(S)
  BY DEF Text
<1>2. Len(s) \in Nat /\ \A i \in 1 .. Len(s) : s[i] \in S
  BY <1>1, ElementOfSeq, LenProperties
<1>3. \A i \in 1 .. Len(s) : (Len(s) - i) + 1 \in 1 .. Len(s)
  BY <1>2
<1>4. Reverse(s) \in Seq(S)
  <2>1. Reverse(s) \in [1 .. Len(s) -> S]
    BY <1>2, <1>3 DEF Reverse
  <2> QED BY <1>2, <2>1
<1> QED BY <1>4 DEF Text

(***************************************************************************)
(* The numerals of printint.                                               *)
(***************************************************************************)

\* A round of the loop of printint, the later ones being f.
Digits(f, base, n) ==
    IF n \div base = 0 THEN <<digits[(n % base) + 1]>>
    ELSE <<digits[(n % base) + 1]>> \o f[n \div base]

\* f is the loop for the numbers below k.
DigitsTo(f, base, k) ==
    /\ f = [n \in Nat |-> f[n]]
    /\ \A n \in Nat : n < k => f[n] = Digits(f, base, n)

IsDigits(f, base) == f = [n \in Nat |-> Digits(f, base, n)]

LEMMA Quotient ==
    ASSUME NEW base \in {10, 16}, NEW n \in Nat
    PROVE  n \div base \in Nat /\ (n \div base # 0 => n \div base < n)
<1>1. CASE base = 10
  BY <1>1
<1>2. CASE base = 16
  BY <1>2
<1> QED BY <1>1, <1>2

LEMMA DigitsUpTo ==
    ASSUME NEW base \in {10, 16}, NEW k \in Nat
    PROVE  \E f : DigitsTo(f, base, k)
<1> DEFINE Good(j) == \E f : DigitsTo(f, base, j)
           Bad == {j \in Nat : ~Good(j)}
<1>1. Good(0)
  <2> DEFINE f == [n \in Nat |-> n]
  <2>1. f = [n \in Nat |-> f[n]] /\ \A n \in Nat : ~(n < 0)
    OBVIOUS
  <2> HIDE DEF f
  <2> QED BY <2>1 DEF DigitsTo
<1>2. ASSUME NEW j \in Nat, Good(j) PROVE Good(j + 1)
  <2>1. PICK f : DigitsTo(f, base, j)
    BY <1>2
  <2> DEFINE g == [n \in Nat |-> Digits(f, base, n)]
  <2>2. \A n \in Nat : n < j => g[n] = f[n]
    BY <2>1 DEF DigitsTo
  <2>3. g = [n \in Nat |-> g[n]] /\ \A n \in Nat : g[n] = Digits(f, base, n)
    OBVIOUS
  <2> HIDE DEF g
  <2>4. ASSUME NEW n \in Nat, n < j + 1 PROVE g[n] = Digits(g, base, n)
    <3>1. n \div base # 0 => n \div base \in Nat /\ n \div base < j
      BY <2>4, Quotient
    <3>2. n \div base # 0 => g[n \div base] = f[n \div base]
      BY <2>2, <3>1
    <3> QED BY <2>3, <3>2 DEF Digits
  <2>5. DigitsTo(g, base, j + 1)
    BY <2>3, <2>4 DEF DigitsTo
  <2> QED BY <2>5
<1>3. Good(k)
  <2> SUFFICES ASSUME k \in Bad PROVE FALSE
    OBVIOUS
  <2>1. PICK m \in Bad : \A j \in Bad : <<j, m>> \notin OpToRel(<, Nat)
    <3>1. Bad \subseteq Nat
      OBVIOUS
    <3> HIDE DEF Bad
    <3> QED BY <3>1, NatLessThanWellFounded, WFMin
  <2>2. m \in Nat /\ m # 0 /\ ~Good(m)
    BY <1>1
  <2>3. m - 1 \in Nat /\ m - 1 \notin Bad
    <3>1. \A j \in Bad : ~(j < m)
      BY <2>1 DEF OpToRel
    <3> HIDE DEF Bad
    <3> QED BY <2>2, <3>1
  <2>4. Good(m - 1)
    BY <2>3
  <2>5. Good((m - 1) + 1)
    <3> HIDE DEF Good
    <3> QED BY <1>2, <2>3, <2>4
  <2>6. (m - 1) + 1 = m
    BY <2>2
  <2> HIDE DEF Good
  <2> QED BY <2>2, <2>5, <2>6
<1> QED BY <1>3

\* Two such loops agree.
LEMMA DigitsAgree ==
    ASSUME NEW base \in {10, 16}, NEW k \in Nat, NEW l \in Nat, NEW f, NEW g,
           DigitsTo(f, base, k), DigitsTo(g, base, l)
    PROVE  \A n \in Nat : n < k /\ n < l => f[n] = g[n]
<1> DEFINE Bad == {n \in Nat : n < k /\ n < l /\ f[n] # g[n]}
<1> SUFFICES ASSUME Bad # {} PROVE FALSE
  OBVIOUS
<1>1. PICK m \in Bad : \A j \in Bad : <<j, m>> \notin OpToRel(<, Nat)
  <2>1. Bad \subseteq Nat
    OBVIOUS
  <2> HIDE DEF Bad
  <2> QED BY <2>1, NatLessThanWellFounded, WFMin
<1>2. \A j \in Bad : ~(j < m)
  BY <1>1 DEF OpToRel
<1>3. m \in Nat /\ m < k /\ m < l /\ f[m] # g[m]
  OBVIOUS
<1>4. f[m] = Digits(f, base, m) /\ g[m] = Digits(g, base, m)
  BY <1>3 DEF DigitsTo
<1>5. PICK q : q = m \div base
  OBVIOUS
<1>6. q \in Nat /\ (q # 0 => q < m)
  BY <1>3, <1>5, Quotient
<1>7. q # 0 => f[q] = g[q]
  <2>1. q # 0 => q \notin Bad
    BY <1>2, <1>6
  <2> QED BY <1>3, <1>6, <2>1
<1> QED BY <1>3, <1>4, <1>5, <1>7 DEF Digits

LEMMA DigitsExist ==
    ASSUME NEW base \in {10, 16}
    PROVE  \E f : IsDigits(f, base)
<1> DEFINE To(k) == CHOOSE f : DigitsTo(f, base, k)
           g == [n \in Nat |-> To(n + 1)[n]]
<1>1. \A k \in Nat : DigitsTo(To(k), base, k)
  BY DigitsUpTo
<1> HIDE DEF To
<1>2. \A n \in Nat : g[n] = To(n + 1)[n]
  OBVIOUS
<1>3. g = [n \in Nat |-> g[n]]
  OBVIOUS
<1> HIDE DEF g
<1>4. ASSUME NEW n \in Nat PROVE g[n] = Digits(g, base, n)
  <2>1. n + 1 \in Nat /\ DigitsTo(To(n + 1), base, n + 1) /\ n < n + 1
    BY <1>1
  <2>2. g[n] = Digits(To(n + 1), base, n)
    BY <1>2, <2>1 DEF DigitsTo
  <2>3. PICK q : q = n \div base
    OBVIOUS
  <2>4. q \in Nat /\ (q # 0 => q < n)
    BY <2>3, Quotient
  <2>5. q + 1 \in Nat /\ DigitsTo(To(q + 1), base, q + 1) /\ q < q + 1
    BY <1>1, <2>4
  <2>6. q # 0 => g[q] = To(n + 1)[q]
    <3>1. q # 0 => q < n + 1
      BY <2>4
    <3>2. PICK f, h : f = To(q + 1) /\ h = To(n + 1)
      OBVIOUS
    <3>3. q # 0 => f[q] = h[q]
      <4>1. DigitsTo(f, base, q + 1) /\ DigitsTo(h, base, n + 1)
        BY <2>1, <2>5, <3>2
      <4> QED BY <2>1, <2>4, <2>5, <3>1, <4>1, DigitsAgree
    <3> QED BY <1>2, <2>4, <3>2, <3>3
  <2> QED BY <2>2, <2>3, <2>6 DEF Digits
<1>5. IsDigits(g, base)
  BY <1>3, <1>4 DEF IsDigits
<1> QED BY <1>5

\* The loop of printint.
LEMMA NumeralLoop ==
    ASSUME NEW base \in {10, 16}, NEW num
    PROVE  \E buf : /\ Numeral(num, base) = Reverse(buf[num])
                    /\ \A n \in Nat : buf[n] = Digits(buf, base, n)
<1> DEFINE buf == CHOOSE f : f = [n \in Nat |-> Digits(f, base, n)]
<1>1. Numeral(num, base) = Reverse(buf[num])
  BY DEF Numeral, Digits
<1>2. buf = [n \in Nat |-> Digits(buf, base, n)]
  <2>1. \E f : f = [n \in Nat |-> Digits(f, base, n)]
    <3>1. \E f : IsDigits(f, base)
      BY DigitsExist
    <3> QED BY <3>1, Zenon DEF IsDigits
  <2> QED BY <2>1, Zenon
<1> HIDE DEF buf
<1>3. \A n \in Nat : buf[n] = Digits(buf, base, n)
  BY <1>2
<1> QED BY <1>1, <1>3

LEMMA NumeralIsText ==
    ASSUME NEW base \in {10, 16}, NEW num \in Nat
    PROVE  Text(Numeral(num, base))
<1>1. PICK buf : /\ Numeral(num, base) = Reverse(buf[num])
                 /\ \A n \in Nat : buf[n] = Digits(buf, base, n)
  BY NumeralLoop
<1> DEFINE Bad == {n \in Nat : ~Text(buf[n])}
<1>2. Bad = {}
  <2> SUFFICES ASSUME Bad # {} PROVE FALSE
    OBVIOUS
  <2>1. PICK m \in Bad : \A j \in Bad : <<j, m>> \notin OpToRel(<, Nat)
    <3>1. Bad \subseteq Nat
      OBVIOUS
    <3> HIDE DEF Bad
    <3> QED BY <3>1, NatLessThanWellFounded, WFMin
  <2>2. \A j \in Bad : ~(j < m)
    BY <2>1 DEF OpToRel
  <2>3. m \in Nat /\ ~Text(buf[m])
    OBVIOUS
  <2>4. PICK q, d : q = m \div base /\ d = digits[(m % base) + 1]
    OBVIOUS
  <2>5. q \in Nat /\ (q # 0 => q < m)
    BY <2>3, <2>4, Quotient
  <2>6. q # 0 => Text(buf[q])
    <3>1. q # 0 => q \notin Bad
      BY <2>2, <2>5
    <3> QED BY <2>5, <3>1
  <2>7. buf[m] = IF q = 0 THEN <<d>> ELSE <<d>> \o buf[q]
    BY <1>1, <2>3, <2>4 DEF Digits
  <2>8. Text(<<d>>)
    BY OneIsText
  <2> QED BY <2>3, <2>6, <2>7, <2>8, ConcatIsText
<1>3. Text(buf[num])
  BY <1>2
<1> QED BY <1>1, <1>3, ReverseIsText

LEMMA IntIsText ==
    ASSUME NEW base \in {10, 16}, NEW number \in Int, NEW sign
    PROVE  Text(printint(number, base, sign))
<1>1. number % WORD \in Nat /\ (number < 0 => -number \in Nat)
  <2>1. WORD \in Nat \ {0}
    BY ScreenSize
  <2> QED BY <2>1
<1>2. Text(Numeral(number % WORD, base))
  BY <1>1, NumeralIsText
<1>3. number < 0 => Text(Numeral(-number, base))
  BY <1>1, NumeralIsText
<1>4. number < 0 => Text(<<"-">> \o Numeral(-number, base))
  BY <1>3, OneIsText, ConcatIsText
<1> QED BY <1>2, <1>4, Zenon DEF printint

(***************************************************************************)
(* The loop of printf.                                                     *)
(***************************************************************************)

LEMMA SmallestOf ==
    ASSUME NEW S \in SUBSET Nat, S # {}
    PROVE  Min(S) \in S /\ \A i \in S : Min(S) <= i
<1>1. PICK m \in S : \A j \in S : <<j, m>> \notin OpToRel(<, Nat)
  BY NatLessThanWellFounded, WFMin
<1>2. \A j \in S : ~(j < m)
  BY <1>1 DEF OpToRel
<1>3. \A j \in S : m <= j
  BY <1>2
<1> QED BY <1>3 DEF Min

LEMMA AmountIs ==
    ASSUME NEW format, Len(format) \in Nat, NEW i \in Nat, i <= Len(format) + 1
    PROVE  /\ Amount(format, i) \in Nat
           /\ i <= Len(format) => Amount(format, i) > 0
<1> DEFINE stops == {j \in (i + 1) .. Len(format) : format[j] = "%"}
<1>1. stops \in SUBSET Nat /\ \A j \in stops : j > i
  OBVIOUS
<1>2. Amount(format, i) = IF stops = {} THEN Len(format) - i + 1 ELSE Min(stops) - i
  BY DEF Amount
<1> HIDE DEF stops
<1>3. CASE stops = {}
  BY <1>2, <1>3
<1>4. CASE stops # {}
  <2>1. Min(stops) \in Nat /\ Min(stops) > i
    BY <1>1, <1>4, SmallestOf
  <2> QED BY <1>2, <1>4, <2>1
<1> QED BY <1>3, <1>4

\* A round looks at later rounds only.
LEMMA PutLooksAhead ==
    ASSUME NEW f, NEW g, NEW text, NEW shown, NEW i \in Nat, NEW a \in Nat, NEW written \in Nat,
           \A w \in Nat : f[<<i, a, w>>] = g[<<i, a, w>>]
    PROVE  printf_put(f, text, shown, i, a, written) = printf_put(g, text, shown, i, a, written)
<1>1. INT_MAX \in Int
  BY ScreenSize DEF INT_MAX
<1>2. CASE Len(text) \notin 0 .. (INT_MAX - written)
  BY <1>2, Zenon DEF printf_put
<1>3. CASE Len(text) \in 0 .. (INT_MAX - written)
  <2>1. written + Len(text) \in Nat
    BY <1>1, <1>3
  <2>2. f[<<i, a, written + Len(text)>>] = g[<<i, a, written + Len(text)>>]
    BY <2>1
  <2> QED BY <1>3, <2>2, Zenon DEF printf_put
<1> QED BY <1>2, <1>3

AgreeBeyond(f, g, i) == \A j, b, w \in Nat : j > i => f[<<j, b, w>>] = g[<<j, b, w>>]

LEMMA RoundLooksAhead ==
    ASSUME NEW format, Len(format) \in Nat, NEW args, NEW f, NEW g,
           NEW i \in Nat, NEW a \in Nat, NEW written \in Nat, AgreeBeyond(f, g, i)
    PROVE  printf_round(format, args, f, i, a, written) =
           printf_round(format, args, g, i, a, written)
<1> DEFINE first  == CharAt(format, i)
           second == CharAt(format, i + 1)
           from   == IF first = "%" THEN i + 1 ELSE i
           end    == from + Amount(format, from)
           conv   == Converted(second, args[a])
           rest   == SubSeq(format, i, Len(format))
           part   == SubSeq(format, from, end - 1)
           Put(j, text, shown, b) == printf_put(f, text, shown, j, b, written)
                                        = printf_put(g, text, shown, j, b, written)
<1>1. CASE i > Len(format)
  BY <1>1, Zenon DEF printf_round
<1>2. CASE i <= Len(format)
  <2>1. end \in Nat /\ end > i
    <3>1. from \in Nat /\ from <= Len(format) + 1 /\ from >= i
          /\ (from = i \/ from = i + 1)
      BY <1>2
    <3> HIDE DEF from
    <3>2. Amount(format, from) \in Nat /\ (from <= Len(format) => Amount(format, from) > 0)
      BY <3>1, AmountIs
    <3> QED BY <1>2, <3>1, <3>2
  <2>2. ASSUME NEW j \in Nat, j > i, NEW b \in Nat, NEW text, NEW shown
        PROVE  Put(j, text, shown, b)
    <3>1. \A w \in Nat : f[<<j, b, w>>] = g[<<j, b, w>>]
      BY <2>2 DEF AgreeBeyond
    <3> QED BY <3>1, PutLooksAhead
  <2>3. Put(end, part, FALSE, a)
    <3> HIDE DEF end, part, Put
    <3> QED BY <2>1, <2>2
  <2>4. Put(i + 2, conv, PrintedAtLimit(second), a + 1)
    <3> HIDE DEF conv, second, Put
    <3> QED BY <2>2
  <2>5. Put(Len(format) + 1, rest, FALSE, a)
    <3>1. Len(format) + 1 \in Nat /\ Len(format) + 1 > i
      BY <1>2
    <3> HIDE DEF rest, Put
    <3> QED BY <2>2, <3>1
  <2> QED BY <2>3, <2>4, <2>5, Zenon DEF printf_round
<1> QED BY <1>1, <1>2

Places == Nat \X Nat \X Nat

\* f is the loop for the places whose distance to the end is below k.
LoopTo(f, format, args, k) ==
    /\ f = [p \in Places |-> f[p]]
    /\ \A i, a, w \in Nat :
          i + k > Len(format) => f[<<i, a, w>>] = printf_round(format, args, f, i, a, w)

IsLoop(f, format, args) ==
    f = [p \in Places |-> printf_round(format, args, f, p[1], p[2], p[3])]

LEMMA LoopExists ==
    ASSUME NEW format, Len(format) \in Nat, NEW args
    PROVE  \E f : IsLoop(f, format, args)
<1> DEFINE Good(k) == \E f : LoopTo(f, format, args, k)
           Bad == {k \in Nat : ~Good(k)}
<1>1. Good(0)
  <2> DEFINE f == [p \in Places |-> [out |-> <<>>, ret |-> p[3]]]
  <2>1. f = [p \in Places |-> f[p]]
    OBVIOUS
  <2>2. \A i, a, w \in Nat : f[<<i, a, w>>] = [out |-> <<>>, ret |-> w]
    BY DEF Places
  <2> HIDE DEF f
  <2>3. ASSUME NEW i \in Nat, NEW a \in Nat, NEW w \in Nat, i + 0 > Len(format)
        PROVE  f[<<i, a, w>>] = printf_round(format, args, f, i, a, w)
    <3>1. i > Len(format)
      BY <2>3
    <3>2. printf_round(format, args, f, i, a, w) = [out |-> <<>>, ret |-> w]
      BY <3>1, Zenon DEF printf_round
    <3> QED BY <2>2, <3>2
  <2> QED BY <2>1, <2>3 DEF LoopTo
<1>2. ASSUME NEW k \in Nat, Good(k) PROVE Good(k + 1)
  <2>1. PICK f : LoopTo(f, format, args, k)
    BY <1>2
  <2> DEFINE g == [p \in Places |-> printf_round(format, args, f, p[1], p[2], p[3])]
  <2>2. g = [p \in Places |-> g[p]]
    OBVIOUS
  <2>3. \A i, a, w \in Nat : g[<<i, a, w>>] = printf_round(format, args, f, i, a, w)
    BY DEF Places
  <2> HIDE DEF g
  <2>4. ASSUME NEW i \in Nat, NEW a \in Nat, NEW w \in Nat, i + (k + 1) > Len(format)
        PROVE  g[<<i, a, w>>] = printf_round(format, args, g, i, a, w)
    <3>1. AgreeBeyond(f, g, i)
      <4> SUFFICES ASSUME NEW j \in Nat, NEW b \in Nat, NEW v \in Nat, j > i
                   PROVE  f[<<j, b, v>>] = g[<<j, b, v>>]
        BY DEF AgreeBeyond
      <4>1. j + k > Len(format)
        BY <2>4
      <4> QED BY <2>1, <2>3, <4>1 DEF LoopTo
    <3>2. printf_round(format, args, f, i, a, w) = printf_round(format, args, g, i, a, w)
      BY <3>1, RoundLooksAhead
    <3> QED BY <2>3, <3>2
  <2>5. LoopTo(g, format, args, k + 1)
    BY <2>2, <2>4 DEF LoopTo
  <2> QED BY <2>5
<1>3. Good(Len(format) + 1)
  <2> SUFFICES ASSUME Len(format) + 1 \in Bad PROVE FALSE
    OBVIOUS
  <2>1. PICK m \in Bad : \A j \in Bad : <<j, m>> \notin OpToRel(<, Nat)
    <3>1. Bad \subseteq Nat
      OBVIOUS
    <3> HIDE DEF Bad
    <3> QED BY <3>1, NatLessThanWellFounded, WFMin
  <2>2. m \in Nat /\ m # 0 /\ ~Good(m)
    BY <1>1
  <2>3. m - 1 \in Nat /\ m - 1 \notin Bad
    <3>1. \A j \in Bad : ~(j < m)
      BY <2>1 DEF OpToRel
    <3> HIDE DEF Bad
    <3> QED BY <2>2, <3>1
  <2>4. Good(m - 1)
    BY <2>3
  <2>5. Good((m - 1) + 1)
    <3> HIDE DEF Good
    <3> QED BY <1>2, <2>3, <2>4
  <2>6. (m - 1) + 1 = m
    BY <2>2
  <2> HIDE DEF Good
  <2> QED BY <2>2, <2>5, <2>6
<1>4. PICK f : LoopTo(f, format, args, Len(format) + 1)
  BY <1>3
<1>5. ASSUME NEW p \in Places
      PROVE  f[p] = printf_round(format, args, f, p[1], p[2], p[3])
  <2>1. p[1] \in Nat /\ p[2] \in Nat /\ p[3] \in Nat /\ p = <<p[1], p[2], p[3]>>
    BY DEF Places
  <2>2. p[1] + (Len(format) + 1) > Len(format)
    BY <2>1
  <2> QED BY <1>4, <2>1, <2>2 DEF LoopTo
<1>6. IsLoop(f, format, args)
  BY <1>4, <1>5 DEF LoopTo, IsLoop
<1> QED BY <1>6

\* f has the rounds of a call of printf.
Rounds(f, format, args) ==
    /\ \A i, a, w \in Nat : f[<<i, a, w>>] = printf_round(format, args, f, i, a, w)
    /\ printf(format, args) = f[<<1, 1, 0>>]

LEMMA PrintfRounds ==
    ASSUME NEW format, Len(format) \in Nat, NEW args
    PROVE  \E f : Rounds(f, format, args)
<1> DEFINE loop == CHOOSE f : f = [p \in Nat \X Nat \X Nat |->
                                     printf_round(format, args, f, p[1], p[2], p[3])]
<1>1. printf(format, args) = loop[<<1, 1, 0>>]
  BY Zenon DEF printf
<1>2. loop = [p \in Places |-> printf_round(format, args, loop, p[1], p[2], p[3])]
  <2>1. \E f : f = [p \in Nat \X Nat \X Nat |->
                      printf_round(format, args, f, p[1], p[2], p[3])]
    <3>1. \E f : IsLoop(f, format, args)
      BY LoopExists
    <3> QED BY <3>1, Zenon DEF IsLoop, Places
  <2> QED BY <2>1, Zenon DEF Places
<1> HIDE DEF loop
<1>3. \A i, a, w \in Nat :
         loop[<<i, a, w>>] = printf_round(format, args, loop, i, a, w)
  BY <1>2 DEF Places
<1> QED BY <1>1, <1>3 DEF Rounds

\* A format without directives is printed as it is.
LEMMA PlainOutput ==
    ASSUME NEW S, NEW format \in Seq(S), NEW args, Len(format) \in 1 .. INT_MAX,
           \A i \in 1 .. Len(format) : format[i] # "%"
    PROVE  printf(format, args).out = format
<1>0. Len(format) \in Nat /\ INT_MAX \in Int
  BY LenProperties, ScreenSize DEF INT_MAX
<1>1. PICK f : Rounds(f, format, args)
  BY <1>0, PrintfRounds
<1>2. Amount(format, 1) = Len(format)
  <2>1. {j \in 2 .. Len(format) : format[j] = "%"} = {}
    BY <1>0
  <2>2. {j \in (1 + 1) .. Len(format) : format[j] = "%"} = {}
    BY <2>1
  <2>3. Amount(format, 1) = Len(format) - 1 + 1
    BY <2>2, Zenon DEF Amount
  <2> QED BY <1>0, <2>3
<1>3. CharAt(format, 1) = format[1] /\ format[1] # "%"
  BY <1>0 DEF CharAt
<1>4. printf(format, args) = printf_round(format, args, f, 1, 1, 0)
  BY <1>1 DEF Rounds
<1> DEFINE end == 1 + Amount(format, 1)
<1>5. printf(format, args) = printf_put(f, SubSeq(format, 1, end - 1), FALSE, end, 1, 0)
  <2>1. ~(1 > Len(format))
    BY <1>0
  <2> QED BY <1>3, <1>4, <2>1, Zenon DEF printf_round
<1>6. end = Len(format) + 1 /\ end - 1 = Len(format) /\ end \in Nat
  BY <1>0, <1>2
<1>7. SubSeq(format, 1, end - 1) = format
  BY <1>6, SubSeqFull
<1> HIDE DEF end
<1>8. f[<<end, 1, 0 + Len(format)>>] = [out |-> <<>>, ret |-> 0 + Len(format)]
  <2>1. end > Len(format) /\ 0 + Len(format) \in Nat
    BY <1>0, <1>6
  <2>2. f[<<end, 1, 0 + Len(format)>>] = printf_round(format, args, f, end, 1, 0 + Len(format))
    BY <1>1, <1>6, <2>1 DEF Rounds
  <2> QED BY <2>1, <2>2, Zenon DEF printf_round
<1>9. printf(format, args).out = format \o f[<<end, 1, 0 + Len(format)>>].out
  <2>1. Len(format) \in 0 .. (INT_MAX - 0)
    BY <1>0
  <2>2. PICK rest : rest = f[<<end, 1, 0 + Len(format)>>]
    OBVIOUS
  <2>3. printf(format, args) = [out |-> format \o rest.out, ret |-> rest.ret]
    BY <1>5, <1>7, <2>1, <2>2, Zenon DEF printf_put
  <2> QED BY <2>2, <2>3
<1>10. f[<<end, 1, 0 + Len(format)>>].out = <<>>
  BY <1>8
<1> QED BY <1>9, <1>10, ConcatEmptySeq

\* What a round prints is a text, when the next one prints one.
LEMMA PutIsText ==
    ASSUME NEW f, NEW text, Text(text), NEW shown, NEW i \in Nat, NEW a \in Nat, NEW w \in Nat,
           \A v \in Nat : Text(f[<<i, a, v>>].out)
    PROVE  Text(printf_put(f, text, shown, i, a, w).out)
<1>1. INT_MAX \in Int
  BY ScreenSize DEF INT_MAX
<1>2. CASE Len(text) \notin 0 .. (INT_MAX - w)
  <2>1. printf_put(f, text, shown, i, a, w).out = IF shown THEN text ELSE <<>>
    BY <1>2 DEF printf_put
  <2> QED BY <2>1, EmptyIsText
<1>3. CASE Len(text) \in 0 .. (INT_MAX - w)
  <2>1. w + Len(text) \in Nat
    BY <1>1, <1>3
  <2>2. PICK rest : rest = f[<<i, a, w + Len(text)>>].out
    OBVIOUS
  <2>3. printf_put(f, text, shown, i, a, w).out = text \o rest
    BY <1>3, <2>2 DEF printf_put
  <2>4. Text(rest)
    BY <2>1, <2>2
  <2> QED BY <2>3, <2>4, ConcatIsText
<1> QED BY <1>2, <1>3

\* A format with one directive prints a text, when its argument does.
LEMMA DirectiveOutput ==
    ASSUME NEW d \in {"d", "x", "s"}, NEW arg, Text(Converted(d, arg))
    PROVE  Text(printf(<<DOLLAR, "%", d, NEWLINE>>, <<arg>>).out)
<1>1. PICK format, args : format = <<DOLLAR, "%", d, NEWLINE>> /\ args = <<arg>>
  OBVIOUS
<1>2. /\ Len(format) = 4 /\ args[1] = arg
      /\ format[1] # "%" /\ format[2] = "%" /\ format[3] = d /\ d # "%" /\ format[4] # "%"
      /\ format \in Seq({DOLLAR, "%", d, NEWLINE})
  BY <1>1, ShellConstants
<1>3. PICK f : Rounds(f, format, args)
  BY <1>2, PrintfRounds
<1>4. /\ CharAt(format, 1) = format[1] /\ CharAt(format, 2) = "%" /\ CharAt(format, 3) = d
      /\ CharAt(format, 4) = format[4]
  BY <1>2 DEF CharAt
<1>5. Amount(format, 1) = 1 /\ Amount(format, 4) = 1
  <2>1. {j \in (4 + 1) .. Len(format) : format[j] = "%"} = {}
    BY <1>2
  <2>2. Amount(format, 4) = Len(format) - 4 + 1
    BY <2>1, Zenon DEF Amount
  <2>3. PICK stops : stops = {j \in (1 + 1) .. Len(format) : format[j] = "%"}
    OBVIOUS
  <2>4. Amount(format, 1) = IF stops = {} THEN Len(format) - 1 + 1 ELSE Min(stops) - 1
    BY <2>3, Zenon DEF Amount
  <2>5. \A j : j \in stops <=> j = 2
    <3>1. \A j \in 2 .. 4 : j = 2 \/ j = 3 \/ j = 4
      OBVIOUS
    <3> QED BY <1>2, <2>3, <3>1
  <2>6. stops # {} /\ Min(stops) = 2
    <3>1. stops # {} /\ stops \in SUBSET Nat
      BY <2>5
    <3> QED BY <2>5, <3>1, SmallestOf
  <2> QED BY <1>2, <2>2, <2>4, <2>6
<1>6. ASSUME NEW m \in Nat, NEW n \in Nat, m >= 1, n <= 4 PROVE Text(SubSeq(format, m, n))
  <2>1. \A i \in m .. n : i \in 1 .. Len(format)
    BY <1>2, <1>6
  <2>2. \A i \in m .. n : format[i] \in {DOLLAR, "%", d, NEWLINE}
    BY <1>2, <2>1, ElementOfSeq
  <2>3. SubSeq(format, m, n) \in Seq({DOLLAR, "%", d, NEWLINE})
    BY <2>2, SubSeqProperties
  <2> QED BY <2>3 DEF Text
<1>7. \A a, w \in Nat : Text(f[<<5, a, w>>].out)
  <2> SUFFICES ASSUME NEW a \in Nat, NEW w \in Nat PROVE Text(f[<<5, a, w>>].out)
    OBVIOUS
  <2>1. f[<<5, a, w>>] = printf_round(format, args, f, 5, a, w)
    BY <1>3 DEF Rounds
  <2>2. 5 > Len(format)
    BY <1>2
  <2>3. f[<<5, a, w>>] = [out |-> <<>>, ret |-> w]
    BY <2>1, <2>2, Zenon DEF printf_round
  <2>4. f[<<5, a, w>>].out = <<>>
    BY <2>3
  <2> QED BY <2>4, EmptyIsText
<1>8. \A a, w \in Nat : Text(f[<<4, a, w>>].out)
  <2> SUFFICES ASSUME NEW a \in Nat, NEW w \in Nat PROVE Text(f[<<4, a, w>>].out)
    OBVIOUS
  <2>1. f[<<4, a, w>>] = printf_round(format, args, f, 4, a, w)
    BY <1>3 DEF Rounds
  <2>2. ~(4 > Len(format)) /\ CharAt(format, 4) # "%"
    BY <1>2, <1>4
  <2> DEFINE end == 4 + Amount(format, 4)
  <2>3. f[<<4, a, w>>] = printf_put(f, SubSeq(format, 4, end - 1), FALSE, end, a, w)
    BY <2>1, <2>2, Zenon DEF printf_round
  <2>4. end = 5 /\ end - 1 = 4
    BY <1>5
  <2> HIDE DEF end
  <2>5. Text(SubSeq(format, 4, 4))
    BY <1>6
  <2> QED BY <1>7, <2>3, <2>4, <2>5, PutIsText
<1>9. \A w \in Nat : Text(f[<<2, 1, w>>].out)
  <2> SUFFICES ASSUME NEW w \in Nat PROVE Text(f[<<2, 1, w>>].out)
    OBVIOUS
  <2>1. f[<<2, 1, w>>] = printf_round(format, args, f, 2, 1, w)
    BY <1>3 DEF Rounds
  <2>2. ~(2 > Len(format)) /\ CharAt(format, 2 + 1) = d
    BY <1>2, <1>4
  <2>3. d \in {"d", "u", "x", "c", "s"}
    OBVIOUS
  <2>4. f[<<2, 1, w>>] = printf_put(f, Converted(d, arg), PrintedAtLimit(d), 2 + 2, 1 + 1, w)
    BY <1>2, <1>4, <2>1, <2>2, <2>3, Zenon DEF printf_round
  <2>5. 2 + 2 = 4 /\ 1 + 1 = 2
    OBVIOUS
  <2> QED BY <1>8, <2>4, <2>5, PutIsText
<1>10. Text(f[<<1, 1, 0>>].out)
  <2>1. f[<<1, 1, 0>>] = printf_round(format, args, f, 1, 1, 0)
    BY <1>3 DEF Rounds
  <2>2. ~(1 > Len(format)) /\ CharAt(format, 1) # "%"
    BY <1>2, <1>4
  <2> DEFINE end == 1 + Amount(format, 1)
  <2>3. f[<<1, 1, 0>>] = printf_put(f, SubSeq(format, 1, end - 1), FALSE, end, 1, 0)
    BY <2>1, <2>2, Zenon DEF printf_round
  <2>4. end = 2 /\ end - 1 = 1
    BY <1>5
  <2> HIDE DEF end
  <2>5. Text(SubSeq(format, 1, 1))
    BY <1>6
  <2> QED BY <1>9, <2>3, <2>4, <2>5, PutIsText
<1> QED BY <1>1, <1>3, <1>10 DEF Rounds

\* The commands print texts.
LEMMA OutputIsText ==
    ASSUME NEW name, Text(name)
    PROVE  Text(Output(name))
<1>1. ASSUME NEW n \in Int
      PROVE  /\ Text(printf(<<DOLLAR, "%", "d", NEWLINE>>, <<n>>).out)
             /\ Text(printf(<<DOLLAR, "%", "x", NEWLINE>>, <<n>>).out)
  <2>1. Text(printint(n, 10, TRUE)) /\ Text(printint(n, 16, FALSE))
    BY IntIsText
  <2>2. Text(<<"0", "x">>)
    <3>1. <<"0", "x">> \in Seq({"0", "x"})
      OBVIOUS
    <3> QED BY <3>1 DEF Text
  <2>3. Text(<<"0", "x">> \o printint(n, 16, FALSE))
    BY <2>1, <2>2, ConcatIsText
  <2>4. /\ Converted("d", n) = printint(n, 10, TRUE)
        /\ Converted("x", n) = <<"0", "x">> \o printint(n, 16, FALSE)
    BY DEF Converted
  <2> QED BY <2>1, <2>3, <2>4, DirectiveOutput
<1>2. ASSUME NEW s, Text(s) PROVE Text(printf(<<DOLLAR, "%", "s", NEWLINE>>, <<s>>).out)
  <2>1. Converted("s", s) = s
    BY DEF Converted
  <2> QED BY <1>2, <2>1, DirectiveOutput
<1>3. Text(<<DOLLAR, NEWLINE>>) /\ Text(printf(<<DOLLAR, NEWLINE>>, <<>>).out)
  <2>1. PICK format : format = <<DOLLAR, NEWLINE>>
    OBVIOUS
  <2>2. /\ format \in Seq({DOLLAR, NEWLINE}) /\ Len(format) = 2
        /\ format[1] # "%" /\ format[2] # "%"
    BY <2>1, ShellConstants
  <2>3. Len(format) \in 1 .. INT_MAX /\ \A i \in 1 .. Len(format) : format[i] # "%"
    <3>1. INT_MAX \in Int
      BY ScreenSize DEF INT_MAX
    <3> QED BY <2>2, <3>1, LineFits
  <2>4. printf(format, <<>>).out = format
    BY <2>2, <2>3, PlainOutput
  <2> QED BY <2>1, <2>2, <2>4 DEF Text
<1>4. Text(version_text) /\ {seconds_passed, pm_start, pm_amount, pid} \subseteq Int
  BY ShownValues DEF Text
<1>5. /\ Text(cmd_uptime) /\ Text(cmd_mem) /\ Text(cmd_version) /\ Text(cmd_getpid)
      /\ Text(cmd_logo) /\ Text(cmd_unknown(name))
  BY <1>1, <1>2, <1>3, <1>4, ConcatIsText
     DEF cmd_uptime, cmd_mem, cmd_version, cmd_getpid, cmd_logo, cmd_unknown
<1> QED BY <1>5 DEF Output

(***************************************************************************)
(* The line on the screen.                                                 *)
(***************************************************************************)

\* The k cells before the cursor hold text, as far as they are still there.
Holds(t, text, k) ==
    \A i \in 1 .. k :
       Position(t) - k + i - 1 \in Cells => t.buffer[Position(t) - k + i - 1] = text[i]

LEMMA PositionIsCell ==
    ASSUME NEW t, OnScreen(t)
    PROVE  Position(t) \in Cells /\ Position(t) \in Nat
<1>1. PICK x, y, b, s : t = Screen(x, y, b, s) /\ x \in Columns /\ y \in Rows
  BY DEF OnScreen
<1> QED BY <1>1, Positions, CellAt, ScreenSize DEF Cells

LEMMA LetterHolds ==
    ASSUME NEW t, OnScreen(t), NEW ch, ch \notin {NEWLINE, NUL}, NEW text, NEW k \in Nat,
           Holds(t, text, k), text[k + 1] = ch
    PROVE  Holds(terminal_putchar(t, ch), text, k + 1)
<1>1. PICK u : u = terminal_putchar(t, ch)
  OBVIOUS
<1>2. PICK n \in {0, VGA_WIDTH} :
        /\ Position(u) = Position(t) + 1 - n
        /\ \A c \in Cells : c + n \in Cells =>
              u.buffer[c] = IF c + n = Position(t) THEN ch ELSE t.buffer[c + n]
  BY <1>1, LetterAdvances
<1>3. n \in Nat /\ Position(t) \in Nat /\ Position(t) \in Cells
  BY PositionIsCell, ScreenSize
<1>4. PICK p : p = Position(t)
  OBVIOUS
<1>5. PICK top \in Nat : Cells = 0 .. (top - 1)
  BY ScreenSize DEF Cells
<1> SUFFICES ASSUME NEW i \in 1 .. (k + 1), Position(u) - (k + 1) + i - 1 \in Cells
             PROVE  u.buffer[Position(u) - (k + 1) + i - 1] = text[i]
  BY <1>1 DEF Holds
<1>6. PICK c : c = Position(u) - (k + 1) + i - 1
  OBVIOUS
<1>7. c \in Cells /\ c \in Nat /\ c + n = p - k + i - 1 /\ c + n \in Cells
  BY <1>2, <1>3, <1>4, <1>5, <1>6
<1>8. u.buffer[c] = IF c + n = p THEN ch ELSE t.buffer[c + n]
  BY <1>2, <1>4, <1>7
<1>9. CASE i = k + 1
  <2>1. c + n = p
    BY <1>3, <1>4, <1>7, <1>9
  <2> QED BY <1>6, <1>8, <1>9, <2>1
<1>10. CASE i # k + 1
  <2>1. i \in 1 .. k /\ c + n # p
    BY <1>3, <1>4, <1>7, <1>10
  <2>2. t.buffer[p - k + i - 1] = text[i]
    BY <1>4, <1>7, <2>1 DEF Holds
  <2> QED BY <1>6, <1>7, <1>8, <2>1, <2>2
<1> QED BY <1>9, <1>10

\* A line that fits on the screen never leaves its top.
LEMMA LetterLeavesRoom ==
    ASSUME NEW t, OnScreen(t), NEW ch, ch \notin {NEWLINE, NUL}, NEW k \in Nat,
           Position(t) >= k, k + 1 <= (VGA_HEIGHT - 1) * VGA_WIDTH
    PROVE  Position(terminal_putchar(t, ch)) >= k + 1
<1>1. PICK n \in {0, VGA_WIDTH} :
        /\ Position(terminal_putchar(t, ch)) = Position(t) + 1 - n
        /\ n = VGA_WIDTH => Position(t) + 1 = VGA_WIDTH * VGA_HEIGHT
  BY LetterAdvances
<1>2. Position(t) \in Nat
  BY PositionIsCell
<1>3. /\ (VGA_HEIGHT - 1) * VGA_WIDTH = VGA_WIDTH * VGA_HEIGHT - VGA_WIDTH
      /\ VGA_WIDTH \in Nat /\ VGA_WIDTH * VGA_HEIGHT \in Nat
  <2>1. PICK x \in Columns, y \in Rows : TRUE
    BY DEF OnScreen
  <2> QED BY <2>1, CellAt, ScreenSize
<1>4. PICK m : m = VGA_WIDTH * VGA_HEIGHT
  OBVIOUS
<1>5. PICK l : l = (VGA_HEIGHT - 1) * VGA_WIDTH
  OBVIOUS
<1>6. l = m - VGA_WIDTH /\ m \in Nat /\ k + 1 <= l /\ (n = VGA_WIDTH => Position(t) + 1 = m)
  BY <1>1, <1>3, <1>4, <1>5
<1>7. CASE n = 0
  BY <1>1, <1>2, <1>7
<1>8. CASE n = VGA_WIDTH
  BY <1>1, <1>2, <1>3, <1>6, <1>8
<1> QED BY <1>7, <1>8

LEMMA BackspaceHolds ==
    ASSUME NEW t, OnScreen(t), Position(t) > 0, NEW text, NEW k \in Nat, Holds(t, text, k + 1)
    PROVE  Holds(terminal_backspace(t), text, k)
<1>1. PICK u : u = terminal_backspace(t)
  OBVIOUS
<1>2. /\ Position(u) = Position(t) - 1 /\ Position(t) \in Nat
      /\ \A c \in Cells : u.buffer[c] = IF c = Position(t) - 1 THEN BLANK ELSE t.buffer[c]
  BY <1>1, BackspaceClears, PositionIsCell
<1>3. PICK p : p = Position(t)
  OBVIOUS
<1> SUFFICES ASSUME NEW i \in 1 .. k, Position(u) - k + i - 1 \in Cells
             PROVE  u.buffer[Position(u) - k + i - 1] = text[i]
  BY <1>1 DEF Holds
<1>4. PICK c : c = Position(u) - k + i - 1
  OBVIOUS
<1>5. c \in Cells /\ c = p - (k + 1) + i - 1 /\ c # p - 1 /\ i \in 1 .. (k + 1)
  BY <1>2, <1>3, <1>4
<1>6. t.buffer[c] = text[i]
  BY <1>3, <1>5 DEF Holds
<1> QED BY <1>2, <1>3, <1>4, <1>5, <1>6

LEMMA SameHolds ==
    ASSUME NEW t, NEW a, NEW b, NEW k \in Nat, Holds(t, a, k), \A i \in 1 .. k : a[i] = b[i]
    PROVE  Holds(t, b, k)
  BY DEF Holds

\* The prompt and the characters of a line.
Prompted(s) == <<DOLLAR, BLANK>> \o s

LEMMA PromptedIs ==
    ASSUME NEW S, NEW s \in Seq(S)
    PROVE  /\ Len(Prompted(s)) = Len(s) + 2
           /\ Prompted(s)[1] = DOLLAR /\ Prompted(s)[2] = BLANK
           /\ \A i \in 3 .. (Len(s) + 2) : Prompted(s)[i] = s[i - 2]
<1>1. PICK prompt : prompt = <<DOLLAR, BLANK>>
  OBVIOUS
<1>2. PICK U : U = S \cup {DOLLAR, BLANK}
  OBVIOUS
<1>3. prompt \in Seq(U) /\ Len(prompt) = 2 /\ prompt[1] = DOLLAR /\ prompt[2] = BLANK
  BY <1>1, <1>2
<1>4. s \in Seq(U)
  BY <1>2
<1>5. /\ Len(prompt \o s) = Len(prompt) + Len(s)
      /\ \A i \in 1 .. Len(prompt) + Len(s) : (prompt \o s)[i] =
            IF i <= Len(prompt) THEN prompt[i] ELSE s[i - Len(prompt)]
  BY <1>3, <1>4, ConcatProperties
<1>6. PICK e, n : e = prompt \o s /\ n = Len(s)
  OBVIOUS
<1>7. /\ n \in Nat /\ Len(e) = n + 2
      /\ \A i \in 1 .. (n + 2) : e[i] = IF i <= 2 THEN prompt[i] ELSE s[i - 2]
  BY <1>3, <1>5, <1>6
<1>8. \A i \in 3 .. (n + 2) : i \in 1 .. (n + 2) /\ ~(i <= 2)
  OBVIOUS
<1> QED BY <1>1, <1>3, <1>6, <1>7, <1>8 DEF Prompted

LEMMA MarginIs ==
    /\ MARGIN \in Nat /\ MARGIN <= VGA_WIDTH + 2
    /\ MARGIN + (CMD_BUF_SIZE - 1) <= (VGA_HEIGHT - 1) * VGA_WIDTH
    /\ (VGA_HEIGHT - 1) * VGA_WIDTH \in Nat /\ CMD_BUF_SIZE \in Nat \ {0}
<1>1. PICK l : l = (VGA_HEIGHT - 1) * VGA_WIDTH
  OBVIOUS
<1>2. l \in Int /\ CMD_BUF_SIZE \in Nat \ {0} /\ CMD_BUF_SIZE - 1 <= l /\ VGA_WIDTH \in Nat
  BY <1>1, ScreenSize, ShellConstants, LineFits
<1>3. PICK room : room = l - (CMD_BUF_SIZE - 1)
  OBVIOUS
<1>4. MARGIN = IF VGA_WIDTH + 2 <= room THEN VGA_WIDTH + 2 ELSE room
  BY <1>1, <1>3 DEF MARGIN
<1>5. room \in Nat /\ l \in Nat /\ room + (CMD_BUF_SIZE - 1) = l
  BY <1>2, <1>3
<1>6. MARGIN \in Nat /\ MARGIN <= VGA_WIDTH + 2 /\ MARGIN <= room
  BY <1>2, <1>4, <1>5
<1>7. MARGIN + (CMD_BUF_SIZE - 1) <= l
  BY <1>2, <1>5, <1>6
<1> QED BY <1>1, <1>2, <1>5, <1>6, <1>7

\* The cursor of a line s of which k keys without a character were erased.
InLine(t, s, k) ==
    /\ OnScreen(t) /\ k <= MARGIN
    /\ Position(t) + k >= Len(s) + MARGIN
    /\ k = 0 => Holds(t, Prompted(s), Len(s) + 2)

\* The cursor is at least a row and two cells from the top after a prompt, or
\* on the last row.
LEMMA PromptLeavesRoom ==
    ASSUME NEW t, OnScreen(t)
    PROVE  LET u == terminal_putchar(t, NEWLINE)
           IN  \/ Position(u) >= VGA_WIDTH
               \/ Position(u) = (VGA_HEIGHT - 1) * VGA_WIDTH
<1> DEFINE x == t.x
           y == t.y
           b == t.buffer
           s == t.stray
<1>1. x \in Columns /\ y \in Rows /\ IsBuffer(b) /\ t = Screen(x, y, b, s) /\ ~s
  BY DEF OnScreen
<1>2. /\ 0 \in Columns /\ VGA_HEIGHT - 1 \in Rows /\ VGA_WIDTH \in Nat
      /\ y + 1 # VGA_HEIGHT => y + 1 \in Rows
  BY <1>1, ScreenSize DEF Columns, Rows
<1> HIDE DEF x, y, b, s
<1>3. terminal_putchar(t, NEWLINE) =
         IF y + 1 # VGA_HEIGHT THEN Screen(0, y + 1, b, s)
         ELSE Screen(0, VGA_HEIGHT - 1, Shift(b), s)
  BY <1>1, PutNewline
<1>4. CASE y + 1 # VGA_HEIGHT
  <2>1. PICK z : z = y + 1
    OBVIOUS
  <2>2. Position(Screen(0, z, b, s)) = z * VGA_WIDTH + 0
    BY <1>2, <1>4, <2>1, Positions
  <2>3. z * VGA_WIDTH = y * VGA_WIDTH + VGA_WIDTH /\ y * VGA_WIDTH \in Nat
    BY <1>1, <2>1, CellAt
  <2>4. z * VGA_WIDTH + 0 >= VGA_WIDTH
    BY <1>2, <2>3
  <2> QED BY <1>3, <1>4, <2>1, <2>2, <2>4
<1>5. CASE y + 1 = VGA_HEIGHT
  <2>1. PICK z, c : z = VGA_HEIGHT - 1 /\ c = Shift(b)
    OBVIOUS
  <2>2. Position(Screen(0, z, c, s)) = z * VGA_WIDTH + 0
    BY <1>2, <2>1, Positions
  <2>3. z * VGA_WIDTH + 0 = (VGA_HEIGHT - 1) * VGA_WIDTH
    BY <2>1, MarginIs
  <2> QED BY <1>3, <1>5, <2>1, <2>2, <2>3
<1> QED BY <1>4, <1>5

\* The prompt on the screen.
LEMMA PromptInLine ==
    ASSUME NEW t, OnScreen(t)
    PROVE  InLine(terminal_write(t, printf(<<NEWLINE, DOLLAR, BLANK>>, <<>>).out), <<>>, 0)
<1>1. PICK format : format = <<NEWLINE, DOLLAR, BLANK>>
  OBVIOUS
<1>2. /\ format \in Seq({NEWLINE, DOLLAR, BLANK}) /\ Len(format) = 3 /\ DOMAIN format = 1 .. 3
      /\ format[1] = NEWLINE /\ format[2] = DOLLAR /\ format[3] = BLANK
      /\ format[1] # "%" /\ format[2] # "%" /\ format[3] # "%"
  BY <1>1, ShellConstants
<1>3. Len(format) \in 1 .. INT_MAX /\ \A i \in 1 .. Len(format) : format[i] # "%"
  <2>1. INT_MAX \in Int
    BY ScreenSize DEF INT_MAX
  <2> QED BY <1>2, <2>1, LineFits
<1>4. printf(format, <<>>).out = format
  BY <1>2, <1>3, PlainOutput
<1>5. PICK f : Steps(f, t, format, 3)
  BY <1>2, WriteSteps
<1>6. /\ f[0] = t /\ f[1] = terminal_putchar(f[0], NEWLINE)
      /\ f[2] = terminal_putchar(f[1], DOLLAR) /\ f[3] = terminal_putchar(f[2], BLANK)
      /\ terminal_write(t, format) = f[3]
  <2>1. /\ 1 \in 1 .. 3 /\ 2 \in 1 .. 3 /\ 3 \in 1 .. 3
        /\ 1 - 1 = 0 /\ 2 - 1 = 1 /\ 3 - 1 = 2
    OBVIOUS
  <2> QED BY <1>2, <1>5, <2>1 DEF Steps
<1>7. OnScreen(f[1]) /\ OnScreen(f[2]) /\ OnScreen(f[3])
  BY <1>6, PutStays
<1>8. DOLLAR \notin {NEWLINE, NUL} /\ BLANK \notin {NEWLINE, NUL}
  BY ShellConstants, ScreenSize
<1>9. PICK text : text = Prompted(<<>>)
  OBVIOUS
<1>10. text[1] = DOLLAR /\ text[2] = BLANK
  <2>1. <<>> \in Seq({DOLLAR})
    OBVIOUS
  <2> QED BY <1>9, <2>1, PromptedIs
<1>11. Holds(f[3], text, 2)
  <2>1. Holds(f[1], text, 0)
    BY DEF Holds
  <2>2. Holds(f[2], text, 0 + 1)
    <3>1. text[0 + 1] = DOLLAR
      BY <1>10
    <3> QED BY <1>6, <1>7, <1>8, <2>1, <3>1, LetterHolds
  <2>3. Holds(f[3], text, 1 + 1)
    <3>1. text[1 + 1] = BLANK /\ Holds(f[2], text, 1)
      BY <1>10, <2>2
    <3> QED BY <1>6, <1>7, <1>8, <3>1, LetterHolds
  <2> QED BY <2>3
<1>12. PICK l, m \in Nat : /\ l = (VGA_HEIGHT - 1) * VGA_WIDTH /\ m = MARGIN
                           /\ m <= l /\ m <= VGA_WIDTH + 2 /\ VGA_WIDTH \in Nat
  BY MarginIs, ScreenSize
<1>13. Position(f[1]) \in Nat /\ Position(f[2]) \in Nat /\ Position(f[3]) \in Nat
  BY <1>7, PositionIsCell
<1>14. m <= 2 \/ Position(f[1]) >= m - 2
  <2>1. Position(f[1]) >= VGA_WIDTH \/ Position(f[1]) = l
    BY <1>6, <1>12, PromptLeavesRoom
  <2> QED BY <1>12, <1>13, <2>1
<1>15. m <= 1 \/ Position(f[2]) >= m - 1
  <2>1. CASE m <= 1
    BY <2>1
  <2>2. CASE ~(m <= 1)
    <3>1. PICK k \in Nat : k = m - 2
      BY <2>2
    <3>2. Position(f[1]) >= k /\ k + 1 <= l /\ k + 1 = m - 1
      BY <1>12, <1>13, <1>14, <2>2, <3>1
    <3>3. Position(f[2]) >= k + 1
      BY <1>6, <1>7, <1>8, <1>12, <3>2, LetterLeavesRoom
    <3> QED BY <3>2, <3>3
  <2> QED BY <2>1, <2>2
<1>16. Position(f[3]) >= m
  <2>1. CASE m = 0
    BY <1>13, <2>1
  <2>2. CASE m # 0
    <3>1. PICK k \in Nat : k = m - 1
      BY <2>2
    <3>2. Position(f[2]) >= k /\ k + 1 <= l /\ k + 1 = m
      BY <1>12, <1>13, <1>15, <2>2, <3>1
    <3>3. Position(f[3]) >= k + 1
      BY <1>6, <1>7, <1>8, <1>12, <3>2, LetterLeavesRoom
    <3> QED BY <3>2, <3>3
  <2> QED BY <2>1, <2>2
<1>17. 0 <= m /\ Position(f[3]) + 0 >= 0 + m /\ 0 + 2 = 2 /\ Len(<<>>) = 0
  BY <1>13, <1>16
<1>18. InLine(f[3], <<>>, 0)
  BY <1>7, <1>9, <1>11, <1>12, <1>17 DEF InLine
<1> QED BY <1>1, <1>4, <1>6, <1>18

\* A character behind the line.
LEMMA TypeInLine ==
    ASSUME NEW S, NEW s \in Seq(S), NEW ch \in S, ch \notin {NEWLINE, NUL},
           NEW t, NEW k \in Nat, InLine(t, s, k), Len(s) + 1 <= CMD_BUF_SIZE - 1
    PROVE  InLine(terminal_putchar(t, ch), Append(s, ch), k)
<1>1. PICK u, r : u = terminal_putchar(t, ch) /\ r = Append(s, ch)
  OBVIOUS
<1>2. PICK n \in Nat : n = Len(s)
  OBVIOUS
<1>3. r \in Seq(S) /\ Len(r) = n + 1 /\ r[n + 1] = ch /\ \A i \in 1 .. n : r[i] = s[i]
  BY <1>1, <1>2, AppendProperties
<1>4. OnScreen(t) /\ OnScreen(u) /\ k <= MARGIN
  BY <1>1, PutStays DEF InLine
<1>5. Position(t) \in Nat /\ Position(u) \in Nat
  BY <1>4, PositionIsCell
<1>6. Position(u) + k >= (n + 1) + MARGIN
  <2>1. PICK l, m \in Nat : l = (VGA_HEIGHT - 1) * VGA_WIDTH /\ m = MARGIN
    BY MarginIs
  <2>2. m + (CMD_BUF_SIZE - 1) <= l /\ CMD_BUF_SIZE \in Nat
    BY <2>1, MarginIs
  <2>3. PICK j \in Nat : j = n + m - k
    BY <1>4, <2>1
  <2>4. Position(t) >= j
    BY <1>2, <1>4, <1>5, <2>1, <2>3 DEF InLine
  <2>5. j + 1 <= l
    BY <1>2, <2>2, <2>3
  <2>6. Position(u) >= j + 1
    BY <1>1, <1>4, <2>1, <2>4, <2>5, LetterLeavesRoom
  <2> QED BY <1>5, <2>1, <2>3, <2>6
<1>7. ASSUME k = 0 PROVE Holds(u, Prompted(r), (n + 1) + 2)
  <2>1. PICK old, new : old = Prompted(s) /\ new = Prompted(r)
    OBVIOUS
  <2>2. old[1] = DOLLAR /\ old[2] = BLANK /\ \A i \in 3 .. (n + 2) : old[i] = s[i - 2]
    BY <1>2, <2>1, PromptedIs
  <2>3. new[1] = DOLLAR /\ new[2] = BLANK /\ \A i \in 3 .. ((n + 1) + 2) : new[i] = r[i - 2]
    BY <1>3, <2>1, PromptedIs
  <2>4. \A i \in 1 .. (n + 2) : old[i] = new[i]
    <3> SUFFICES ASSUME NEW i \in 1 .. (n + 2) PROVE old[i] = new[i]
      OBVIOUS
    <3>1. i = 1 \/ i = 2 \/ (i \in 3 .. (n + 2) /\ i \in 3 .. ((n + 1) + 2) /\ i - 2 \in 1 .. n)
      OBVIOUS
    <3> QED BY <1>3, <2>2, <2>3, <3>1
  <2>5. new[(n + 2) + 1] = ch
    <3>1. (n + 2) + 1 \in 3 .. ((n + 1) + 2) /\ ((n + 2) + 1) - 2 = n + 1
      OBVIOUS
    <3> QED BY <1>3, <2>3, <3>1
  <2>6. Holds(t, old, n + 2)
    BY <1>2, <1>7, <2>1 DEF InLine
  <2>7. Holds(t, new, n + 2)
    BY <2>4, <2>6, SameHolds
  <2>8. Holds(u, new, (n + 2) + 1)
    BY <1>1, <1>4, <2>5, <2>7, LetterHolds
  <2>9. (n + 2) + 1 = (n + 1) + 2
    OBVIOUS
  <2> QED BY <2>1, <2>8, <2>9
<1> QED BY <1>1, <1>3, <1>4, <1>6, <1>7 DEF InLine

\* Erasing the last character of the line; erasing a key without one.
LEMMA EraseInLine ==
    ASSUME NEW S, NEW s \in Seq(S), NEW n \in Nat, Len(s) = n + 1,
           NEW r \in Seq(S), Len(r) = n, \A i \in 1 .. n : r[i] = s[i],
           NEW t, NEW k \in Nat, InLine(t, s, k)
    PROVE  InLine(terminal_backspace(t), r, k)
<1>1. PICK u : u = terminal_backspace(t)
  OBVIOUS
<1>2. PICK m \in Nat : m = MARGIN
  BY MarginIs
<1>3. OnScreen(t) /\ k <= m /\ Position(t) + k >= (n + 1) + m
  BY <1>2 DEF InLine
<1>4. Position(t) \in Nat /\ Position(t) > 0
  <2>1. Position(t) \in Nat
    BY <1>3, PositionIsCell
  <2> QED BY <1>3, <2>1
<1>5. OnScreen(u) /\ Position(u) = Position(t) - 1
  BY <1>1, <1>3, <1>4, BackspaceClears
<1>6. Position(u) + k >= n + m
  BY <1>3, <1>4, <1>5
<1>7. ASSUME k = 0 PROVE Holds(u, Prompted(r), n + 2)
  <2>1. PICK old, new : old = Prompted(s) /\ new = Prompted(r)
    OBVIOUS
  <2>2. old[1] = DOLLAR /\ old[2] = BLANK /\ \A i \in 3 .. ((n + 1) + 2) : old[i] = s[i - 2]
    BY <2>1, PromptedIs
  <2>3. new[1] = DOLLAR /\ new[2] = BLANK /\ \A i \in 3 .. (n + 2) : new[i] = r[i - 2]
    BY <2>1, PromptedIs
  <2>4. \A i \in 1 .. (n + 2) : old[i] = new[i]
    <3> SUFFICES ASSUME NEW i \in 1 .. (n + 2) PROVE old[i] = new[i]
      OBVIOUS
    <3>1. i = 1 \/ i = 2 \/ (i \in 3 .. (n + 2) /\ i \in 3 .. ((n + 1) + 2) /\ i - 2 \in 1 .. n)
      OBVIOUS
    <3> QED BY <2>2, <2>3, <3>1
  <2>5. Holds(t, old, (n + 2) + 1)
    <3>1. (n + 2) + 1 = (n + 1) + 2
      OBVIOUS
    <3> QED BY <1>7, <2>1, <3>1 DEF InLine
  <2>6. Holds(u, old, n + 2)
    BY <1>1, <1>3, <1>4, <2>5, BackspaceHolds
  <2>7. Holds(u, new, n + 2)
    BY <2>4, <2>6, SameHolds
  <2> QED BY <2>1, <2>7
<1> QED BY <1>1, <1>2, <1>3, <1>5, <1>6, <1>7 DEF InLine

LEMMA SlipInLine ==
    ASSUME NEW S, NEW s \in Seq(S), NEW t, NEW k \in Nat, InLine(t, s, k), k + 1 <= MARGIN
    PROVE  InLine(terminal_backspace(t), s, k + 1)
<1>1. PICK u : u = terminal_backspace(t)
  OBVIOUS
<1>2. PICK m \in Nat, n \in Nat : m = MARGIN /\ n = Len(s)
  <2>1. MARGIN \in Nat /\ Len(s) \in Nat
    BY MarginIs
  <2> QED BY <2>1
<1>3. OnScreen(t) /\ k + 1 <= m /\ Position(t) + k >= n + m
  BY <1>2 DEF InLine
<1>4. Position(t) \in Nat /\ Position(t) > 0
  <2>1. Position(t) \in Nat
    BY <1>3, PositionIsCell
  <2> QED BY <1>3, <2>1
<1>5. OnScreen(u) /\ Position(u) = Position(t) - 1
  BY <1>1, <1>3, <1>4, BackspaceClears
<1>6. Position(u) + (k + 1) >= n + m /\ k + 1 # 0
  BY <1>3, <1>4, <1>5
<1> QED BY <1>1, <1>2, <1>3, <1>5, <1>6 DEF InLine

\* The inductive invariant: the cursor is far enough from the top for the
\* characters of the line and for the slips that are left.
Display ==
    /\ LineBuffer
    /\ ~overrun => OnScreen(term) /\ (pc = "input" => InLine(term, visible, slips))

\* An empty screen.
LEMMA BlankScreen ==
    ASSUME NEW s, ~s
    PROVE  OnScreen(Screen(0, 0, [i \in Cells |-> BLANK], s))
<1>1. 0 \in Columns /\ 0 \in Rows
  BY ScreenSize DEF Columns, Rows
<1>2. PICK b : b = [i \in Cells |-> BLANK]
  OBVIOUS
<1>3. IsBuffer(b)
  BY <1>2 DEF IsBuffer
<1> QED BY <1>1, <1>2, <1>3, ScreenIsOn

LEMMA DisplayInit == Init => Display
<1> SUFFICES ASSUME Init PROVE Display
  OBVIOUS
<1>1. LineBuffer
  BY BufferInit
<1>2. PICK s : s = FALSE
  OBVIOUS
<1>3. term = Screen(0, 0, [i \in Cells |-> BLANK], s)
  BY <1>2, Zenon DEF Init, terminal_initialize, Screen
<1>4. OnScreen(term)
  BY <1>2, <1>3, BlankScreen
<1> QED BY <1>1, <1>4 DEF Display, Init

LEMMA DisplayNext ==
    ASSUME Display, [Next]_vars
    PROVE  Display'
<1>0. LineBuffer' /\ LineBuffer /\ Buffer /\ Record
  BY BufferNext DEF Display, LineBuffer
<1> SUFFICES ASSUME ~overrun'
             PROVE  OnScreen(term') /\ (pc' = "input" => InLine(term', visible', slips'))
  BY <1>0 DEF Display
<1>1. CASE output_prompt
  <2>1. ~overrun /\ visible' = <<>> /\ slips' = 0
    BY <1>1 DEF output_prompt
  <2>2. OnScreen(term)
    BY <2>1 DEF Display
  <2>3. InLine(term', <<>>, 0)
    BY <1>1, <2>2, PromptInLine DEF output_prompt
  <2> QED BY <2>1, <2>3 DEF InLine
<1>2. ASSUME NEW ch \in Keys, wait_for_command(ch)
      PROVE  OnScreen(term') /\ (pc' = "input" => InLine(term', visible', slips'))
  <2>1. pc = "input" /\ overrun' = (overrun \/ slips' > MARGIN)
    BY <1>0, <1>2, KeysRecorded
  <2>2. ~overrun /\ ~(slips' > MARGIN)
    BY <2>1, Zenon
  <2>3. OnScreen(term) /\ InLine(term, visible, slips)
    BY <2>1, <2>2 DEF Display
  <2>4. /\ typed \in Seq(Keys) /\ visible \in Seq(Keys) /\ slips \in Nat
        /\ buf_location = Len(typed) /\ HasCount(typed, Len(visible))
    BY <1>0, <2>1 DEF Record
  <2> SUFFICES OnScreen(term') /\ (pc' = "input" => InLine(term', visible', slips'))
    OBVIOUS
  <2>5. CASE ch = NEWLINE
    <3>1. enter
      BY <1>0, <1>2, <2>5, KeysRecorded
    <3>2. OnScreen(term') /\ pc' = "process"
      BY <2>3, <3>1, PutStays DEF enter
    <3> QED BY <3>2
  <2>6. CASE ch = BACKSPACE /\ buf_location > 0
    <3>1. backspace /\ EraseKey
      BY <1>0, <1>2, <2>6, KeysRecorded
    <3>2. term' = terminal_backspace(term)
      BY <2>6, <3>1 DEF backspace
    <3>3. CASE typed[Len(typed)] = NUL
      <4>1. visible' = visible /\ slips' = slips + 1
        BY <3>1, <3>3 DEF EraseKey
      <4>2. slips + 1 <= MARGIN
        BY <2>2, <2>4, <4>1, MarginIs
      <4>3. InLine(term', visible, slips + 1)
        BY <2>3, <2>4, <3>2, <4>2, SlipInLine
      <4> QED BY <4>1, <4>3 DEF InLine
    <3>4. CASE typed[Len(typed)] # NUL
      <4>1. visible' = SubSeq(visible, 1, Len(visible) - 1) /\ slips' = slips
        BY <3>1, <3>4 DEF EraseKey
      <4>2. PICK k \in Nat : Len(typed) = k + 1
        <5>1. Len(typed) - 1 \in Nat /\ Len(typed) = (Len(typed) - 1) + 1
          BY <2>4, <2>6
        <5> QED BY <5>1
      <4>3. PICK s \in Seq(Keys), v \in Seq(Keys), m \in Nat :
               s = typed /\ v = visible /\ m = Len(v)
        BY <2>4
      <4>4. m > 0
        <5>1. PICK r : r = SubSeq(s, 1, Len(s) - 1)
          OBVIOUS
        <5>2. Len(r) = k /\ \A i \in 1 .. k : r[i] = s[i]
          BY <4>2, <4>3, <5>1, AllButLast
        <5>3. HasCount(s, m) /\ Len(s) = k + 1 /\ s[k + 1] # NUL
          BY <2>4, <3>4, <4>2, <4>3
        <5> QED BY <5>2, <5>3, CountErase
      <4>5. PICK n \in Nat : m = n + 1
        <5>1. m - 1 \in Nat /\ m = (m - 1) + 1
          BY <4>4
        <5> QED BY <5>1
      <4>6. PICK w : w = SubSeq(v, 1, Len(v) - 1)
        OBVIOUS
      <4>7. w \in Seq(Keys) /\ Len(w) = n /\ \A i \in 1 .. n : w[i] = v[i]
        <5>1. Len(v) = n + 1
          BY <4>3, <4>5
        <5> QED BY <4>6, <5>1, AllButLast
      <4>8. InLine(term', w, slips)
        BY <2>3, <2>4, <3>2, <4>3, <4>5, <4>7, EraseInLine
      <4>9. visible' = w
        BY <4>1, <4>3, <4>6
      <4> QED BY <4>1, <4>8, <4>9 DEF InLine
    <3> QED BY <3>3, <3>4
  <2>7. CASE ch \notin {NEWLINE, BACKSPACE} /\ buf_location < CMD_BUF_SIZE - 1
    <3>1. character(ch) /\ TypeKey(ch)
      BY <1>0, <1>2, <2>7, KeysRecorded
    <3>2. /\ term' = terminal_putchar(term, ch) /\ slips' = slips
          /\ visible' = IF ch = NUL THEN visible ELSE Append(visible, ch)
      BY <2>7, <3>1 DEF character, TypeKey
    <3>3. CASE ch = NUL
      <4>1. terminal_putchar(term, NUL) = term
        <5>1. PICK x, y, b, s : x \in Columns /\ y \in Rows /\ IsBuffer(b) /\ term = Screen(x, y, b, s)
          BY <2>3 DEF OnScreen
        <5> QED BY <5>1, PutNewline
      <4> QED BY <2>3, <3>2, <3>3, <4>1
    <3>4. CASE ch # NUL
      <4>1. PICK v \in Seq(Keys) : v = visible
        BY <2>4
      <4>2. Len(v) + 1 <= CMD_BUF_SIZE - 1
        <5>1. Len(v) <= Len(typed)
          BY <2>4, <4>1, CountBound
        <5> QED BY <2>4, <2>7, <4>1, <5>1, MarginIs
      <4>3. InLine(term', Append(v, ch), slips)
        BY <2>3, <2>4, <2>7, <3>2, <3>4, <4>1, <4>2, TypeInLine
      <4> QED BY <3>2, <3>4, <4>1, <4>3 DEF InLine
    <3> QED BY <3>3, <3>4
  <2>8. CASE \/ ch = BACKSPACE /\ ~(buf_location > 0)
             \/ ch \notin {NEWLINE, BACKSPACE} /\ ~(buf_location < CMD_BUF_SIZE - 1)
    <3>1. UNCHANGED <<term, visible, slips>>
      BY <1>0, <1>2, <2>8, KeysRecorded DEF backspace, character
    <3> QED BY <2>3, <3>1
  <2> QED BY <2>5, <2>6, <2>7, <2>8
<1>3. CASE process_command
  <2>0. ~overrun /\ OnScreen(term)
    BY <1>3 DEF process_command, ghosts, Display
  <2>1. PICK name : name = CString(command_buf)
    OBVIOUS
  <2>2. term' = (IF name = clear THEN terminal_clearscreen(term)
                 ELSE terminal_write(term, Output(name))) /\ pc' = "prompt"
    BY <1>3, <2>1 DEF process_command
  <2>3. Text(name)
    <3>1. CMD_BUF_SIZE - 1 \in Indices /\ command_buf[CMD_BUF_SIZE - 1] = NUL
      BY <1>0, MarginIs DEF Buffer, Indices
    <3>2. PICK n \in 0 .. (CMD_BUF_SIZE - 1) : EndsAt(command_buf, n)
      BY <3>1, StringEnds
    <3>3. name = Line(command_buf, n)
      BY <2>1, <3>2, CStringIs
    <3>4. name \in Seq({command_buf[i - 1] : i \in 1 .. n})
      <4> DEFINE S == {command_buf[i - 1] : i \in 1 .. n}
      <4>1. \A i \in 1 .. n : command_buf[i - 1] \in S
        OBVIOUS
      <4> HIDE DEF S
      <4>2. name \in Seq(S)
        BY <3>3, <4>1, MarginIs DEF Line
      <4> QED BY <4>2 DEF S
    <3> QED BY <3>4 DEF Text
  <2>4. OnScreen(terminal_write(term, Output(name)))
    BY <2>0, <2>3, OutputIsText, WriteStays
  <2>5. OnScreen(terminal_clearscreen(term))
    <3>1. PICK s : s = term.stray
      OBVIOUS
    <3>2. ~s
      BY <2>0, <3>1 DEF OnScreen
    <3>3. terminal_clearscreen(term) = Screen(0, 0, [i \in Cells |-> BLANK], s)
      BY <3>1 DEF terminal_clearscreen, terminal_initialize, Screen
    <3> QED BY <3>2, <3>3, BlankScreen
  <2> QED BY <2>2, <2>4, <2>5
<1>4. CASE UNCHANGED vars
  BY <1>4 DEF Display, vars, ghosts
<1> QED BY <1>1, <1>2, <1>3, <1>4 DEF Next

\* Whatever keys are pressed, the cursor stays on the screen and every write
\* hits the text memory, through wrapping, scrolling, erasing and what the
\* commands print, unless more keys without a character are erased in one line
\* than MARGIN.
THEOREM CursorStaysOnScreen == Spec => []CursorWithinMargin
<1>1. Display /\ [Next]_vars => Display'
  BY DisplayNext
<1>2. Display => CursorWithinMargin
  BY ScreenSize DEF Display, OnScreen, CursorWithinMargin, CursorOnScreen, Columns, Rows
<1> QED BY <1>1, <1>2, DisplayInit, PTL DEF Spec

\* While a line is edited, the cells before the cursor hold the prompt and
\* the characters typed, with keys without a character among them too, until
\* one of those is erased.
THEOREM LineStaysOnScreen == Spec => []LineOnScreen
<1>1. Display /\ [Next]_vars => Display'
  BY DisplayNext
<1>2. Display => LineOnScreen
  <2> SUFFICES ASSUME Display, pc = "input", slips = 0, ~overrun PROVE LineOnScreen
    BY DEF LineOnScreen
  <2>1. PICK text, k : text = Shown /\ k = Len(visible) + 2
    OBVIOUS
  <2>2. Len(text) = k
    <3>1. visible \in Seq(Keys)
      BY DEF Display, LineBuffer, Record
    <3> QED BY <2>1, <3>1, PromptedIs DEF Shown, Prompted
  <2>3. Holds(term, text, k) /\ command_buf[CMD_BUF_SIZE - 1] = NUL
    BY <2>1 DEF Display, LineBuffer, Buffer, InLine, Shown, Prompted
  <2>4. \A i \in 1 .. Len(Shown) :
           Position(term) - Len(Shown) + i - 1 \in Cells =>
              term.buffer[Position(term) - Len(Shown) + i - 1] = Shown[i]
    BY <2>1, <2>2, <2>3 DEF Holds
  <2> QED BY <2>3, <2>4, Zenon DEF LineOnScreen
<1> QED BY <1>1, <1>2, DisplayInit, PTL DEF Spec

(***************************************************************************)
(* What the numerals denote.                                               *)
(***************************************************************************)
\* A sign in front.
LEMMA SignFirst ==
    ASSUME NEW S, NEW s \in Seq(S), NEW c \in S
    PROVE  Head(<<c>> \o s) = c /\ Tail(<<c>> \o s) = s
<1>1. PICK t : t = <<c>> \o s
  OBVIOUS
<1>2. t \in Seq(S) /\ Len(t) = Len(s) + 1 /\ Len(s) \in Nat
      /\ t[1] = c /\ \A i \in 1 .. Len(s) : t[i + 1] = s[i]
  BY <1>1
<1>3. t # <<>>
  BY <1>2
<1>4. Head(t) = c
  BY <1>2, <1>3
<1>5. Tail(t) \in Seq(S) /\ Len(Tail(t)) = Len(s) /\ \A i \in 1 .. Len(s) : Tail(t)[i] = s[i]
  BY <1>2, <1>3, HeadTailProperties
<1>6. Tail(t) = s
  BY <1>5
<1> QED BY <1>1, <1>4, <1>6

DigitChars == {digits[d] : d \in 1 .. 16}

\* f has the values of the beginnings of a numeral.
IsValue(f, s, base) ==
    f = [i \in 0 .. Len(s) |-> IF i = 0 THEN 0 ELSE f[i - 1] * base + DigitOf(s[i])]

\* The digits are told apart.
LEMMA DigitValue ==
    ASSUME NEW d \in 0 .. 15
    PROVE  /\ digits[d + 1] \in DigitChars
           /\ DigitOf(digits[d + 1]) = d
           /\ digits[d + 1] = "0" => d = 0
<1>1. d + 1 \in 1 .. 16 /\ d = (d + 1) - 1
  OBVIOUS
<1>2. \A i, j \in 1 .. 16 : digits[i] = digits[j] => i = j
  BY DEF digits
<1>3. PICK e : e = CHOOSE i \in 1 .. 16 : digits[i] = digits[d + 1]
  OBVIOUS
<1>4. e \in 1 .. 16 /\ digits[e] = digits[d + 1]
  BY <1>1, <1>3
<1>5. e = d + 1
  BY <1>1, <1>2, <1>4
<1>6. digits[1] = "0" /\ 1 \in 1 .. 16
  BY DEF digits
<1>7. digits[d + 1] = "0" => d + 1 = 1
  BY <1>1, <1>2, <1>6
<1>8. DigitOf(digits[d + 1]) = e - 1
  BY <1>3, Zenon DEF DigitOf
<1>9. digits[d + 1] \in DigitChars
  BY <1>1 DEF DigitChars
<1> QED BY <1>1, <1>5, <1>7, <1>8, <1>9

\* The last digit and the others.
LEMMA LastDigit ==
    ASSUME NEW base \in {10, 16}, NEW n \in Nat
    PROVE  /\ n % base \in 0 .. 15
           /\ n = (n \div base) * base + (n % base)
<1>1. CASE base = 10
  BY <1>1
<1>2. CASE base = 16
  BY <1>2
<1> QED BY <1>1, <1>2

\* The reverse of a sequence with one more in front.
LEMMA ReverseCons ==
    ASSUME NEW S, NEW s \in Seq(S), NEW c \in S
    PROVE  /\ Reverse(s) \in Seq(S) /\ Len(Reverse(s)) = Len(s)
           /\ Reverse(<<c>> \o s) \in Seq(S) /\ Len(Reverse(<<c>> \o s)) = Len(s) + 1
           /\ \A i \in 1 .. Len(s) : Reverse(<<c>> \o s)[i] = Reverse(s)[i]
           /\ Reverse(<<c>> \o s)[Len(s) + 1] = c
<1>1. PICK t : t = <<c>> \o s
  OBVIOUS
<1>2. t \in Seq(S) /\ Len(s) \in Nat /\ Len(t) = Len(s) + 1
  BY <1>1, ConcatProperties, LenProperties
<1>3. t[1] = c /\ \A i \in 1 .. Len(s) : t[i + 1] = s[i]
  BY <1>1, <1>2
<1>4. ASSUME NEW u \in Seq(S)
      PROVE  /\ Reverse(u) \in Seq(S) /\ Len(Reverse(u)) = Len(u)
             /\ \A i \in 1 .. Len(u) : Reverse(u)[i] = u[(Len(u) - i) + 1]
  <2>1. Len(u) \in Nat /\ \A i \in 1 .. Len(u) : u[i] \in S
    BY ElementOfSeq, LenProperties
  <2>2. \A i \in 1 .. Len(u) : (Len(u) - i) + 1 \in 1 .. Len(u)
    BY <2>1
  <2>3. Reverse(u) \in [1 .. Len(u) -> S]
    BY <2>1, <2>2 DEF Reverse
  <2>4. \A i \in 1 .. Len(u) : Reverse(u)[i] = u[(Len(u) - i) + 1]
    BY DEF Reverse
  <2> QED BY <2>1, <2>3, <2>4
<1>5. /\ Reverse(s) \in Seq(S) /\ Len(Reverse(s)) = Len(s)
      /\ \A i \in 1 .. Len(s) : Reverse(s)[i] = s[(Len(s) - i) + 1]
      /\ Reverse(t) \in Seq(S) /\ Len(Reverse(t)) = Len(t)
      /\ \A i \in 1 .. Len(t) : Reverse(t)[i] = t[(Len(t) - i) + 1]
  BY <1>2, <1>4
<1>6. ASSUME NEW i \in 1 .. Len(s) PROVE Reverse(t)[i] = Reverse(s)[i]
  <2>1. i \in 1 .. Len(t) /\ (Len(t) - i) + 1 = ((Len(s) - i) + 1) + 1
        /\ (Len(s) - i) + 1 \in 1 .. Len(s)
    BY <1>2
  <2>2. t[((Len(s) - i) + 1) + 1] = s[(Len(s) - i) + 1]
    BY <1>3, <2>1
  <2> QED BY <1>5, <2>1, <2>2
<1>7. Reverse(t)[Len(s) + 1] = c
  <2>1. Len(s) + 1 \in 1 .. Len(t) /\ (Len(t) - (Len(s) + 1)) + 1 = 1
    BY <1>2
  <2> QED BY <1>3, <1>5, <2>1
<1> QED BY <1>1, <1>2, <1>5, <1>6, <1>7

\* One more digit: the value so far times the base and the digit.
OneLonger(s, r) ==
    Len(r) \in Nat /\ Len(s) = Len(r) + 1 /\ \A i \in 1 .. Len(r) : s[i] = r[i]

LEMMA ValueMore ==
    ASSUME NEW base \in {10, 16}, NEW r, NEW s, OneLonger(s, r),
           NEW f, IsValue(f, r, base), NEW v, v = f[Len(r)] * base + DigitOf(s[Len(s)])
    PROVE  \E g : IsValue(g, s, base) /\ g[Len(s)] = v
<1> USE DEF OneLonger
<1> DEFINE g == [i \in 0 .. Len(s) |-> IF i = Len(s) THEN v ELSE f[i]]
<1>1. \A i \in 0 .. Len(r) : f[i] = IF i = 0 THEN 0 ELSE f[i - 1] * base + DigitOf(r[i])
  BY DEF IsValue
<1>2. g[Len(s)] = v /\ \A i \in 0 .. Len(r) : g[i] = f[i]
  OBVIOUS
<1>3. g = [i \in 0 .. Len(s) |-> g[i]]
  OBVIOUS
<1> HIDE DEF g
<1>4. ASSUME NEW i \in 0 .. Len(s)
      PROVE  g[i] = IF i = 0 THEN 0 ELSE g[i - 1] * base + DigitOf(s[i])
  <2>1. CASE i = 0
    <3>1. 0 \in 0 .. Len(r)
      OBVIOUS
    <3> QED BY <1>1, <1>2, <2>1, <3>1
  <2>2. CASE i \in 1 .. Len(r)
    <3>1. i \in 0 .. Len(r) /\ i - 1 \in 0 .. Len(r) /\ i # 0
      BY <2>2
    <3>2. g[i] = f[i] /\ g[i - 1] = f[i - 1] /\ s[i] = r[i]
      BY <1>2, <2>2, <3>1
    <3>3. f[i] = f[i - 1] * base + DigitOf(r[i])
      BY <1>1, <3>1
    <3> QED BY <3>1, <3>2, <3>3
  <2>3. CASE i = Len(s)
    <3>1. i # 0 /\ i - 1 = Len(r) /\ Len(r) \in 0 .. Len(r)
      BY <2>3
    <3>2. g[i - 1] = f[Len(r)]
      BY <1>2, <3>1
    <3> QED BY <1>2, <2>3, <3>1, <3>2
  <2> QED BY <2>1, <2>2, <2>3
<1>5. IsValue(g, s, base)
  BY <1>3, <1>4, Zenon DEF IsValue
<1> QED BY <1>2, <1>5

\* A numeral denotes its value.
LEMMA DenotesValue ==
    ASSUME NEW s, Len(s) \in Nat, NEW base \in {10, 16}, NEW f, IsValue(f, s, base)
    PROVE  Denotes(s, base) = f[Len(s)]
<1> DEFINE value == CHOOSE g : g = [i \in 0 .. Len(s) |->
                       IF i = 0 THEN 0 ELSE g[i - 1] * base + DigitOf(s[i])]
<1>1. Denotes(s, base) = value[Len(s)]
  BY Zenon DEF Denotes
<1>2. IsValue(value, s, base)
  BY Zenon DEF IsValue
<1> HIDE DEF value
<1>3. /\ \A i \in 0 .. Len(s) : f[i] = IF i = 0 THEN 0 ELSE f[i - 1] * base + DigitOf(s[i])
      /\ \A i \in 0 .. Len(s) :
            value[i] = IF i = 0 THEN 0 ELSE value[i - 1] * base + DigitOf(s[i])
  BY <1>2 DEF IsValue
<1> DEFINE Bad == {i \in Nat : i <= Len(s) /\ value[i] # f[i]}
<1>4. Bad = {}
  <2> SUFFICES ASSUME Bad # {} PROVE FALSE
    OBVIOUS
  <2>1. PICK m \in Bad : \A j \in Bad : <<j, m>> \notin OpToRel(<, Nat)
    <3>1. Bad \subseteq Nat
      OBVIOUS
    <3> HIDE DEF Bad
    <3> QED BY <3>1, NatLessThanWellFounded, WFMin
  <2>2. \A j \in Bad : ~(j < m)
    BY <2>1 DEF OpToRel
  <2>3. m \in 0 .. Len(s) /\ value[m] # f[m]
    OBVIOUS
  <2>4. m # 0
    BY <1>3, <2>3
  <2>5. m - 1 \in Nat /\ m - 1 <= Len(s) /\ m - 1 < m
    BY <2>3, <2>4
  <2>6. value[m - 1] = f[m - 1]
    <3>1. m - 1 \notin Bad
      BY <2>2, <2>5
    <3> QED BY <2>5, <3>1
  <2> HIDE DEF Bad
  <2> QED BY <1>3, <2>3, <2>4, <2>6
<1>5. Len(s) \notin Bad
  BY <1>4
<1> QED BY <1>1, <1>5

\* The digits from the loop of printint, for one number.
DigitsDenote(s, base, n) ==
    /\ s \in Seq(DigitChars) /\ Len(s) > 0
    /\ \E f : IsValue(f, Reverse(s), base) /\ f[Len(s)] = n
    /\ Reverse(s)[1] = "0" => n = 0 /\ Len(s) = 1

LEMMA OneDigit ==
    ASSUME NEW base \in {10, 16}, NEW n \in 0 .. 15
    PROVE  DigitsDenote(<<digits[n + 1]>>, base, n)
<1>1. PICK c : c = digits[n + 1]
  OBVIOUS
<1>2. c \in DigitChars /\ DigitOf(c) = n /\ (c = "0" => n = 0)
  BY <1>1, DigitValue
<1>3. <<c>> \in Seq(DigitChars) /\ Len(<<c>>) = 1 /\ <<c>>[1] = c
  BY <1>2
<1>4. PICK r : r = Reverse(<<c>>)
  OBVIOUS
<1>5. Len(r) = 1 /\ r[1] = c
  <2>1. Reverse(<<c>>) = [i \in 1 .. Len(<<c>>) |-> <<c>>[(Len(<<c>>) - i) + 1]]
    BY DEF Reverse
  <2>2. r = [i \in 1 .. 1 |-> <<c>>[(1 - i) + 1]]
    BY <1>3, <1>4, <2>1
  <2>3. r[1] = c
    BY <1>3, <2>2
  <2> QED BY <2>2, <2>3
<1> DEFINE f == [i \in 0 .. 1 |-> IF i = 0 THEN 0 ELSE n]
<1>6. f[0] = 0 /\ f[1] = n /\ f = [i \in 0 .. 1 |-> f[i]]
  OBVIOUS
<1> HIDE DEF f
<1>7. ASSUME NEW i \in 0 .. 1 PROVE f[i] = IF i = 0 THEN 0 ELSE f[i - 1] * base + DigitOf(r[i])
  <2>1. CASE i = 0
    BY <1>6, <2>1
  <2>2. CASE i = 1
    <3>1. i - 1 = 0 /\ 0 * base = 0
      BY <2>2
    <3>2. f[i - 1] * base = 0 /\ DigitOf(r[i]) = n
      BY <1>2, <1>5, <1>6, <2>2, <3>1
    <3>3. f[i] = n /\ 0 + n = n
      BY <1>6, <2>2
    <3> QED BY <2>2, <3>2, <3>3
  <2> QED BY <2>1, <2>2
<1>8. IsValue(f, r, base)
  <2>1. f = [i \in 0 .. 1 |-> IF i = 0 THEN 0 ELSE f[i - 1] * base + DigitOf(r[i])]
    BY <1>6, <1>7, Zenon
  <2> QED BY <1>5, <2>1, Zenon DEF IsValue
<1> QED BY <1>1, <1>2, <1>3, <1>4, <1>5, <1>6, <1>8 DEF DigitsDenote

LEMMA MoreDigits ==
    ASSUME NEW base \in {10, 16}, NEW q \in Nat, q # 0, NEW d \in 0 .. 15, NEW n,
           n = q * base + d, NEW s, DigitsDenote(s, base, q)
    PROVE  DigitsDenote(<<digits[d + 1]>> \o s, base, n)
<1>1. PICK c : c = digits[d + 1]
  OBVIOUS
<1>2. c \in DigitChars /\ DigitOf(c) = d
  BY <1>1, DigitValue
<1>3. s \in Seq(DigitChars) /\ Len(s) > 0 /\ Len(s) \in Nat
  BY LenProperties DEF DigitsDenote
<1>4. PICK f : IsValue(f, Reverse(s), base) /\ f[Len(s)] = q
  BY DEF DigitsDenote
<1>5. PICK t, u, r : t = <<c>> \o s /\ u = Reverse(t) /\ r = Reverse(s)
  OBVIOUS
<1>6. /\ t \in Seq(DigitChars) /\ Len(t) = Len(s) + 1
      /\ Len(r) = Len(s) /\ Len(u) = Len(s) + 1
      /\ \A i \in 1 .. Len(s) : u[i] = r[i]
      /\ u[Len(s) + 1] = c
  <2>1. t \in Seq(DigitChars) /\ Len(t) = Len(s) + 1
    BY <1>2, <1>3, <1>5, ConcatProperties
  <2> QED BY <1>2, <1>3, <1>5, <2>1, ReverseCons
<1>7. \E g : IsValue(g, u, base) /\ g[Len(u)] = n
  <2>1. n = f[Len(r)] * base + DigitOf(u[Len(u)])
    BY <1>2, <1>4, <1>6
  <2>2. IsValue(f, r, base) /\ OneLonger(u, r)
    BY <1>3, <1>4, <1>5, <1>6 DEF OneLonger
  <2> QED BY <2>1, <2>2, ValueMore
<1>8. u[1] # "0"
  <2>1. u[1] = r[1]
    BY <1>3, <1>6
  <2>2. r[1] # "0"
    BY <1>5 DEF DigitsDenote
  <2> QED BY <2>1, <2>2
<1> QED BY <1>1, <1>3, <1>5, <1>6, <1>7, <1>8 DEF DigitsDenote

LEMMA NumeralDenotes ==
    ASSUME NEW base \in {10, 16}, NEW num \in Nat
    PROVE  /\ Numeral(num, base) \in Seq(DigitChars)
           /\ Len(Numeral(num, base)) > 0
           /\ Denotes(Numeral(num, base), base) = num
           /\ Numeral(num, base)[1] = "0" => Len(Numeral(num, base)) = 1
<1>1. PICK buf : /\ Numeral(num, base) = Reverse(buf[num])
                 /\ \A n \in Nat : buf[n] = Digits(buf, base, n)
  BY NumeralLoop
<1> DEFINE Bad == {n \in Nat : ~DigitsDenote(buf[n], base, n)}
<1>2. Bad = {}
  <2> SUFFICES ASSUME Bad # {} PROVE FALSE
    OBVIOUS
  <2>1. PICK m \in Bad : \A j \in Bad : <<j, m>> \notin OpToRel(<, Nat)
    <3>1. Bad \subseteq Nat
      OBVIOUS
    <3> HIDE DEF Bad
    <3> QED BY <3>1, NatLessThanWellFounded, WFMin
  <2>2. \A j \in Bad : ~(j < m)
    BY <2>1 DEF OpToRel
  <2>3. m \in Nat /\ ~DigitsDenote(buf[m], base, m)
    OBVIOUS
  <2>4. PICK q, d : q = m \div base /\ d = m % base
    OBVIOUS
  <2>5. q \in Nat /\ (q # 0 => q < m) /\ d \in 0 .. 15 /\ m = q * base + d
    BY <2>3, <2>4, Quotient, LastDigit
  <2>6. q # 0 => DigitsDenote(buf[q], base, q)
    <3>1. q # 0 => q \notin Bad
      BY <2>2, <2>5
    <3> QED BY <2>5, <3>1
  <2>7. buf[m] = IF q = 0 THEN <<digits[d + 1]>> ELSE <<digits[d + 1]>> \o buf[q]
    BY <1>1, <2>3, <2>4 DEF Digits
  <2> HIDE DEF Bad
  <2>8. CASE q = 0
    <3>1. m = d
      <4>1. q * base = 0
        BY <2>8
      <4> QED BY <2>5, <4>1
    <3> QED BY <2>3, <2>5, <2>7, <2>8, <3>1, OneDigit
  <2>9. CASE q # 0
    <3>1. PICK s : s = buf[q]
      OBVIOUS
    <3>2. DigitsDenote(<<digits[d + 1]>> \o s, base, m)
      BY <2>5, <2>6, <2>9, <3>1, MoreDigits
    <3> QED BY <2>3, <2>7, <2>9, <3>1, <3>2
  <2> QED BY <2>8, <2>9
<1>3. PICK s : s = buf[num]
  OBVIOUS
<1>4. DigitsDenote(s, base, num)
  BY <1>2, <1>3
<1>5. PICK r : r = Reverse(s)
  OBVIOUS
<1>6. s \in Seq(DigitChars) /\ Len(s) > 0
  BY <1>4 DEF DigitsDenote
<1>7. r \in Seq(DigitChars) /\ Len(r) = Len(s) /\ Len(r) \in Nat
  <2>1. digits[1] \in DigitChars
    BY DEF DigitChars
  <2> QED BY <1>5, <1>6, <2>1, ReverseCons, LenProperties
<1>8. Denotes(r, base) = num
  <2>1. PICK f : IsValue(f, r, base) /\ f[Len(s)] = num
    BY <1>4, <1>5 DEF DigitsDenote
  <2> QED BY <1>7, <2>1, DenotesValue
<1>9. r[1] = "0" => Len(r) = 1
  BY <1>4, <1>5, <1>7 DEF DigitsDenote
<1>10. Numeral(num, base) = r
  BY <1>1, <1>3, <1>5
<1> QED BY <1>6, <1>7, <1>8, <1>9, <1>10

\* printint (printf.c:19): for every width of int, what is shown of a number
\* denotes it, negative, unsigned, 0 and the least integer included, without
\* leading zeros.
THEOREM NumbersPrinted == IntegersPrinted
<1> SUFFICES ASSUME NEW n \in -(INT_MAX + 1) .. INT_MAX
             PROVE  /\ LET text == printint(n, 10, TRUE)
                       IN  IF n < 0 THEN Head(text) = "-" /\ Denotes(Tail(text), 10) = -n
                           ELSE Denotes(text, 10) = n
                    /\ \A base \in {10, 16} :
                          LET text == printint(n, base, FALSE)
                          IN  /\ Denotes(text, base) = n % WORD
                              /\ Head(text) = "0" => Len(text) = 1
  BY Zenon DEF IntegersPrinted
<1>1. WORD \in Nat \ {0} /\ INT_MAX \in Int /\ INT_MAX = WORD \div 2 - 1
  BY ScreenSize DEF INT_MAX
<1>2. n \in Int /\ n <= INT_MAX
  BY <1>1
<1>3. INT_MAX < WORD
  BY <1>1
<1>4. n % WORD \in Nat /\ (n >= 0 => n % WORD = n)
  BY <1>1, <1>2, <1>3
<1>5. ASSUME NEW base \in {10, 16}
      PROVE  LET text == printint(n, base, FALSE)
             IN  /\ Denotes(text, base) = n % WORD
                 /\ Head(text) = "0" => Len(text) = 1
  <2>1. PICK text : text = Numeral(n % WORD, base)
    OBVIOUS
  <2>2. printint(n, base, FALSE) = text
    BY <2>1 DEF printint
  <2>3. /\ text \in Seq(DigitChars) /\ Len(text) > 0 /\ Denotes(text, base) = n % WORD
        /\ text[1] = "0" => Len(text) = 1
    BY <1>4, <2>1, NumeralDenotes
  <2>4. Head(text) = text[1]
    BY <2>3
  <2> QED BY <2>2, <2>3, <2>4, Zenon
<1>6. CASE n >= 0
  <2>1. printint(n, 10, TRUE) = Numeral(n, 10)
    <3>1. ~(n < 0)
      BY <1>2, <1>6
    <3> QED BY <1>4, <1>6, <3>1 DEF printint
  <2>2. Denotes(Numeral(n, 10), 10) = n
    <3>1. n \in Nat
      BY <1>2, <1>6
    <3> QED BY <3>1, NumeralDenotes
  <2>3. ~(n < 0)
    BY <1>2, <1>6
  <2> QED BY <1>5, <2>1, <2>2, <2>3, Zenon
<1>7. CASE n < 0
  <2>1. PICK num : num = Numeral(-n, 10)
    OBVIOUS
  <2>2. -n \in Nat
    BY <1>2, <1>7
  <2>3. num \in Seq(DigitChars) /\ Denotes(num, 10) = -n
    BY <2>1, <2>2, NumeralDenotes
  <2>4. PICK shown : shown = printint(n, 10, TRUE)
    OBVIOUS
  <2>5. shown = <<"-">> \o num
    BY <1>7, <2>1, <2>4 DEF printint
  <2>6. Head(shown) = "-" /\ Tail(shown) = num
    <3>1. num \in Seq(DigitChars \cup {"-"}) /\ "-" \in DigitChars \cup {"-"}
      BY <2>3, SeqMonotonic
    <3>2. PICK S : num \in Seq(S) /\ "-" \in S
      BY <3>1
    <3> QED BY <2>5, <3>2, SignFirst
  <2>7. Head(printint(n, 10, TRUE)) = "-" /\ Denotes(Tail(printint(n, 10, TRUE)), 10) = -n
    BY <2>3, <2>4, <2>6
  <2>8. LET text == printint(n, 10, TRUE)
        IN  IF n < 0 THEN Head(text) = "-" /\ Denotes(Tail(text), 10) = -n
            ELSE Denotes(text, 10) = n
    BY <1>7, <2>7
  <2> QED BY <1>5, <2>8, Zenon
<1>8. n >= 0 \/ n < 0
  BY <1>2
<1> QED BY <1>6, <1>7, <1>8, Zenon

(***************************************************************************)
(* What printf shows of a row of pieces.                                   *)
(***************************************************************************)

\* Concatenation of texts.
LEMMA TextConcat ==
    ASSUME NEW s, NEW t, Text(s), Text(t)
    PROVE  /\ Len(s) \in Nat /\ Len(t) \in Nat /\ Len(s \o t) = Len(s) + Len(t)
           /\ s \o <<>> = s /\ <<>> \o s = s /\ Text(s \o t)
<1>1. PICK S, T : s \in Seq(S) /\ t \in Seq(T)
  BY DEF Text
<1>2. s \in Seq(S \cup T) /\ t \in Seq(S \cup T)
  BY <1>1, SeqMonotonic
<1>3. PICK U : s \in Seq(U) /\ t \in Seq(U)
  BY <1>2
<1> QED BY <1>3, ConcatProperties, ConcatEmptySeq, LenProperties DEF Text

Associates(s, t, u) == (s \o t) \o u = s \o (t \o u)

LEMMA TextAssociative ==
    ASSUME NEW s, NEW t, NEW u, Text(s), Text(t), Text(u)
    PROVE  Associates(s, t, u)
<1>1. PICK S, T, V : s \in Seq(S) /\ t \in Seq(T) /\ u \in Seq(V)
  BY DEF Text
<1>2. PICK U : S \subseteq U /\ T \subseteq U /\ V \subseteq U
  <2>1. S \subseteq S \cup T \cup V /\ T \subseteq S \cup T \cup V /\ V \subseteq S \cup T \cup V
    OBVIOUS
  <2> QED BY <2>1
<1>3. s \in Seq(U) /\ t \in Seq(U) /\ u \in Seq(U)
  BY <1>1, <1>2, SeqMonotonic
<1> QED BY <1>3, ConcatAssociative DEF Associates

\* The run of characters that are no directive, from a position on: where it
\* ends, and its text.
RunEnd(format, i) ==
    IF i <= Len(format) /\ format[i] # "%" THEN i + Amount(format, i) ELSE i
RunText(format, i) == SubSeq(format, i, RunEnd(format, i) - 1)

\* printf looks for the next directive behind the character it is at.
LEMMA RunBehind ==
    ASSUME NEW format, Len(format) \in Nat, NEW i \in 1 .. Len(format)
    PROVE  i + Amount(format, i) = RunEnd(format, i + 1)
<1> DEFINE stops(m) == {j \in (m + 1) .. Len(format) : format[j] = "%"}
<1>1. \A m : Amount(format, m) =
         IF stops(m) = {} THEN Len(format) - m + 1 ELSE Min(stops(m)) - m
  BY Zenon DEF Amount
<1>2. stops(i) \in SUBSET Nat /\ stops(i + 1) \in SUBSET Nat
  OBVIOUS
<1>3. \A j : j \in stops(i) <=> j \in (i + 1) .. Len(format) /\ format[j] = "%"
  OBVIOUS
<1>4. \A j : j \in stops(i + 1) <=> j \in (i + 2) .. Len(format) /\ format[j] = "%"
  OBVIOUS
<1> HIDE DEF stops
<1>5. CASE i + 1 > Len(format)
  <2>1. stops(i) = {}
    BY <1>3, <1>5
  <2>2. Amount(format, i) = 1
    BY <1>1, <1>5, <2>1
  <2> QED BY <1>5, <2>2 DEF RunEnd
<1>6. CASE i + 1 <= Len(format) /\ format[i + 1] = "%"
  <2>1. i + 1 \in stops(i) /\ \A j \in stops(i) : i + 1 <= j
    BY <1>3, <1>6
  <2>2. Min(stops(i)) = i + 1 /\ stops(i) # {}
    BY <1>2, <2>1, SmallestOf
  <2>3. Amount(format, i) = 1
    BY <1>1, <2>2
  <2> QED BY <1>6, <2>3 DEF RunEnd
<1>7. CASE i + 1 <= Len(format) /\ format[i + 1] # "%"
  <2>1. \A j : j \in stops(i) <=> j \in stops(i + 1)
    BY <1>3, <1>4, <1>7
  <2>2. PICK T : T = stops(i) /\ T = stops(i + 1)
    <3>1. stops(i) = stops(i + 1)
      <4>1. \A X, Y : (\A j : j \in X <=> j \in Y) => X = Y
        OBVIOUS
      <4> QED BY <2>1, <4>1, Zenon
    <3> QED BY <3>1
  <2>3. Amount(format, i) = IF T = {} THEN Len(format) - i + 1 ELSE Min(T) - i
    BY <1>1, <2>2
  <2>4. Amount(format, i + 1) = IF T = {} THEN Len(format) - (i + 1) + 1 ELSE Min(T) - (i + 1)
    BY <1>1, <2>2
  <2>5. T # {} => Min(T) \in Nat
    BY <1>2, <2>2, SmallestOf
  <2>6. i + Amount(format, i) = (i + 1) + Amount(format, i + 1)
    BY <2>3, <2>4, <2>5
  <2> QED BY <1>7, <2>6 DEF RunEnd
<1> QED BY <1>5, <1>6, <1>7

LEMMA RunWithin ==
    ASSUME NEW format, Len(format) \in Nat, NEW i \in 1 .. (Len(format) + 1)
    PROVE  RunEnd(format, i) \in i .. (Len(format) + 1)
<1>1. CASE RunEnd(format, i) = i
  BY <1>1
<1>2. CASE i <= Len(format) /\ RunEnd(format, i) = i + Amount(format, i)
  <2> DEFINE stops == {j \in (i + 1) .. Len(format) : format[j] = "%"}
  <2>1. Amount(format, i) = IF stops = {} THEN Len(format) - i + 1 ELSE Min(stops) - i
    BY Zenon DEF Amount
  <2>2. stops \in SUBSET Nat /\ \A j \in stops : j \in (i + 1) .. Len(format)
    OBVIOUS
  <2> HIDE DEF stops
  <2>3. stops # {} => Min(stops) \in (i + 1) .. Len(format)
    BY <2>2, SmallestOf
  <2> QED BY <1>2, <2>1, <2>3
<1> QED BY <1>1, <1>2 DEF RunEnd

\* The text of a run.
LEMMA RunIs ==
    ASSUME NEW S, NEW format \in Seq(S), NEW i \in 1 .. (Len(format) + 1)
    PROVE  /\ RunEnd(format, i) \in Nat
           /\ Text(RunText(format, i)) /\ Len(RunText(format, i)) = RunEnd(format, i) - i
           /\ RunEnd(format, i) = i => RunText(format, i) = <<>>
<1>1. Len(format) \in Nat
  BY LenProperties
<1>2. PICK e : e = RunEnd(format, i)
  OBVIOUS
<1>3. e \in i .. (Len(format) + 1)
  BY <1>1, <1>2, RunWithin
<1>4. \A j \in i .. (e - 1) : format[j] \in S
  <2>1. \A j \in i .. (e - 1) : j \in 1 .. Len(format)
    BY <1>1, <1>3
  <2> QED BY <2>1, ElementOfSeq
<1>5. SubSeq(format, i, e - 1) \in Seq(S) /\ Len(SubSeq(format, i, e - 1)) = e - i
  <2>1. i \in Int /\ e - 1 \in Int
    BY <1>1, <1>3
  <2>2. SubSeq(format, i, e - 1) \in Seq(S)
        /\ Len(SubSeq(format, i, e - 1)) = IF i <= e - 1 THEN (e - 1) - i + 1 ELSE 0
    BY <1>4, <2>1, SubSeqProperties
  <2> QED BY <1>1, <1>3, <2>2
<1>6. e = i => SubSeq(format, i, e - 1) = <<>>
  <2>1. e = i => e - 1 < i /\ i \in Int /\ e - 1 \in Int
    BY <1>1
  <2> QED BY <2>1, SubSeqEmpty
<1>7. RunText(format, i) = SubSeq(format, i, e - 1) /\ e \in Nat
  BY <1>1, <1>2, <1>3 DEF RunText
<1>8. Text(RunText(format, i))
  BY <1>5, <1>7 DEF Text
<1> QED BY <1>2, <1>5, <1>6, <1>7, <1>8

\* The text that printf prints from a character on that is no directive.
LEMMA RunSplit ==
    ASSUME NEW S, NEW format \in Seq(S), NEW i \in 1 .. Len(format)
    PROVE  /\ i + Amount(format, i) = RunEnd(format, i + 1)
           /\ SubSeq(format, i, (i + Amount(format, i)) - 1)
                 = <<format[i]>> \o RunText(format, i + 1)
<1>1. Len(format) \in Nat
  BY LenProperties
<1>2. PICK e : e = i + Amount(format, i)
  OBVIOUS
<1>3. e = RunEnd(format, i + 1)
  BY <1>1, <1>2, RunBehind
<1>4. e \in (i + 1) .. (Len(format) + 1)
  <2>1. i + 1 \in 1 .. (Len(format) + 1)
    BY <1>1
  <2> QED BY <1>1, <1>3, <2>1, RunWithin
<1>5. e - 1 \in i .. Len(format)
  BY <1>1, <1>4
<1>6. SubSeq(format, i, e - 1) = <<format[i]>> \o SubSeq(format, i + 1, e - 1)
  BY <1>5, SubSeqRecursiveFirst
<1> QED BY <1>2, <1>3, <1>6 DEF RunText

(***************************************************************************)
(* A result r of printf that is right from some point on: before has been  *)
(* printed there, and all is to be shown.                                  *)
(***************************************************************************)
Ends(r, before, all) ==
    /\ Text(r.out)
    /\ Len(all) <= INT_MAX => r.ret = Len(all) /\ before \o r.out = all
    /\ Len(all) > INT_MAX => r.ret = -1

\* The loop f is right behind the run at position i.
AtRun(f, format, i, a, before, all) ==
    LET text == RunText(format, i)
    IN  IF Len(before) + Len(text) <= INT_MAX
        THEN Ends(f[<<RunEnd(format, i), a, Len(before) + Len(text)>>], before \o text, all)
        ELSE Len(all) > INT_MAX

\* The end of a round.
LEMMA PutEnds ==
    ASSUME NEW f, NEW text, NEW shown, NEW i \in Nat, NEW a \in Nat, NEW before, NEW all,
           Text(text), Text(before), Text(all),
           Len(before) + Len(text) <= INT_MAX =>
              Ends(f[<<i, a, Len(before) + Len(text)>>], before \o text, all),
           Len(before) + Len(text) > INT_MAX => Len(all) > INT_MAX
    PROVE  Ends(printf_put(f, text, shown, i, a, Len(before)), before, all)
<1>1. INT_MAX \in Int /\ Len(text) \in Nat /\ Len(before) \in Nat /\ Len(all) \in Nat
  BY ScreenSize, TextConcat DEF INT_MAX
<1>2. PICK put : put = printf_put(f, text, shown, i, a, Len(before))
  OBVIOUS
<1>3. CASE Len(before) + Len(text) > INT_MAX
  <2>1. Len(text) \notin 0 .. (INT_MAX - Len(before))
    BY <1>1, <1>3
  <2>2. put = [out |-> IF shown THEN text ELSE <<>>, ret |-> -1]
    BY <1>2, <2>1, Zenon DEF printf_put
  <2>3. put.ret = -1 /\ put.out = IF shown THEN text ELSE <<>>
    BY <2>2
  <2>4. Text(put.out)
    BY <2>3, EmptyIsText
  <2>5. ~(Len(all) <= INT_MAX)
    BY <1>1, <1>3
  <2> QED BY <1>2, <2>3, <2>4, <2>5 DEF Ends
<1>4. CASE Len(before) + Len(text) <= INT_MAX
  <2>1. Len(text) \in 0 .. (INT_MAX - Len(before))
    BY <1>1, <1>4
  <2>2. PICK rest : rest = f[<<i, a, Len(before) + Len(text)>>]
    OBVIOUS
  <2>3. put = [out |-> text \o rest.out, ret |-> rest.ret]
    BY <1>2, <2>1, <2>2, Zenon DEF printf_put
  <2>4. put.out = text \o rest.out /\ put.ret = rest.ret
    BY <2>3
  <2>5. Ends(rest, before \o text, all)
    BY <1>4, <2>2
  <2>6. Text(rest.out)
    BY <2>5 DEF Ends
  <2>7. Text(put.out) /\ before \o put.out = (before \o text) \o rest.out
    <3>1. PICK out : out = rest.out
      OBVIOUS
    <3>2. Text(out)
      BY <2>6, <3>1
    <3>3. Text(text \o out)
      BY <3>2, ConcatIsText
    <3>4. Associates(before, text, out)
      BY <3>2, TextAssociative
    <3> QED BY <2>4, <3>1, <3>3, <3>4 DEF Associates
  <2> QED BY <1>2, <2>4, <2>5, <2>7 DEF Ends
<1> QED BY <1>1, <1>3, <1>4

\* A round that is at a run prints it.
LEMMA RunEnds ==
    ASSUME NEW S, NEW format \in Seq(S), NEW args, NEW f, Rounds(f, format, args),
           NEW i \in 1 .. (Len(format) + 1), NEW a \in Nat, NEW before, NEW all,
           Text(before), Text(all), Len(before) <= INT_MAX,
           AtRun(f, format, i, a, before, all)
    PROVE  Ends(f[<<i, a, Len(before)>>], before, all)
<1>1. Len(format) \in Nat /\ i \in Nat /\ Len(before) \in Nat /\ Len(all) \in Nat /\ INT_MAX \in Int
  BY LenProperties, TextConcat, ScreenSize DEF INT_MAX
<1>2. PICK e, text : e = RunEnd(format, i) /\ text = RunText(format, i)
  OBVIOUS
<1>3. e \in Nat /\ Text(text) /\ Len(text) = e - i /\ (e = i => text = <<>>)
  BY <1>2, RunIs
<1>4. /\ Len(before) + Len(text) <= INT_MAX =>
            Ends(f[<<e, a, Len(before) + Len(text)>>], before \o text, all)
      /\ ~(Len(before) + Len(text) <= INT_MAX) => Len(all) > INT_MAX
  BY <1>2, Zenon DEF AtRun
<1>5. CASE ~(i <= Len(format) /\ format[i] # "%")
  <2>1. e = i /\ text = <<>> /\ Len(text) = 0
    BY <1>1, <1>2, <1>3, <1>5 DEF RunEnd
  <2>2. Len(before) + Len(text) = Len(before) /\ before \o text = before
    BY <1>1, <2>1, TextConcat
  <2> QED BY <1>4, <2>1, <2>2
<1>6. CASE i <= Len(format) /\ format[i] # "%"
  <2>1. e = i + Amount(format, i)
    BY <1>2, <1>6 DEF RunEnd
  <2>2. text = SubSeq(format, i, (i + Amount(format, i)) - 1)
    BY <1>2, <2>1 DEF RunText
  <2>3. f[<<i, a, Len(before)>>] = printf_round(format, args, f, i, a, Len(before))
    BY <1>1 DEF Rounds
  <2>4. ~(i > Len(format)) /\ CharAt(format, i) # "%"
    BY <1>1, <1>6 DEF CharAt
  <2> DEFINE end == i + Amount(format, i)
  <2>5. f[<<i, a, Len(before)>>] =
           printf_put(f, SubSeq(format, i, end - 1), FALSE, end, a, Len(before))
    BY <2>3, <2>4, Zenon DEF printf_round
  <2>6. f[<<i, a, Len(before)>>] = printf_put(f, text, FALSE, e, a, Len(before))
    BY <2>1, <2>2, <2>5
  <2>7. Len(before) + Len(text) > INT_MAX => Len(all) > INT_MAX
    BY <1>1, <1>3, <1>4
  <2>8. Ends(printf_put(f, text, FALSE, e, a, Len(before)), before, all)
    BY <1>3, <1>4, <2>7, PutEnds
  <2> QED BY <2>6, <2>8
<1> QED BY <1>5, <1>6

\* Where no run begins, the loop is right from there on.
LEMMA StartsNoRun ==
    ASSUME NEW S, NEW format \in Seq(S), NEW i \in 1 .. Len(format), format[i] = "%",
           NEW f, NEW a, NEW before, NEW all, Text(before), Len(before) <= INT_MAX,
           Ends(f[<<i, a, Len(before)>>], before, all)
    PROVE  AtRun(f, format, i, a, before, all)
<1>1. RunEnd(format, i) = i
  BY DEF RunEnd
<1>2. PICK text : text = RunText(format, i)
  OBVIOUS
<1>3. Len(format) \in Nat /\ i \in 1 .. (Len(format) + 1)
  BY LenProperties
<1>4. text = <<>>
  BY <1>1, <1>2, <1>3, RunIs
<1>5. Len(text) = 0 /\ before \o text = before /\ Len(before) \in Nat
  BY <1>4, TextConcat
<1>6. Len(before) + Len(text) = Len(before)
  BY <1>5
<1>7. Len(before) + Len(text) <= INT_MAX
  BY <1>6
<1>8. Ends(f[<<RunEnd(format, i), a, Len(before) + Len(text)>>], before \o text, all)
  BY <1>1, <1>5, <1>6
<1> QED BY <1>2, <1>7, <1>8, Zenon DEF AtRun

\* A directive: printf converts its argument, and goes on behind it.
LEMMA DirectiveRun ==
    ASSUME NEW S, NEW format \in Seq(S), NEW args, NEW f, Rounds(f, format, args),
           NEW i \in 1 .. Len(format), NEW a \in Nat, NEW before, NEW all,
           Text(before), Text(all), Len(before) <= INT_MAX,
           NEW d \in {"d", "u", "x", "c", "s"}, NEW show,
           i + 1 <= Len(format), format[i] = "%", format[i + 1] = d,
           show = Converted(d, args[a]), Text(show),
           Len(before) + Len(show) <= INT_MAX =>
              AtRun(f, format, i + 2, a + 1, before \o show, all),
           Len(before) + Len(show) > INT_MAX => Len(all) > INT_MAX
    PROVE  AtRun(f, format, i, a, before, all)
<1>1. /\ Len(format) \in Nat /\ i \in Nat /\ Len(before) \in Nat /\ Len(all) \in Nat
      /\ Len(show) \in Nat /\ INT_MAX \in Int /\ Len(before \o show) = Len(before) + Len(show)
      /\ Text(before \o show)
  BY LenProperties, TextConcat, ScreenSize DEF INT_MAX
<1>2. f[<<i, a, Len(before)>>] = printf_round(format, args, f, i, a, Len(before))
  BY <1>1 DEF Rounds
<1>3. ~(i > Len(format)) /\ CharAt(format, i) = "%" /\ CharAt(format, i + 1) = d /\ d # "%"
  BY <1>1 DEF CharAt
<1>4. f[<<i, a, Len(before)>>] =
         printf_put(f, Converted(d, args[a]), PrintedAtLimit(d), i + 2, a + 1, Len(before))
  BY <1>2, <1>3, Zenon DEF printf_round
<1>5. PICK shown : f[<<i, a, Len(before)>>] =
                      printf_put(f, show, shown, i + 2, a + 1, Len(before))
  BY <1>4
<1>6. Len(before) + Len(show) <= INT_MAX =>
         Ends(f[<<i + 2, a + 1, Len(before) + Len(show)>>], before \o show, all)
  <2> SUFFICES ASSUME Len(before) + Len(show) <= INT_MAX
               PROVE  Ends(f[<<i + 2, a + 1, Len(before) + Len(show)>>], before \o show, all)
    OBVIOUS
  <2>1. PICK j, b, next : j = i + 2 /\ b = a + 1 /\ next = before \o show
    OBVIOUS
  <2>2. j \in 1 .. (Len(format) + 1) /\ b \in Nat /\ Text(next) /\ Len(next) <= INT_MAX
    BY <1>1, <2>1
  <2>3. AtRun(f, format, j, b, next, all)
    BY <2>1
  <2>4. Ends(f[<<j, b, Len(next)>>], next, all)
    BY <2>2, <2>3, RunEnds
  <2> QED BY <1>1, <2>1, <2>4
<1>7. Ends(f[<<i, a, Len(before)>>], before, all)
  <2>1. PICK j, b : j = i + 2 /\ b = a + 1
    OBVIOUS
  <2>2. j \in Nat /\ b \in Nat
    BY <1>1, <2>1
  <2>3. Len(before) + Len(show) <= INT_MAX =>
           Ends(f[<<j, b, Len(before) + Len(show)>>], before \o show, all)
    BY <1>6, <2>1
  <2>4. Ends(printf_put(f, show, shown, j, b, Len(before)), before, all)
    BY <2>2, <2>3, PutEnds
  <2> QED BY <1>5, <2>1, <2>4
<1> QED BY <1>7, StartsNoRun

\* A character that is no directive.
LEMMA PlainRun ==
    ASSUME NEW S, NEW format \in Seq(S), NEW f,
           NEW i \in 1 .. Len(format), NEW a \in Nat, NEW before, NEW all,
           Text(before), Text(all), Len(before) <= INT_MAX, NEW show,
           format[i] # "%", show = <<format[i]>>,
           Len(before) + Len(show) <= INT_MAX =>
              AtRun(f, format, i + 1, a, before \o show, all),
           Len(before) + Len(show) > INT_MAX => Len(all) > INT_MAX
    PROVE  AtRun(f, format, i, a, before, all)
<1>1. PICK e, text, more : e = RunEnd(format, i + 1) /\ text = RunText(format, i)
                           /\ more = RunText(format, i + 1)
  OBVIOUS
<1>2. Len(format) \in Nat /\ i + 1 \in 1 .. (Len(format) + 1)
  BY LenProperties
<1>3. RunEnd(format, i) = e /\ text = show \o more
  <2>1. RunEnd(format, i) = i + Amount(format, i)
    BY <1>2 DEF RunEnd
  <2>2. i + Amount(format, i) = e
    BY <1>1, RunSplit
  <2>3. SubSeq(format, i, (i + Amount(format, i)) - 1) = show \o more
    BY <1>1, RunSplit
  <2> QED BY <1>1, <2>1, <2>2, <2>3 DEF RunText
<1>4. Text(show) /\ Len(show) = 1 /\ Text(more) /\ Len(more) \in Nat
  <2>1. Text(show)
    BY OneIsText
  <2>2. Text(more)
    BY <1>1, <1>2, RunIs
  <2> QED BY <2>1, <2>2, TextConcat
<1>5. /\ Len(text) = Len(show) + Len(more) /\ Text(text)
      /\ Len(before \o show) = Len(before) + Len(show)
      /\ Len(before) \in Nat /\ Len(all) \in Nat /\ INT_MAX \in Int
  BY <1>3, <1>4, TextConcat, ScreenSize DEF INT_MAX
<1>6. (before \o show) \o more = before \o text
  <2>1. Associates(before, show, more)
    BY <1>4, TextAssociative
  <2> QED BY <1>3, <2>1 DEF Associates
<1>7. CASE Len(before) + Len(show) > INT_MAX
  <2>1. ~(Len(before) + Len(text) <= INT_MAX)
    BY <1>4, <1>5, <1>7
  <2> QED BY <1>1, <1>7, <2>1, Zenon DEF AtRun
<1>8. CASE Len(before) + Len(show) <= INT_MAX
  <2>1. PICK next : next = before \o show
    OBVIOUS
  <2>2. AtRun(f, format, i + 1, a, next, all)
    BY <1>8, <2>1
  <2>3. Len(next) + Len(more) = Len(before) + Len(text) /\ next \o more = before \o text
    <3>1. Len(next) + Len(more) = Len(before) + Len(text)
      BY <1>4, <1>5, <2>1
    <3>2. next \o more = before \o text
      BY <1>6, <2>1, Zenon
    <3> QED BY <3>1, <3>2, Zenon
  <2>4. IF Len(next) + Len(more) <= INT_MAX
        THEN Ends(f[<<e, a, Len(next) + Len(more)>>], next \o more, all)
        ELSE Len(all) > INT_MAX
    BY <1>1, <2>2, Zenon DEF AtRun
  <2>5. IF Len(before) + Len(text) <= INT_MAX
        THEN Ends(f[<<e, a, Len(before) + Len(text)>>], before \o text, all)
        ELSE Len(all) > INT_MAX
    BY <2>3, <2>4
  <2> QED BY <1>1, <1>3, <2>5, Zenon DEF AtRun
<1>9. Len(before) + Len(show) <= INT_MAX \/ Len(before) + Len(show) > INT_MAX
  BY <1>4, <1>5
<1> QED BY <1>7, <1>8, <1>9

\* Two percent signs: one is printed, with the run behind it.
LEMMA PercentRun ==
    ASSUME NEW S, NEW format \in Seq(S), NEW args, NEW f, Rounds(f, format, args),
           NEW i \in 1 .. Len(format), NEW a \in Nat, NEW before, NEW all,
           Text(before), Text(all), Len(before) <= INT_MAX, NEW show,
           i + 1 <= Len(format), format[i] = "%", format[i + 1] = "%", show = <<"%">>,
           Len(before) + Len(show) <= INT_MAX =>
              AtRun(f, format, i + 2, a, before \o show, all),
           Len(before) + Len(show) > INT_MAX => Len(all) > INT_MAX
    PROVE  AtRun(f, format, i, a, before, all)
<1>1. PICK j : j = i + 1
  OBVIOUS
<1>2. Len(format) \in Nat /\ i \in Nat /\ j \in 1 .. Len(format) /\ j + 1 = i + 2
      /\ j + 1 \in 1 .. (Len(format) + 1)
  BY <1>1, LenProperties
<1>3. PICK e, text, more : e = RunEnd(format, j + 1) /\ text = show \o more
                           /\ more = RunText(format, j + 1)
  OBVIOUS
<1>4. Text(show) /\ Len(show) = 1 /\ Text(more) /\ Len(more) \in Nat /\ e \in Nat
  <2>1. Text(show)
    BY OneIsText
  <2>2. Text(more) /\ e \in Nat
    BY <1>2, <1>3, RunIs
  <2> QED BY <2>1, <2>2, TextConcat
<1>5. /\ Len(text) = Len(show) + Len(more) /\ Text(text)
      /\ Len(before \o show) = Len(before) + Len(show)
      /\ Len(before) \in Nat /\ Len(all) \in Nat /\ INT_MAX \in Int
  BY <1>3, <1>4, TextConcat, ScreenSize DEF INT_MAX
<1>6. (before \o show) \o more = before \o text
  <2>1. Associates(before, show, more)
    BY <1>4, TextAssociative
  <2> QED BY <1>3, <2>1 DEF Associates
<1>7. f[<<i, a, Len(before)>>] = printf_put(f, text, FALSE, e, a, Len(before))
  <2>1. f[<<i, a, Len(before)>>] = printf_round(format, args, f, i, a, Len(before))
    BY <1>2, <1>5 DEF Rounds
  <2>2. ~(i > Len(format)) /\ CharAt(format, i) = "%" /\ CharAt(format, i + 1) = "%"
    BY <1>1, <1>2 DEF CharAt
  <2> DEFINE end == (i + 1) + Amount(format, i + 1)
  <2>3. f[<<i, a, Len(before)>>] =
           printf_put(f, SubSeq(format, i + 1, end - 1), FALSE, end, a, Len(before))
    BY <2>1, <2>2, Zenon DEF printf_round
  <2>4. end = e /\ SubSeq(format, j, end - 1) = <<format[j]>> \o more
    BY <1>1, <1>2, <1>3, RunSplit
  <2>5. SubSeq(format, i + 1, end - 1) = text
    BY <1>1, <1>3, <2>4
  <2> HIDE DEF end
  <2> QED BY <2>3, <2>4, <2>5
<1>8. Len(before) + Len(text) <= INT_MAX =>
         Ends(f[<<e, a, Len(before) + Len(text)>>], before \o text, all)
  <2> SUFFICES ASSUME Len(before) + Len(text) <= INT_MAX
               PROVE  Ends(f[<<e, a, Len(before) + Len(text)>>], before \o text, all)
    OBVIOUS
  <2>1. PICK next : next = before \o show
    OBVIOUS
  <2>2. Len(before) + Len(show) <= INT_MAX
    BY <1>4, <1>5
  <2>3. AtRun(f, format, j + 1, a, next, all)
    BY <1>2, <2>1, <2>2
  <2>4. Len(next) + Len(more) = Len(before) + Len(text) /\ next \o more = before \o text
    <3>1. Len(next) + Len(more) = Len(before) + Len(text)
      BY <1>4, <1>5, <2>1
    <3>2. next \o more = before \o text
      BY <1>6, <2>1, Zenon
    <3> QED BY <3>1, <3>2, Zenon
  <2>5. IF Len(next) + Len(more) <= INT_MAX
        THEN Ends(f[<<e, a, Len(next) + Len(more)>>], next \o more, all)
        ELSE Len(all) > INT_MAX
    BY <1>3, <2>3, Zenon DEF AtRun
  <2> QED BY <2>4, <2>5
<1>9. Len(before) + Len(text) > INT_MAX => Len(all) > INT_MAX
  <2> SUFFICES ASSUME Len(before) + Len(text) > INT_MAX PROVE Len(all) > INT_MAX
    OBVIOUS
  <2>1. CASE Len(before) + Len(show) > INT_MAX
    BY <2>1
  <2>2. CASE Len(before) + Len(show) <= INT_MAX
    <3>1. PICK next : next = before \o show
      OBVIOUS
    <3>2. AtRun(f, format, j + 1, a, next, all)
      BY <1>2, <2>2, <3>1
    <3>3. ~(Len(next) + Len(more) <= INT_MAX)
      BY <1>4, <1>5, <3>1
    <3> QED BY <1>3, <3>2, <3>3, Zenon DEF AtRun
  <2> QED BY <1>4, <1>5, <2>1, <2>2
<1>10. Ends(f[<<i, a, Len(before)>>], before, all)
  BY <1>4, <1>5, <1>7, <1>8, <1>9, PutEnds
<1> QED BY <1>10, StartsNoRun

(***************************************************************************)
(* The concatenation of a row of texts.                                    *)
(***************************************************************************)

\* f has the beginnings of the concatenation of the texts p[1], ..., p[n].
Joined(f, p, n) ==
    /\ f[0] = <<>> /\ \A k \in 1 .. n : f[k] = f[k - 1] \o p[k]
    /\ \A k \in 0 .. n : Text(f[k])
    /\ FlattenSeq(p) = f[n]

\* The recursion of FlattenSeq.
FlatRound(f, p, n) == [k \in 1 .. n |-> IF k = 1 THEN p[k] ELSE f[k - 1] \o p[k]]
IsFlat(f, p, n) == f = FlatRound(f, p, n)

LEMMA FlatExists ==
    ASSUME NEW n \in Nat, NEW p
    PROVE  \E f : IsFlat(f, p, n)
<1> DEFINE Bad == {m \in Nat : ~ \E f : IsFlat(f, p, m)}
<1>1. Bad = {}
  <2> SUFFICES ASSUME Bad # {} PROVE FALSE
    OBVIOUS
  <2>1. PICK m \in Bad : \A j \in Bad : <<j, m>> \notin OpToRel(<, Nat)
    <3>1. Bad \subseteq Nat
      OBVIOUS
    <3> HIDE DEF Bad
    <3> QED BY <3>1, NatLessThanWellFounded, WFMin
  <2>2. \A j \in Bad : ~(j < m)
    BY <2>1 DEF OpToRel
  <2>3. m \in Nat /\ ~ \E f : IsFlat(f, p, m)
    OBVIOUS
  <2>4. m # 0
    <3> DEFINE empty == [k \in 1 .. 0 |-> 0]
    <3>1. empty = FlatRound(empty, p, 0)
      <4>1. \A k \in 1 .. 0 : empty[k] = FlatRound(empty, p, 0)[k]
        OBVIOUS
      <4> QED BY <4>1 DEF FlatRound
    <3>2. IsFlat(empty, p, 0)
      BY <3>1 DEF IsFlat
    <3> QED BY <2>3, <3>2
  <2>5. PICK f : IsFlat(f, p, m - 1)
    <3>1. m - 1 \in Nat /\ m - 1 < m
      BY <2>3, <2>4
    <3>2. m - 1 \notin Bad
      BY <2>2, <3>1
    <3> QED BY <3>1, <3>2
  <2> HIDE DEF Bad
  <2> DEFINE g == [k \in 1 .. m |-> IF k = m THEN (IF k = 1 THEN p[k] ELSE f[k - 1] \o p[k])
                                    ELSE f[k]]
  <2>6. \A k \in 1 .. (m - 1) : f[k] = IF k = 1 THEN p[k] ELSE f[k - 1] \o p[k]
    BY <2>5 DEF IsFlat, FlatRound
  <2>7. \A k \in 1 .. m : g[k] = IF k = 1 THEN p[k] ELSE g[k - 1] \o p[k]
    <3> SUFFICES ASSUME NEW k \in 1 .. m
                 PROVE  g[k] = IF k = 1 THEN p[k] ELSE g[k - 1] \o p[k]
      OBVIOUS
    <3>1. k # 1 => k - 1 \in 1 .. m /\ k - 1 # m /\ g[k - 1] = f[k - 1]
      BY <2>3
    <3>2. CASE k = m
      BY <3>1, <3>2
    <3>3. CASE k # m
      <4>1. k \in 1 .. (m - 1)
        BY <2>3, <3>3
      <4> QED BY <2>6, <3>1, <3>3, <4>1
    <3> QED BY <3>2, <3>3
  <2>8. IsFlat(g, p, m)
    <3>1. \A k \in 1 .. m : g[k] = FlatRound(g, p, m)[k]
      BY <2>7 DEF FlatRound
    <3>2. g = FlatRound(g, p, m)
      BY <3>1 DEF FlatRound
    <3> QED BY <3>2 DEF IsFlat
  <2> QED BY <2>3, <2>8
<1> QED BY <1>1

LEMMA FlattenIs ==
    ASSUME NEW n \in Nat \ {0}, NEW p, Len(p) = n
    PROVE  \E f : IsFlat(f, p, n) /\ FlattenSeq(p) = f[n]
<1> DEFINE flat == CHOOSE f : f = [k \in 1 .. Len(p) |->
                                     IF k = 1 THEN p[k] ELSE f[k - 1] \o p[k]]
<1>1. FlattenSeq(p) = flat[Len(p)]
  BY Zenon DEF FlattenSeq
<1>2. \E f : f = [k \in 1 .. Len(p) |-> IF k = 1 THEN p[k] ELSE f[k - 1] \o p[k]]
  <2>1. \E f : IsFlat(f, p, Len(p))
    BY FlatExists
  <2> QED BY <2>1, Zenon DEF IsFlat, FlatRound
<1>3. flat = [k \in 1 .. Len(p) |-> IF k = 1 THEN p[k] ELSE flat[k - 1] \o p[k]]
  BY <1>2, Zenon
<1> HIDE DEF flat
<1>4. IsFlat(flat, p, n)
  BY <1>3, Zenon DEF IsFlat, FlatRound
<1> QED BY <1>1, <1>4

\* A row: its texts are p[1], ..., p[n].
TextRow(p, n) == p = [k \in 1 .. n |-> p[k]] /\ \A k \in 1 .. n : Text(p[k])

LEMMA RowLength ==
    ASSUME NEW n \in Nat, NEW p, TextRow(p, n)
    PROVE  Len(p) = n /\ (n = 0 => p = <<>>)
<1>1. PICK S : \A k \in 1 .. n : p[k] \in S
  <2>1. \A k \in 1 .. n : p[k] \in {p[j] : j \in 1 .. n}
    OBVIOUS
  <2> QED BY <2>1
<1>2. p \in [1 .. n -> S]
  BY <1>1 DEF TextRow
<1> QED BY <1>2

LEMMA RowJoined ==
    ASSUME NEW n \in Nat, NEW p, TextRow(p, n)
    PROVE  \E f : Joined(f, p, n)
<1>1. CASE n = 0
  <2> DEFINE f == [k \in {0} |-> <<>>]
  <2>1. p = <<>> /\ Len(p) = 0
    BY <1>1, RowLength
  <2>2. FlattenSeq(p) = p
    BY <2>1, Zenon DEF FlattenSeq
  <2>3. f[0] = <<>> /\ (\A k \in 0 .. n : k = 0) /\ (\A k \in 1 .. n : FALSE)
    BY <1>1
  <2>4. Text(f[0]) /\ FlattenSeq(p) = f[n]
    BY <1>1, <2>1, <2>2, <2>3, EmptyIsText
  <2> HIDE DEF f
  <2>5. Joined(f, p, n)
    BY <2>3, <2>4 DEF Joined
  <2> QED BY <2>5
<1>2. CASE n # 0
  <2>1. Len(p) = n /\ \A k \in 1 .. n : Text(p[k])
    BY RowLength DEF TextRow
  <2>2. PICK g : IsFlat(g, p, n) /\ FlattenSeq(p) = g[n]
    BY <1>2, <2>1, FlattenIs
  <2>3. \A k \in 1 .. n : g[k] = IF k = 1 THEN p[k] ELSE g[k - 1] \o p[k]
    BY <2>2 DEF IsFlat, FlatRound
  <2> DEFINE f == [k \in 0 .. n |-> IF k = 0 THEN <<>> ELSE g[k]]
  <2>4. f[0] = <<>> /\ \A k \in 1 .. n : f[k] = g[k]
    OBVIOUS
  <2> HIDE DEF f
  <2>5. \A k \in 1 .. n : f[k] = f[k - 1] \o p[k]
    <3> SUFFICES ASSUME NEW k \in 1 .. n PROVE f[k] = f[k - 1] \o p[k]
      OBVIOUS
    <3>1. CASE k = 1
      <4>1. f[k - 1] = <<>> /\ f[k] = p[k] /\ Text(p[k])
        BY <2>1, <2>3, <2>4, <3>1
      <4>2. PICK t : t = p[k]
        OBVIOUS
      <4>3. <<>> \o t = t
        BY <4>1, <4>2, TextConcat
      <4> QED BY <4>1, <4>2, <4>3
    <3>2. CASE k # 1
      <4>1. k - 1 \in 1 .. n
        BY <3>2
      <4> QED BY <2>3, <2>4, <3>2, <4>1
    <3> QED BY <3>1, <3>2
  <2> DEFINE Bad == {k \in Nat : k <= n /\ ~Text(f[k])}
  <2>6. Bad = {}
    <3> SUFFICES ASSUME Bad # {} PROVE FALSE
      OBVIOUS
    <3>1. PICK m \in Bad : \A j \in Bad : <<j, m>> \notin OpToRel(<, Nat)
      <4>1. Bad \subseteq Nat
        OBVIOUS
      <4> HIDE DEF Bad
      <4> QED BY <4>1, NatLessThanWellFounded, WFMin
    <3>2. \A j \in Bad : ~(j < m)
      BY <3>1 DEF OpToRel
    <3>3. m \in 0 .. n /\ ~Text(f[m])
      OBVIOUS
    <3>4. m # 0
      BY <2>4, <3>3, EmptyIsText
    <3>5. m \in 1 .. n /\ m - 1 \in 0 .. n /\ m - 1 < m
      BY <3>3, <3>4
    <3>6. Text(f[m - 1])
      BY <3>2, <3>5
    <3>7. PICK s, t : s = f[m - 1] /\ t = p[m]
      OBVIOUS
    <3>8. Text(s \o t)
      BY <2>1, <3>5, <3>6, <3>7, ConcatIsText
    <3> QED BY <2>5, <3>3, <3>5, <3>7, <3>8
  <2>7. \A k \in 0 .. n : Text(f[k])
    BY <2>6
  <2> HIDE DEF Bad
  <2>8. FlattenSeq(p) = f[n]
    BY <1>2, <2>2, <2>4
  <2>9. Joined(f, p, n)
    BY <2>4, <2>5, <2>7, <2>8 DEF Joined
  <2> QED BY <2>9
<1> QED BY <1>1, <1>2

\* A text begins with another.
Begins(s, t) == Len(s) <= Len(t) /\ \A j \in 1 .. Len(s) : t[j] = s[j]

LEMMA ConcatBegins ==
    ASSUME NEW s, NEW p, NEW t, Text(s), Text(p), Text(t), Begins(s \o p, t)
    PROVE  /\ Begins(s, t) /\ Len(s) + Len(p) <= Len(t)
           /\ \A j \in 1 .. Len(p) : t[Len(s) + j] = p[j]
<1>1. PICK S, T : s \in Seq(S) /\ p \in Seq(T)
  BY DEF Text
<1>2. s \in Seq(S \cup T) /\ p \in Seq(S \cup T)
  BY <1>1, SeqMonotonic
<1>3. PICK U : s \in Seq(U) /\ p \in Seq(U)
  BY <1>2
<1>4. PICK u : u = s \o p
  OBVIOUS
<1>5. /\ Len(s) \in Nat /\ Len(p) \in Nat /\ Len(u) = Len(s) + Len(p) /\ Len(t) \in Nat
      /\ \A j \in 1 .. Len(s) : u[j] = s[j]
      /\ \A j \in 1 .. Len(p) : u[Len(s) + j] = p[j]
  <2>1. Len(t) \in Nat
    BY TextConcat
  <2>2. Len(s) \in Nat /\ Len(p) \in Nat /\ Len(u) = Len(s) + Len(p)
    BY <1>3, <1>4
  <2>3. \A j \in 1 .. Len(s) : u[j] = s[j]
    BY <1>3, <1>4
  <2>4. \A j \in 1 .. Len(p) : u[Len(s) + j] = p[j]
    BY <1>3, <1>4, <2>2
  <2> QED BY <2>1, <2>2, <2>3, <2>4
<1>6. Len(u) <= Len(t) /\ \A j \in 1 .. Len(u) : t[j] = u[j]
  BY <1>4 DEF Begins
<1>7. Begins(s, t)
  BY <1>5, <1>6 DEF Begins
<1>8. \A j \in 1 .. Len(p) : t[Len(s) + j] = p[j]
  <2>1. \A j \in 1 .. Len(p) : Len(s) + j \in 1 .. Len(u)
    BY <1>5
  <2> QED BY <1>5, <1>6, <2>1
<1> QED BY <1>5, <1>6, <1>7, <1>8

\* The concatenation of a row begins with that of its first texts.
LEMMA RowBegins ==
    ASSUME NEW n \in Nat, NEW p, NEW f, Joined(f, p, n), TextRow(p, n), NEW k \in 0 .. n
    PROVE  Begins(f[k], f[n])
<1>1. /\ \A i \in 1 .. n : f[i] = f[i - 1] \o p[i] /\ Text(p[i])
      /\ \A i \in 0 .. n : Text(f[i])
  BY DEF Joined, TextRow
<1> DEFINE Bad == {m \in Nat : m <= n /\ ~Begins(f[n - m], f[n])}
<1>2. Bad = {}
  <2> SUFFICES ASSUME Bad # {} PROVE FALSE
    OBVIOUS
  <2>1. PICK m \in Bad : \A j \in Bad : <<j, m>> \notin OpToRel(<, Nat)
    <3>1. Bad \subseteq Nat
      OBVIOUS
    <3> HIDE DEF Bad
    <3> QED BY <3>1, NatLessThanWellFounded, WFMin
  <2>2. \A j \in Bad : ~(j < m)
    BY <2>1 DEF OpToRel
  <2>3. m \in 0 .. n /\ ~Begins(f[n - m], f[n])
    OBVIOUS
  <2>4. PICK t : t = f[n]
    OBVIOUS
  <2>5. Text(t) /\ Len(t) \in Nat
    <3>1. Text(t)
      BY <1>1, <2>4
    <3> QED BY <3>1, TextConcat
  <2>6. m # 0
    <3>1. Begins(t, t)
      BY <2>5 DEF Begins
    <3>2. n - 0 = n
      OBVIOUS
    <3> QED BY <2>3, <2>4, <3>1, <3>2
  <2>7. m - 1 \in 0 .. n /\ m - 1 < m /\ n - (m - 1) \in 1 .. n /\ n - m \in 0 .. n
        /\ (n - (m - 1)) - 1 = n - m
    BY <2>3, <2>6
  <2>8. Begins(f[n - (m - 1)], f[n])
    BY <2>2, <2>7
  <2> HIDE DEF Bad
  <2>9. PICK s, q : s = f[n - m] /\ q = p[n - (m - 1)]
    OBVIOUS
  <2>10. f[n - (m - 1)] = s \o q /\ Text(s) /\ Text(q)
    BY <1>1, <2>7, <2>9
  <2>11. Begins(s \o q, t)
    BY <2>4, <2>8, <2>10
  <2>12. Begins(s, t)
    BY <2>5, <2>10, <2>11, ConcatBegins
  <2> QED BY <2>3, <2>4, <2>9, <2>12
<1>3. PICK m : m = n - k
  OBVIOUS
<1>4. m \in Nat /\ m <= n /\ n - m = k
  BY <1>3
<1>5. Begins(f[n - m], f[n])
  BY <1>2, <1>4
<1> QED BY <1>4, <1>5

(***************************************************************************)
(* A row of pieces.                                                        *)
(***************************************************************************)

\* A character that is no directive, two percent signs, or a directive with
\* its argument: what it is to show.
IsPiece(form, args, show) ==
    \/ \E ch : ch # "%" /\ form = <<ch>> /\ args = <<>> /\ show = <<ch>>
    \/ form = <<"%", "%">> /\ args = <<>> /\ show = <<"%">>
    \/ \E d \in {"d", "u", "x", "c", "s"} : \E arg :
          form = <<"%", d>> /\ args = <<arg>> /\ show = Converted(d, arg) /\ Text(show)

PieceRow(forms, args, shows, n) ==
    /\ TextRow(forms, n) /\ TextRow(args, n) /\ TextRow(shows, n)
    /\ \A k \in 1 .. n : IsPiece(forms[k], args[k], shows[k])

\* One piece more to be shown.
LEMMA PieceRun ==
    ASSUME NEW S, NEW format \in Seq(S), NEW args, NEW f, Rounds(f, format, args),
           NEW fore, NEW form, Text(fore), Text(form), Begins(fore \o form, format),
           NEW given, NEW arg, Text(given), Text(arg), Text(args), Begins(given \o arg, args),
           NEW before, NEW show, NEW all, Text(before), Text(show), Text(all),
           Begins(before \o show, all), IsPiece(form, arg, show), Len(before) <= INT_MAX,
           Len(before) + Len(show) <= INT_MAX =>
              AtRun(f, format, Len(fore \o form) + 1, Len(given \o arg) + 1, before \o show, all)
    PROVE  AtRun(f, format, Len(fore) + 1, Len(given) + 1, before, all)
<1>1. PICK i, a : i = Len(fore) + 1 /\ a = Len(given) + 1
  OBVIOUS
<1>2. Text(format)
  BY DEF Text
<1>3. /\ Len(format) \in Nat /\ Len(fore) \in Nat /\ Len(form) \in Nat
      /\ Len(fore \o form) = Len(fore) + Len(form)
      /\ Len(fore) + Len(form) <= Len(format)
      /\ \A j \in 1 .. Len(form) : format[Len(fore) + j] = form[j]
  <2>1. Len(format) \in Nat /\ Len(fore) \in Nat /\ Len(form) \in Nat
        /\ Len(fore \o form) = Len(fore) + Len(form)
    BY <1>2, TextConcat
  <2> QED BY <1>2, <2>1, ConcatBegins
<1>4. /\ Len(args) \in Nat /\ Len(given) \in Nat /\ Len(arg) \in Nat
      /\ Len(given \o arg) = Len(given) + Len(arg)
      /\ \A j \in 1 .. Len(arg) : args[Len(given) + j] = arg[j]
  <2>1. Len(args) \in Nat /\ Len(given) \in Nat /\ Len(arg) \in Nat
        /\ Len(given \o arg) = Len(given) + Len(arg)
    BY TextConcat
  <2> QED BY <2>1, ConcatBegins
<1>5. Len(before) + Len(show) > INT_MAX => Len(all) > INT_MAX
  <2>1. Len(before) \in Nat /\ Len(show) \in Nat /\ Len(all) \in Nat /\ INT_MAX \in Int
    BY TextConcat, ScreenSize DEF INT_MAX
  <2>2. Len(before) + Len(show) <= Len(all)
    BY ConcatBegins
  <2> QED BY <2>1, <2>2
<1>6. a \in Nat /\ i \in Nat
  BY <1>1, <1>3, <1>4
<1>7. ASSUME NEW ch, ch # "%", form = <<ch>>, arg = <<>>, show = <<ch>>
      PROVE  AtRun(f, format, i, a, before, all)
  <2>1. Len(form) = 1 /\ form[1] = ch /\ Len(arg) = 0
    BY <1>7
  <2>2. i \in 1 .. Len(format) /\ format[i] = ch
    <3>1. 1 \in 1 .. Len(form)
      BY <2>1
    <3>2. format[Len(fore) + 1] = form[1]
      BY <1>3, <3>1
    <3> QED BY <1>1, <1>3, <2>1, <3>2
  <2>3. Len(fore \o form) + 1 = i + 1 /\ Len(given \o arg) + 1 = a
    BY <1>1, <1>3, <1>4, <2>1
  <2>4. Len(before) + Len(show) <= INT_MAX =>
           AtRun(f, format, i + 1, a, before \o show, all)
    BY <2>3
  <2>5. format[i] # "%" /\ show = <<format[i]>>
    BY <1>7, <2>2
  <2> QED BY <1>5, <1>6, <2>2, <2>4, <2>5, PlainRun
<1>8. ASSUME form = <<"%", "%">>, arg = <<>>, show = <<"%">>
      PROVE  AtRun(f, format, i, a, before, all)
  <2>1. Len(form) = 2 /\ form[1] = "%" /\ form[2] = "%" /\ Len(arg) = 0
    BY <1>8
  <2>2. i \in 1 .. Len(format) /\ i + 1 <= Len(format) /\ format[i] = "%" /\ format[i + 1] = "%"
    <3>1. 1 \in 1 .. Len(form) /\ 2 \in 1 .. Len(form) /\ Len(fore) + 2 = i + 1
      BY <1>1, <1>3, <2>1
    <3>2. format[Len(fore) + 1] = form[1] /\ format[Len(fore) + 2] = form[2]
      BY <1>3, <3>1
    <3> QED BY <1>1, <1>3, <2>1, <3>1, <3>2
  <2>3. Len(fore \o form) + 1 = i + 2 /\ Len(given \o arg) + 1 = a
    BY <1>1, <1>3, <1>4, <2>1
  <2>4. Len(before) + Len(show) <= INT_MAX =>
           AtRun(f, format, i + 2, a, before \o show, all)
    BY <2>3
  <2> QED BY <1>5, <1>6, <1>8, <2>2, <2>4, PercentRun
<1>9. ASSUME NEW d \in {"d", "u", "x", "c", "s"}, NEW x,
             form = <<"%", d>>, arg = <<x>>, show = Converted(d, x)
      PROVE  AtRun(f, format, i, a, before, all)
  <2>1. Len(form) = 2 /\ form[1] = "%" /\ form[2] = d /\ Len(arg) = 1 /\ arg[1] = x
    BY <1>9
  <2>2. i \in 1 .. Len(format) /\ i + 1 <= Len(format) /\ format[i] = "%" /\ format[i + 1] = d
    <3>1. 1 \in 1 .. Len(form) /\ 2 \in 1 .. Len(form) /\ Len(fore) + 2 = i + 1
      BY <1>1, <1>3, <2>1
    <3>2. format[Len(fore) + 1] = form[1] /\ format[Len(fore) + 2] = form[2]
      BY <1>3, <3>1
    <3> QED BY <1>1, <1>3, <2>1, <3>1, <3>2
  <2>3. args[a] = x
    <3>1. 1 \in 1 .. Len(arg)
      BY <2>1
    <3> QED BY <1>1, <1>4, <2>1, <3>1
  <2>4. Len(fore \o form) + 1 = i + 2 /\ Len(given \o arg) + 1 = a + 1
    BY <1>1, <1>3, <1>4, <2>1
  <2>5. Len(before) + Len(show) <= INT_MAX =>
           AtRun(f, format, i + 2, a + 1, before \o show, all)
    BY <2>4
  <2>6. show = Converted(d, args[a])
    BY <1>9, <2>3
  <2> QED BY <1>5, <1>6, <2>2, <2>5, <2>6, DirectiveRun
<1> QED BY <1>1, <1>7, <1>8, <1>9 DEF IsPiece

\* Behind k of the n pieces of a row, the loop f is right.
RightAt(f, forms, args, shows, k, n) ==
    Len(shows[k]) <= INT_MAX =>
       AtRun(f, forms[n], Len(forms[k]) + 1, Len(args[k]) + 1, shows[k], shows[n])

LEMMA RightAtEnd ==
    ASSUME NEW n \in Nat, NEW F, NEW A, NEW G, Text(F[n]), Text(A[n]), Text(G[n]),
           NEW f, Rounds(f, F[n], A[n])
    PROVE  RightAt(f, F, A, G, n, n)
<1> SUFFICES ASSUME Len(G[n]) <= INT_MAX
             PROVE  AtRun(f, F[n], Len(F[n]) + 1, Len(A[n]) + 1, G[n], G[n])
  BY DEF RightAt
<1>1. PICK format, args, all : format = F[n] /\ args = A[n] /\ all = G[n]
  OBVIOUS
<1>2. PICK i, a : i = Len(format) + 1 /\ a = Len(args) + 1
  OBVIOUS
<1>3. Len(format) \in Nat /\ Len(args) \in Nat /\ Len(all) \in Nat /\ INT_MAX \in Int
      /\ Text(all) /\ all \o <<>> = all
  BY <1>1, TextConcat, ScreenSize DEF INT_MAX
<1>4. i \in Nat /\ a \in Nat /\ i > Len(format) /\ i \in 1 .. (Len(format) + 1)
  BY <1>2, <1>3
<1>5. f[<<i, a, Len(all)>>] = [out |-> <<>>, ret |-> Len(all)]
  <2>1. f[<<i, a, Len(all)>>] = printf_round(format, args, f, i, a, Len(all))
    BY <1>1, <1>3, <1>4 DEF Rounds
  <2> QED BY <1>4, <2>1, Zenon DEF printf_round
<1>6. PICK r : r = f[<<i, a, Len(all)>>]
  OBVIOUS
<1>7. r.out = <<>> /\ r.ret = Len(all)
  BY <1>5, <1>6
<1>8. Ends(r, all, all)
  BY <1>1, <1>3, <1>7, EmptyIsText DEF Ends
<1>9. PICK text : text = RunText(format, i)
  OBVIOUS
<1>10. RunEnd(format, i) = i /\ text = <<>> /\ Len(text) = 0
  <2>1. RunEnd(format, i) = i
    BY <1>3, <1>4 DEF RunEnd
  <2>2. PICK S : format \in Seq(S)
    BY <1>1 DEF Text
  <2> QED BY <1>4, <1>9, <2>1, <2>2, RunIs
<1>11. Len(all) + Len(text) = Len(all) /\ all \o text = all /\ Len(all) <= INT_MAX
  BY <1>1, <1>3, <1>10
<1>12. AtRun(f, format, i, a, all, all)
  <2>1. Ends(f[<<RunEnd(format, i), a, Len(all) + Len(text)>>], all \o text, all)
    BY <1>6, <1>8, <1>10, <1>11
  <2>2. Len(all) + Len(text) <= INT_MAX
    BY <1>11
  <2> QED BY <1>9, <2>1, <2>2, Zenon DEF AtRun
<1> QED BY <1>1, <1>2, <1>12

LEMMA RightBefore ==
    ASSUME NEW n \in Nat, NEW forms, NEW args, NEW shows, PieceRow(forms, args, shows, n),
           NEW F, NEW A, NEW G,
           Joined(F, forms, n), Joined(A, args, n), Joined(G, shows, n),
           NEW f, Rounds(f, F[n], A[n]), NEW k \in 1 .. n, RightAt(f, F, A, G, k, n)
    PROVE  RightAt(f, F, A, G, k - 1, n)
<1> SUFFICES ASSUME Len(G[k - 1]) <= INT_MAX
             PROVE  AtRun(f, F[n], Len(F[k - 1]) + 1, Len(A[k - 1]) + 1, G[k - 1], G[n])
  BY DEF RightAt
<1>1. k - 1 \in 0 .. n /\ k \in 0 .. n /\ n \in 0 .. n
  OBVIOUS
<1>2. PICK fore, form, format : fore = F[k - 1] /\ form = forms[k] /\ format = F[n]
  OBVIOUS
<1>3. PICK given, arg, all_args : given = A[k - 1] /\ arg = args[k] /\ all_args = A[n]
  OBVIOUS
<1>4. PICK before, show, all : before = G[k - 1] /\ show = shows[k] /\ all = G[n]
  OBVIOUS
<1>5. F[k] = fore \o form /\ A[k] = given \o arg /\ G[k] = before \o show
  BY <1>2, <1>3, <1>4 DEF Joined
<1>6. /\ Text(fore) /\ Text(form) /\ Text(format) /\ Text(given) /\ Text(arg)
      /\ Text(all_args) /\ Text(before) /\ Text(show) /\ Text(all)
  <2>1. Text(fore) /\ Text(given) /\ Text(before)
    BY <1>1, <1>2, <1>3, <1>4 DEF Joined
  <2>2. Text(format) /\ Text(all_args) /\ Text(all)
    BY <1>1, <1>2, <1>3, <1>4 DEF Joined
  <2>3. Text(form) /\ Text(arg) /\ Text(show)
    BY <1>2, <1>3, <1>4 DEF PieceRow, TextRow
  <2> QED BY <2>1, <2>2, <2>3
<1>7. Begins(fore \o form, format) /\ Begins(given \o arg, all_args) /\ Begins(before \o show, all)
  <2>1. TextRow(forms, n) /\ TextRow(args, n) /\ TextRow(shows, n)
    BY DEF PieceRow
  <2>2. Begins(F[k], F[n])
    BY <1>1, <2>1, RowBegins
  <2>3. Begins(A[k], A[n])
    BY <1>1, <2>1, RowBegins
  <2>4. Begins(G[k], G[n])
    BY <1>1, <2>1, RowBegins
  <2> QED BY <1>2, <1>3, <1>4, <1>5, <2>2, <2>3, <2>4
<1>8. Len(before) + Len(show) <= INT_MAX =>
         AtRun(f, format, Len(fore \o form) + 1, Len(given \o arg) + 1, before \o show, all)
  <2>1. Len(before \o show) = Len(before) + Len(show)
    BY <1>6, TextConcat
  <2> QED BY <1>2, <1>3, <1>4, <1>5, <2>1 DEF RightAt
<1>9. IsPiece(form, arg, show)
  BY <1>2, <1>3, <1>4 DEF PieceRow
<1>10. Rounds(f, format, all_args) /\ Len(before) <= INT_MAX
  BY <1>2, <1>3, <1>4
<1>11. PICK S : format \in Seq(S)
  BY <1>6 DEF Text
<1>12. AtRun(f, format, Len(fore) + 1, Len(given) + 1, before, all)
  BY <1>6, <1>7, <1>8, <1>9, <1>10, <1>11, PieceRun
<1> QED BY <1>2, <1>3, <1>4, <1>12

\* What printf prints of a row of pieces is what they show, in order and each
\* with its own argument, and it returns the number of the characters, or -1
\* when there are more than an int holds (printf, printf.c:50).
THEOREM PrintfShowsPieces ==
    ASSUME NEW n \in Nat, NEW forms, NEW args, NEW shows, PieceRow(forms, args, shows, n)
    PROVE  LET result == printf(FlattenSeq(forms), FlattenSeq(args))
               show   == FlattenSeq(shows)
           IN  /\ Len(show) <= INT_MAX => result.out = show /\ result.ret = Len(show)
               /\ Len(show) > INT_MAX => result.ret = -1
<1>1. TextRow(forms, n) /\ TextRow(args, n) /\ TextRow(shows, n)
  BY DEF PieceRow
<1>2. PICK F : Joined(F, forms, n)
  BY <1>1, RowJoined
<1>3. PICK A : Joined(A, args, n)
  BY <1>1, RowJoined
<1>4. PICK G : Joined(G, shows, n)
  BY <1>1, RowJoined
<1>5. Text(F[n]) /\ Text(A[n]) /\ Text(G[n]) /\ 0 \in 0 .. n /\ n \in 0 .. n
  BY <1>2, <1>3, <1>4 DEF Joined
<1>6. PICK format : format = F[n]
  OBVIOUS
<1>7. Text(format) /\ Len(format) \in Nat
  <2>1. Text(format)
    BY <1>5, <1>6
  <2> QED BY <2>1, TextConcat
<1>8. PICK f : Rounds(f, format, A[n])
  BY <1>7, PrintfRounds
<1> DEFINE Bad == {m \in Nat : m <= n /\ ~RightAt(f, F, A, G, n - m, n)}
<1>9. Bad = {}
  <2> SUFFICES ASSUME Bad # {} PROVE FALSE
    OBVIOUS
  <2>1. PICK m \in Bad : \A j \in Bad : <<j, m>> \notin OpToRel(<, Nat)
    <3>1. Bad \subseteq Nat
      OBVIOUS
    <3> HIDE DEF Bad
    <3> QED BY <3>1, NatLessThanWellFounded, WFMin
  <2>2. \A j \in Bad : ~(j < m)
    BY <2>1 DEF OpToRel
  <2>3. m \in 0 .. n /\ ~RightAt(f, F, A, G, n - m, n)
    OBVIOUS
  <2>4. m # 0
    <3>1. RightAt(f, F, A, G, n, n)
      BY <1>5, <1>6, <1>8, RightAtEnd
    <3>2. n - 0 = n
      OBVIOUS
    <3> QED BY <2>3, <3>1, <3>2
  <2>5. PICK k : k = n - (m - 1)
    OBVIOUS
  <2>6. m - 1 \in Nat /\ m - 1 <= n /\ m - 1 < m /\ k \in 1 .. n /\ k - 1 = n - m
    BY <2>3, <2>4, <2>5
  <2>7. RightAt(f, F, A, G, k, n)
    BY <2>2, <2>5, <2>6
  <2> HIDE DEF Bad
  <2>8. RightAt(f, F, A, G, k - 1, n)
    BY <1>2, <1>3, <1>4, <1>6, <1>8, <2>6, <2>7, RightBefore
  <2> QED BY <2>3, <2>6, <2>8
<1>10. RightAt(f, F, A, G, 0, n)
  <2>1. n \in Nat /\ n <= n /\ n - n = 0
    OBVIOUS
  <2> QED BY <1>9, <2>1
<1> HIDE DEF Bad
<1>11. F[0] = <<>> /\ A[0] = <<>> /\ G[0] = <<>>
  BY <1>2, <1>3, <1>4 DEF Joined
<1>12. PICK none : none = <<>>
  OBVIOUS
<1>13. Len(none) = 0 /\ Text(none) /\ INT_MAX \in Nat
  <2>1. INT_MAX \in Nat
    BY ScreenSize, LineFits DEF INT_MAX
  <2> QED BY <1>12, <2>1, EmptyIsText
<1>14. AtRun(f, format, 1, 1, none, G[n])
  BY <1>6, <1>10, <1>11, <1>12, <1>13 DEF RightAt
<1>15. Ends(f[<<1, 1, Len(none)>>], none, G[n])
  <2>1. PICK S : format \in Seq(S)
    BY <1>7 DEF Text
  <2>2. 1 \in 1 .. (Len(format) + 1) /\ 1 \in Nat /\ Len(none) <= INT_MAX
    BY <1>7, <1>13
  <2>3. PICK all : all = G[n]
    OBVIOUS
  <2> QED BY <1>5, <1>8, <1>13, <1>14, <2>1, <2>2, <2>3, RunEnds
<1>16. PICK result, show : result = f[<<1, 1, 0>>] /\ show = G[n]
  OBVIOUS
<1>17. /\ printf(FlattenSeq(forms), FlattenSeq(args)) = result /\ FlattenSeq(shows) = show
  BY <1>2, <1>3, <1>4, <1>6, <1>8, <1>16 DEF Joined, Rounds
<1>18. Ends(result, none, show)
  BY <1>13, <1>15, <1>16
<1>19. none \o result.out = result.out
  <2>1. PICK out : out = result.out
    OBVIOUS
  <2>2. Text(out)
    BY <1>18, <2>1 DEF Ends
  <2>3. <<>> \o out = out
    BY <2>2, TextConcat
  <2> QED BY <1>12, <2>1, <2>3
<1> QED BY <1>17, <1>18, <1>19, Zenon DEF Ends

\* The numerals of one digit.
LEMMA OneDigitNumeral ==
    ASSUME NEW base \in {10, 16}, NEW n \in 0 .. 9
    PROVE  Numeral(n, base) = <<digits[n + 1]>>
<1>1. PICK buf : Numeral(n, base) = Reverse(buf[n]) /\ \A m \in Nat : buf[m] = Digits(buf, base, m)
  BY NumeralLoop
<1>2. n \in Nat /\ n \div base = 0 /\ n % base = n
  OBVIOUS
<1>3. buf[n] = <<digits[n + 1]>>
  BY <1>1, <1>2 DEF Digits
<1>4. \A c : Reverse(<<c>>) = <<c>>
  BY DEF Reverse
<1> QED BY <1>1, <1>3, <1>4

\* One character behind one or two others.
LEMMA Appended ==
    ASSUME NEW a, NEW b, NEW c
    PROVE  <<a>> \o <<b>> = <<a, b>> /\ <<a, b>> \o <<c>> = <<a, b, c>>
<1>1. PICK S : S = {a, b, c}
  OBVIOUS
<1>2. PICK s, t, u, p, q : s = <<a>> /\ t = <<b>> /\ u = <<c>> /\ p = <<a, b>> /\ q = <<a, b, c>>
  OBVIOUS
<1>3. s \in Seq(S) /\ t \in Seq(S) /\ u \in Seq(S) /\ p \in Seq(S) /\ q \in Seq(S)
  BY <1>1, <1>2
<1>4. /\ Len(s) = 1 /\ Len(t) = 1 /\ Len(u) = 1 /\ Len(p) = 2 /\ Len(q) = 3
      /\ s[1] = a /\ t[1] = b /\ u[1] = c /\ p[1] = a /\ p[2] = b
      /\ q[1] = a /\ q[2] = b /\ q[3] = c
  BY <1>2
<1>5. PICK st, pu : st = s \o t /\ pu = p \o u
  OBVIOUS
<1>6. Len(st) = 2 /\ st[1] = a /\ st[2] = b /\ st \in Seq(S)
  <2>1. /\ st \in Seq(S) /\ Len(st) = Len(s) + Len(t)
        /\ \A i \in 1 .. Len(s) + Len(t) : st[i] = IF i <= Len(s) THEN s[i] ELSE t[i - Len(s)]
    BY <1>3, <1>5, ConcatProperties
  <2>2. \A i \in 1 .. 2 : st[i] = IF i <= 1 THEN s[i] ELSE t[i - 1]
    BY <1>4, <2>1
  <2> QED BY <1>4, <2>1, <2>2
<1>7. Len(pu) = 3 /\ pu[1] = a /\ pu[2] = b /\ pu[3] = c /\ pu \in Seq(S)
  <2>1. /\ pu \in Seq(S) /\ Len(pu) = Len(p) + Len(u)
        /\ \A i \in 1 .. Len(p) + Len(u) : pu[i] = IF i <= Len(p) THEN p[i] ELSE u[i - Len(p)]
    BY <1>3, <1>5, ConcatProperties
  <2>2. \A i \in 1 .. 3 : pu[i] = IF i <= 2 THEN p[i] ELSE u[i - 2]
    BY <1>4, <2>1
  <2> QED BY <1>4, <2>1, <2>2
<1>8. st = p
  BY <1>3, <1>4, <1>6, SeqEqual
<1>9. pu = q
  BY <1>3, <1>4, <1>7, SeqEqual
<1> QED BY <1>2, <1>5, <1>8, <1>9

LEMMA NumbersOfPieces ==
    /\ Converted("d", -5) = <<"-", "5">> /\ Converted("u", 7) = <<"7">>
    /\ Converted("x", 6) = <<"0", "x", "6">>
<1>1. WORD \in Nat /\ WORD >= 8
  BY ScreenSize, LineFits DEF INT_MAX
<1>2. 7 % WORD = 7 /\ 6 % WORD = 6
  BY <1>1
<1>3. Numeral(5, 10) = <<"5">> /\ Numeral(7, 10) = <<"7">> /\ Numeral(6, 16) = <<"6">>
  <2>1. digits[5 + 1] = "5" /\ digits[7 + 1] = "7" /\ digits[6 + 1] = "6"
    BY DEF digits
  <2>2. Numeral(5, 10) = <<digits[5 + 1]>>
    BY OneDigitNumeral
  <2>3. Numeral(7, 10) = <<digits[7 + 1]>>
    BY OneDigitNumeral
  <2>4. Numeral(6, 16) = <<digits[6 + 1]>>
    BY OneDigitNumeral
  <2> QED BY <2>1, <2>2, <2>3, <2>4
<1>4. printint(-5, 10, TRUE) = <<"-">> \o <<"5">>
  <2>1. PICK m \in Int : m = 5
    OBVIOUS
  <2>2. -m < 0 /\ -(-m) = m /\ -m = -5
    <3>1. -m < 0
      BY <2>1
    <3>2. -(-m) = m
      OBVIOUS
    <3>3. -m = -5
      BY <2>1, Zenon
    <3> QED BY <3>1, <3>2, <3>3, Zenon
  <2>3. printint(-m, 10, TRUE) = <<"-">> \o Numeral(-(-m), 10)
    BY <2>2, Zenon DEF printint
  <2>4. printint(-m, 10, TRUE) = printint(-5, 10, TRUE)
    BY <2>2
  <2>5. Numeral(-(-m), 10) = <<"5">>
    BY <1>3, <2>1, <2>2
  <2> QED BY <2>3, <2>4, <2>5
<1>5. printint(7, 10, FALSE) = <<"7">> /\ printint(6, 16, FALSE) = <<"6">>
  <2>1. printint(7, 10, FALSE) = Numeral(7 % WORD, 10) /\ printint(6, 16, FALSE) = Numeral(6 % WORD, 16)
    BY Zenon DEF printint
  <2> QED BY <1>2, <1>3, <2>1
<1>6. /\ Converted("d", -5) = printint(-5, 10, TRUE) /\ Converted("u", 7) = printint(7, 10, FALSE)
      /\ Converted("x", 6) = <<"0", "x">> \o printint(6, 16, FALSE)
  BY DEF Converted
<1>7. <<"-">> \o <<"5">> = <<"-", "5">> /\ <<"0", "x">> \o <<"6">> = <<"0", "x", "6">>
  BY Appended
<1> QED BY <1>4, <1>5, <1>6, <1>7

\* The pieces of the formats that are compared.
LEMMA PiecesRight ==
    ASSUME NEW j \in DOMAIN Pieces
    PROVE  /\ Text(Pieces[j].form) /\ Text(Pieces[j].args) /\ Text(Pieces[j].show)
           /\ IsPiece(Pieces[j].form, Pieces[j].args, Pieces[j].show)
<1>1. j \in 1 .. 8
  <2>1. DOMAIN Pieces = 1 .. 8
    BY DEF Pieces
  <2> QED BY <2>1
<1>2. \A form, args, show : /\ Piece(form, args, show).form = form
                            /\ Piece(form, args, show).args = args
                            /\ Piece(form, args, show).show = show
  BY DEF Piece
<1>3. /\ Pieces[1] = Piece(<<"t">>, <<>>, <<"t">>)
      /\ Pieces[2] = Piece(<<"%", "%">>, <<>>, <<"%">>)
      /\ Pieces[3] = Piece(<<"%", "c">>, <<"q">>, <<"q">>)
      /\ Pieces[4] = Piece(<<"%", "s">>, <<LongText>>, LongText)
      /\ Pieces[5] = Piece(<<"%", "s">>, <<<<>>>>, <<>>)
      /\ Pieces[6] = Piece(<<"%", "d">>, <<-5>>, <<"-", "5">>)
      /\ Pieces[7] = Piece(<<"%", "u">>, <<7>>, <<"7">>)
      /\ Pieces[8] = Piece(<<"%", "x">>, <<6>>, <<"0", "x", "6">>)
  BY DEF Pieces
<1>4. \A a, b : Text(<<a>>) /\ Text(<<a, b>>)
  <2> SUFFICES ASSUME NEW a, NEW b PROVE Text(<<a>>) /\ Text(<<a, b>>)
    OBVIOUS
  <2>1. Text(<<a>>)
    BY OneIsText
  <2>2. <<a, b>> \in Seq({a, b})
    OBVIOUS
  <2>3. Text(<<a, b>>)
    BY <2>2, Zenon DEF Text
  <2> QED BY <2>1, <2>3
<1>5. Text(<<>>) /\ Text(<<"0", "x", "6">>) /\ Text(LongText)
  <2>1. <<"0", "x", "6">> \in Seq({"0", "x", "6"})
    OBVIOUS
  <2>2. INT_MAX \div 2 + 1 \in Nat
    BY ScreenSize, LineFits DEF INT_MAX
  <2>3. LongText \in Seq({"v"})
    BY <2>2 DEF LongText
  <2>4. Text(<<"0", "x", "6">>) /\ Text(LongText)
    BY <2>1, <2>3, Zenon DEF Text
  <2> QED BY <2>4, EmptyIsText
<1>6. ASSUME NEW ch, ch # "%" PROVE IsPiece(<<ch>>, <<>>, <<ch>>)
  BY <1>6, Zenon DEF IsPiece
<1>7. IsPiece(<<"%", "%">>, <<>>, <<"%">>)
  BY Zenon DEF IsPiece
<1>8. ASSUME NEW d \in {"d", "u", "x", "c", "s"}, NEW x, NEW s, s = Converted(d, x), Text(s)
      PROVE  IsPiece(<<"%", d>>, <<x>>, s)
  BY <1>8, Zenon DEF IsPiece
<1>9. Converted("c", "q") = <<"q">> /\ Converted("s", LongText) = LongText
      /\ Converted("s", <<>>) = <<>>
  BY DEF Converted
<1>10. ASSUME NEW form, NEW args, NEW show, Pieces[j] = Piece(form, args, show),
              Text(form), Text(args), Text(show), IsPiece(form, args, show)
       PROVE  /\ Text(Pieces[j].form) /\ Text(Pieces[j].args) /\ Text(Pieces[j].show)
              /\ IsPiece(Pieces[j].form, Pieces[j].args, Pieces[j].show)
  BY <1>2, <1>10
<1>11. CASE j = 1
  <2>1. IsPiece(<<"t">>, <<>>, <<"t">>)
    BY <1>6
  <2>2. Pieces[j] = Piece(<<"t">>, <<>>, <<"t">>)
    BY <1>3, <1>11
  <2> QED BY <1>4, <1>5, <1>10, <2>1, <2>2, Zenon
<1>12. CASE j = 2
  <2>1. IsPiece(<<"%", "%">>, <<>>, <<"%">>)
    BY <1>7
  <2>2. Pieces[j] = Piece(<<"%", "%">>, <<>>, <<"%">>)
    BY <1>3, <1>12
  <2> QED BY <1>4, <1>5, <1>10, <2>1, <2>2, Zenon
<1>13. CASE j = 3
  <2>1. IsPiece(<<"%", "c">>, <<"q">>, <<"q">>)
    BY <1>4, <1>8, <1>9, Zenon
  <2>2. Pieces[j] = Piece(<<"%", "c">>, <<"q">>, <<"q">>)
    BY <1>3, <1>13
  <2> QED BY <1>4, <1>5, <1>10, <2>1, <2>2, Zenon
<1>14. CASE j = 4
  <2>1. IsPiece(<<"%", "s">>, <<LongText>>, LongText)
    BY <1>5, <1>8, <1>9, Zenon
  <2>2. Pieces[j] = Piece(<<"%", "s">>, <<LongText>>, LongText)
    BY <1>3, <1>14
  <2> QED BY <1>4, <1>5, <1>10, <2>1, <2>2, Zenon
<1>15. CASE j = 5
  <2>1. IsPiece(<<"%", "s">>, <<<<>>>>, <<>>)
    BY <1>5, <1>8, <1>9, Zenon
  <2>2. Pieces[j] = Piece(<<"%", "s">>, <<<<>>>>, <<>>)
    BY <1>3, <1>15
  <2> QED BY <1>4, <1>5, <1>10, <2>1, <2>2, Zenon
<1>16. CASE j = 6
  <2>1. IsPiece(<<"%", "d">>, <<-5>>, <<"-", "5">>)
    BY <1>4, <1>8, NumbersOfPieces, Zenon
  <2>2. Pieces[j] = Piece(<<"%", "d">>, <<-5>>, <<"-", "5">>)
    BY <1>3, <1>16
  <2> QED BY <1>4, <1>5, <1>10, <2>1, <2>2, Zenon
<1>17. CASE j = 7
  <2>1. IsPiece(<<"%", "u">>, <<7>>, <<"7">>)
    BY <1>4, <1>8, NumbersOfPieces, Zenon
  <2>2. Pieces[j] = Piece(<<"%", "u">>, <<7>>, <<"7">>)
    BY <1>3, <1>17
  <2> QED BY <1>4, <1>5, <1>10, <2>1, <2>2, Zenon
<1>18. CASE j = 8
  <2>1. IsPiece(<<"%", "x">>, <<6>>, <<"0", "x", "6">>)
    BY <1>5, <1>8, NumbersOfPieces, Zenon
  <2>2. Pieces[j] = Piece(<<"%", "x">>, <<6>>, <<"0", "x", "6">>)
    BY <1>3, <1>18
  <2> QED BY <1>4, <1>5, <1>10, <2>1, <2>2, Zenon
<1> QED BY <1>1, <1>11, <1>12, <1>13, <1>14, <1>15, <1>16, <1>17, <1>18

LEMMA RowsMatch ==
    ASSUME NEW n \in Nat, NEW row \in [1 .. n -> DOMAIN Pieces]
    PROVE  LET result == printf(Field(row, "form"), Field(row, "args"))
               show   == Field(row, "show")
           IN  /\ Len(show) <= INT_MAX => result.out = show /\ result.ret = Len(show)
               /\ Len(show) > INT_MAX => result.ret = -1
<1> DEFINE forms == [i \in DOMAIN row |-> Pieces[row[i]].form]
           args  == [i \in DOMAIN row |-> Pieces[row[i]].args]
           shows == [i \in DOMAIN row |-> Pieces[row[i]].show]
<1>1. DOMAIN row = 1 .. n /\ \A k \in 1 .. n : row[k] \in DOMAIN Pieces
  OBVIOUS
<1>2. /\ Field(row, "form") = FlattenSeq(forms) /\ Field(row, "args") = FlattenSeq(args)
      /\ Field(row, "show") = FlattenSeq(shows)
  BY DEF Field
<1>3. \A k \in 1 .. n : /\ forms[k] = Pieces[row[k]].form /\ args[k] = Pieces[row[k]].args
                        /\ shows[k] = Pieces[row[k]].show
  BY <1>1
<1>4. \A k \in 1 .. n : /\ Text(forms[k]) /\ Text(args[k]) /\ Text(shows[k])
                        /\ IsPiece(forms[k], args[k], shows[k])
  <2> SUFFICES ASSUME NEW k \in 1 .. n
               PROVE  /\ Text(forms[k]) /\ Text(args[k]) /\ Text(shows[k])
                      /\ IsPiece(forms[k], args[k], shows[k])
    OBVIOUS
  <2>1. PICK j \in DOMAIN Pieces : j = row[k]
    BY <1>1
  <2>2. /\ Text(Pieces[j].form) /\ Text(Pieces[j].args) /\ Text(Pieces[j].show)
        /\ IsPiece(Pieces[j].form, Pieces[j].args, Pieces[j].show)
    BY PiecesRight
  <2>3. forms[k] = Pieces[j].form /\ args[k] = Pieces[j].args /\ shows[k] = Pieces[j].show
    BY <1>3, <2>1
  <2> QED BY <2>2, <2>3, Zenon
<1>5. /\ forms = [k \in 1 .. n |-> forms[k]] /\ args = [k \in 1 .. n |-> args[k]]
      /\ shows = [k \in 1 .. n |-> shows[k]]
  BY <1>1
<1> HIDE DEF forms, args, shows
<1>6. PieceRow(forms, args, shows, n)
  BY <1>4, <1>5, Zenon DEF PieceRow, TextRow
<1>7. LET result == printf(FlattenSeq(forms), FlattenSeq(args))
          show   == FlattenSeq(shows)
      IN  /\ Len(show) <= INT_MAX => result.out = show /\ result.ret = Len(show)
          /\ Len(show) > INT_MAX => result.ret = -1
  BY <1>6, PrintfShowsPieces
<1> QED BY <1>2, <1>7, Zenon

\* printf and printint, which every command prints with: the numerals of all
\* numbers denote them, and every row of the pieces shows each argument in its
\* place, up to the limit of the value returned.
THEOREM CommandsPrintArguments == Spec => []CommandPrints
<1>1. ASSUME NEW n \in 0 .. 4, NEW row \in [1 .. n -> DOMAIN Pieces]
      PROVE  LET result == printf(Field(row, "form"), Field(row, "args"))
                 show   == Field(row, "show")
             IN  /\ Len(show) <= INT_MAX => result.out = show /\ result.ret = Len(show)
                 /\ Len(show) > INT_MAX => result.ret = -1
  BY RowsMatch
<1>2. PrintfMatches
  BY <1>1, NumbersPrinted, Zenon DEF PrintfMatches
<1>3. CommandPrints /\ CommandPrints'
  BY <1>2 DEF CommandPrints
<1> QED BY <1>3, PTL
=============================================================================
