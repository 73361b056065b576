---- MODULE StreamLogger_proofs ----
(***************************************************************************)
(* Proofs about StreamLogger: used by one writer at a time the logger      *)
(* writes and reads inside its buffer, and used by one process at a time   *)
(* it hands out whole lines, each of them once.                            *)
(***************************************************************************)
EXTENDS StreamLogger, SequenceTheorems, TLAPS

WriterPlaces == {"idle", "memcpy", "add", "done"}
StatPlaces == {"collect", "get_stat", "put_head"}
ReaderPlaces == {"idle", "pull", "copy", "put"} \cup StatPlaces
Units == (Writers \cup {"none", "stat"}) \X Nat

LType ==
    /\ mode \in {"serial", "one_writer", "any"}
    /\ pc \in [Tasks -> WriterPlaces \cup ReaderPlaces]
    /\ \A w \in Writers : pc[w] \in WriterPlaces
    /\ \A r \in Readers : pc[r] \in ReaderPlaces
    /\ len \in Nat
    /\ seen \in [Tasks -> Nat]

\* How processes share the logger: one at a time, or one writer at a time and no
\* statistics.
Serial == \A t, u \in Tasks : t \in Running /\ u \in Running => t = u
OneWriter ==
    /\ \A v, w \in Writers : v \in Running /\ w \in Running => v = w
    /\ cbs = "empty"
    /\ \A r \in Readers : pc[r] \notin StatPlaces
Shared == (mode = "serial" => Serial) /\ (mode = "one_writer" => OneWriter)

\* The room a writer found is still there: readers only ever set len back.
Inside ==
    /\ oops = "none"
    /\ len <= BUFF_SIZE
    /\ \A w \in Writers : pc[w] \in {"memcpy", "add"} => seen[w] + size[w] <= BUFF_SIZE /\ len <= seen[w]
    /\ \A r \in Readers : pc[r] = "copy" => seen[r] <= BUFF_SIZE

WInv == LType /\ Shared /\ (mode # "any" => Inside)

\* Where a process is alone, what it has read is still so.
TextType ==
    /\ buffer \in [1 .. BUFF_SIZE -> Units]
    /\ got \in [Readers -> Seq(Units)]
    /\ delivered \subseteq Writers

\* The first n units of the buffer are whole lines.
WholeTo(n) ==
    \A i \in 1 .. n :
        buffer[i][1] \in Writers =>
            /\ buffer[i][2] = 1 \/ (i > 1 /\ buffer[i - 1] = <<buffer[i][1], buffer[i][2] - 1>>)
            /\ buffer[i][2] = size[buffer[i][1]]
               \/ (i < n /\ buffer[i + 1] = <<buffer[i][1], buffer[i][2] + 1>>)

\* Nobody has read them.
NewTo(n) ==
    \A i \in 1 .. n : buffer[i][1] \in Writers => pc[buffer[i][1]] = "done" /\ buffer[i][1] \notin delivered

\* The text of n units of a line is in the buffer behind what counts.
Behind(line, n) == \A i \in 1 .. n : buffer[len + i] = <<line, i>>

WriterText(w) ==
    /\ pc[w] \in {"memcpy", "add"} => seen[w] = len
    /\ pc[w] = "add" => Behind(w, size[w])

ReaderText(r) ==
    /\ pc[r] \in {"get_stat", "put_head", "copy", "put"} => seen[r] = len
    /\ pc[r] = "put_head" => Behind("stat", Fits(len))
    /\ pc[r] \notin {"pull", "put"} => got[r] = <<>>
    /\ pc[r] = "pull" => got[r] = <<>> \/ len = 0
    /\ pc[r] = "put" => got[r] = SubSeq(buffer, 1, len)

Texts ==
    /\ WholeTo(len) /\ NewTo(len)
    /\ \A w \in delivered : pc[w] = "done"
    /\ \A w \in Writers : WriterText(w)
    /\ \A r \in Readers : ReaderText(r)

SInv == mode = "serial" => TextType /\ Texts

----
(* Inside the buffer.                                                      *)

\* What is assumed of the constants, as the proofs use it.
LEMMA Constants ==
    /\ \A w \in Writers : w \in Tasks /\ w \notin Readers /\ size[w] \in Nat /\ size[w] > 0
                          /\ w # "stat" /\ w # "none"
    /\ \A r \in Readers : r \in Tasks /\ r \notin Writers /\ room[r] \in Nat
    /\ Tasks = Writers \cup Readers
    /\ BUFF_SIZE \in Nat /\ StatSize \in Nat
    /\ \A m \in Modes : m \in {"serial", "one_writer", "any"}
BY LoggerConstants DEF Tasks

\* What scnprintf writes ends inside the buffer.
LEMMA FitsFacts ==
    ASSUME NEW at \in Nat
    PROVE  Fits(at) \in Nat /\ (Fits(at) > 0 => at + Fits(at) <= BUFF_SIZE)
BY Constants DEF Fits

\* The length of a text and its units.
LEMMA TextFacts ==
    ASSUME NEW line, NEW n \in Nat
    PROVE  /\ Len(Text(line, n)) = n
           /\ \A i \in 1 .. n : Text(line, n)[i] = <<line, i>>
           /\ n = 0 => Text(line, n) = <<>>
BY DEF Text

\* What becomes of the buffer when a text that fits is written.
LEMMA WriteFacts ==
    ASSUME NEW at \in Nat, NEW line, NEW n \in Nat, n > 0 => at + n <= BUFF_SIZE, Write(at, Text(line, n))
    PROVE  /\ oops' = oops
           /\ buffer' = [i \in 1 .. BUFF_SIZE |-> IF i - at \in 1 .. n THEN <<line, i - at>> ELSE buffer[i]]
<1>1. ~(Text(line, n) # <<>> /\ at + Len(Text(line, n)) > BUFF_SIZE)
  BY TextFacts, Constants
<1>2. /\ oops' = oops
      /\ buffer' = [i \in 1 .. BUFF_SIZE |-> IF i - at \in 1 .. Len(Text(line, n)) THEN Text(line, n)[i - at]
                                             ELSE buffer[i]]
  BY <1>1 DEF Write
<1> QED BY <1>2, TextFacts

\* The buffer is empty and nobody writes.
LEMMA InitWInv == Init => WInv
BY Constants DEF Init, WInv, LType, WriterPlaces, ReaderPlaces, StatPlaces, Shared, Serial, OneWriter, Running, Inside

\* Task t, which was running or may start, moves to place.
LEMMA MoveShared ==
    ASSUME LType, Shared, NEW t \in Tasks, NEW place, Goto(t, place), mode' = mode,
           t \in Running \/ MayStart(t) \/ place \in {"idle", "done"},
           mode = "one_writer" => cbs' = "empty" /\ (t \in Readers => place \notin StatPlaces)
    PROVE  Shared'
<1>1. pc'[t] = place /\ \A u \in Tasks : u # t => pc'[u] = pc[u]
  BY DEF LType, Goto
<1>2. \A u \in Tasks : u # t => (u \in Running' <=> u \in Running)
  BY <1>1 DEF Running
<1>3. mode = "serial" => Serial'
  BY <1>1, <1>2 DEF Shared, Serial, MayStart, Running
<1>4. mode = "one_writer" => OneWriter'
  <2> SUFFICES ASSUME mode = "one_writer" PROVE OneWriter'
    OBVIOUS
  <2>1. \A v, w \in Writers : v \in Running' /\ w \in Running' => v = w
    BY <1>1, <1>2, Constants DEF Shared, OneWriter, MayStart, Running
  <2>2. \A r \in Readers : pc'[r] \notin StatPlaces
    BY <1>1, Constants DEF Shared, OneWriter
  <2> QED BY <2>1, <2>2 DEF OneWriter
<1> QED BY <1>3, <1>4 DEF Shared

\* The writer.
LEMMA WriterWInv ==
    ASSUME WInv, NEW w \in Writers, WriteTooLong(w) \/ WriteCheck(w) \/ WriterMoves(w)
    PROVE  WInv'
<1> USE Constants
<1>0. LType /\ Shared /\ (mode # "any" => Inside)
  BY DEF WInv
<1>1. CASE WriteTooLong(w)
  <2>1. Goto(w, "done") /\ UNCHANGED <<mode, len, seen, cbs, oops>>
    BY <1>1 DEF WriteTooLong
  <2>2. LType'
    BY <1>0, <2>1 DEF LType, Goto, WriterPlaces
  <2>3. Shared'
    BY <1>0, <2>1, MoveShared DEF Shared, OneWriter
  <2>4. mode # "any" => Inside'
    BY <1>0, <2>1 DEF LType, Goto, Inside
  <2> QED BY <2>1, <2>2, <2>3, <2>4 DEF WInv
<1>2. CASE WriteCheck(w)
  <2>1. /\ Goto(w, "memcpy") /\ UNCHANGED <<mode, cbs, oops>> /\ MayStart(w) /\ size[w] <= BUFF_SIZE
        /\ len' = (IF size[w] + len > BUFF_SIZE THEN 0 ELSE len) /\ seen' = [seen EXCEPT ![w] = len']
    BY <1>2 DEF WriteCheck
  <2>2. len' \in Nat /\ len' <= len /\ len' + size[w] <= BUFF_SIZE
    BY <1>0, <2>1 DEF LType
  <2>3. LType'
    BY <1>0, <2>1, <2>2 DEF LType, Goto, WriterPlaces
  <2>4. Shared'
    BY <1>0, <2>1, MoveShared DEF Shared, OneWriter
  <2>5. mode # "any" => Inside'
    <3> SUFFICES ASSUME mode # "any" PROVE Inside'
      OBVIOUS
    <3>1. \A t \in Tasks : t # w => pc'[t] = pc[t] /\ seen'[t] = seen[t]
      BY <1>0, <2>1 DEF LType, Goto
    <3>2. seen'[w] = len'
      BY <1>0, <2>1 DEF LType
    <3>3. \A t \in Writers : t # w => pc[t] \notin {"memcpy", "add"}
      BY <1>0, <2>1 DEF LType, MayStart, Running
    <3>4. len' <= BUFF_SIZE
      BY <2>2
    <3> QED BY <1>0, <2>1, <2>2, <3>1, <3>2, <3>3, <3>4 DEF Inside, LType
  <2> QED BY <2>1, <2>3, <2>4, <2>5 DEF WInv
<1>3. CASE WriteCopy(w)
  <2>1. PICK at \in {len, seen[w]} : Write(at, Text(w, size[w]))
    BY <1>3 DEF WriteCopy
  <2>2. Goto(w, "add") /\ UNCHANGED <<mode, len, seen, cbs>> /\ pc[w] = "memcpy"
    BY <1>3 DEF WriteCopy
  <2>3. LType'
    BY <1>0, <2>2 DEF LType, Goto, WriterPlaces
  <2>4. Shared'
    BY <1>0, <2>2, MoveShared DEF Shared, OneWriter, Running
  <2>5. mode # "any" => Inside'
    <3> SUFFICES ASSUME mode # "any" PROVE Inside'
      OBVIOUS
    <3>1. at \in Nat /\ at + size[w] <= BUFF_SIZE
      BY <1>0, <2>1, <2>2 DEF Inside, LType
    <3>2. oops' = oops
      BY <2>1, <3>1, WriteFacts
    <3> QED BY <1>0, <2>2, <3>2 DEF Inside, LType, Goto
  <2> QED BY <2>2, <2>3, <2>4, <2>5 DEF WInv
<1>4. CASE WriteAdd(w)
  <2>1. PICK at \in {len, seen[w]} : len' = at + size[w]
    BY <1>4 DEF WriteAdd
  <2>2. /\ Goto(w, "done") /\ UNCHANGED <<mode, cbs, oops>> /\ pc[w] = "add"
        /\ seen' = [seen EXCEPT ![w] = 0]
    BY <1>4 DEF WriteAdd
  <2>3. LType'
    BY <1>0, <2>1, <2>2 DEF LType, Goto, WriterPlaces
  <2>4. Shared'
    BY <1>0, <2>2, MoveShared DEF Shared, OneWriter
  <2>5. mode # "any" => Inside'
    <3> SUFFICES ASSUME mode # "any" PROVE Inside'
      OBVIOUS
    <3>1. \A t \in Tasks : t # w => pc'[t] = pc[t] /\ seen'[t] = seen[t]
      BY <1>0, <2>2 DEF LType, Goto
    <3>2. len' <= BUFF_SIZE
      BY <1>0, <2>1, <2>2 DEF Inside, LType
    <3>3. \A t \in Writers : t # w => pc[t] \notin {"memcpy", "add"}
      BY <1>0, <2>2 DEF LType, Shared, Serial, OneWriter, Running
    <3>4. pc'[w] = "done"
      BY <1>0, <2>2 DEF LType, Goto
    <3> QED BY <1>0, <2>2, <3>1, <3>2, <3>3, <3>4 DEF Inside
  <2> QED BY <2>2, <2>3, <2>4, <2>5 DEF WInv
<1> QED BY <1>1, <1>2, <1>3, <1>4 DEF WriterMoves

\* A reader that moves on and changes what it alone has; the length it may set
\* back to zero.
LEMMA ReaderWInv ==
    ASSUME WInv, NEW r \in Readers, NEW place \in ReaderPlaces, Goto(r, place), mode' = mode, cbs' = cbs,
           r \in Running \/ MayStart(r) \/ place = "idle",
           mode = "one_writer" => place \notin StatPlaces,
           len' \in {0, len}, NEW n \in Nat, seen' = [seen EXCEPT ![r] = n],
           mode # "any" => oops' = "none" /\ (place = "copy" => n <= BUFF_SIZE)
    PROVE  WInv'
<1> USE Constants
<1>0. LType /\ Shared /\ (mode # "any" => Inside)
  BY DEF WInv
<1>1. /\ pc'[r] = place /\ seen'[r] = n
      /\ \A t \in Tasks : t # r => pc'[t] = pc[t] /\ seen'[t] = seen[t]
  BY <1>0 DEF LType, Goto
<1>2. LType'
  BY <1>0, <1>1 DEF LType, Goto
<1>3. Shared'
  BY <1>0, MoveShared DEF Shared, OneWriter
<1>4. mode # "any" => Inside'
  <2> SUFFICES ASSUME mode # "any" PROVE Inside'
    OBVIOUS
  <2>1. len' \in Nat /\ len' <= len
    BY <1>0 DEF LType
  <2>2. \A w \in Writers : pc'[w] = pc[w] /\ seen'[w] = seen[w] /\ seen[w] \in Nat
    BY <1>0, <1>1 DEF LType
  <2>3. len' <= BUFF_SIZE
    BY <1>0, <2>1 DEF Inside, LType
  <2>4. \A w \in Writers : pc'[w] \in {"memcpy", "add"} => seen'[w] + size[w] <= BUFF_SIZE /\ len' <= seen'[w]
    BY <1>0, <2>1, <2>2 DEF Inside, LType
  <2>5. \A q \in Readers : pc'[q] = "copy" => seen'[q] <= BUFF_SIZE
    BY <1>0, <1>1 DEF Inside
  <2> QED BY <2>3, <2>4, <2>5 DEF Inside
<1> QED BY <1>2, <1>3, <1>4 DEF WInv

\* The statistics.
LEMMA StatWInv ==
    ASSUME WInv, NEW r \in Readers, GetStat(r) \/ PutBuffHead(r)
    PROVE  WInv'
<1> USE Constants
<1>0. LType /\ Shared /\ (mode # "any" => Inside) /\ seen[r] \in Nat
  BY DEF WInv, LType
<1>1. mode # "one_writer" /\ r \in Running
  BY <1>0 DEF Shared, OneWriter, GetStat, PutBuffHead, StatPlaces, Running
<1>2. CASE GetStat(r)
  <2>1. oops = "none" => oops' = "none"
    BY <1>0, <1>2, FitsFacts, WriteFacts DEF GetStat
  <2>2. /\ Goto(r, "put_head") /\ UNCHANGED <<mode, len, cbs>> /\ seen' = [seen EXCEPT ![r] = seen[r]]
    BY <1>0, <1>2 DEF GetStat, LType
  <2>3. /\ "put_head" \in ReaderPlaces /\ len' \in {0, len} /\ "put_head" # "copy"
        /\ mode # "any" => oops' = "none"
    BY <1>0, <2>1, <2>2 DEF ReaderPlaces, StatPlaces, Inside
  <2> QED BY <1>0, <1>1, <2>2, <2>3, ReaderWInv
<1>3. CASE PutBuffHead(r)
  <2>1. PICK place \in {"collect", "pull"} : Goto(r, place)
    BY <1>3 DEF PutBuffHead
  <2>2. /\ UNCHANGED <<mode, seen, cbs, oops>> /\ pc[r] = "put_head"
        /\ len' = IF len + Fits(seen[r]) > BUFF_SIZE THEN len ELSE len + Fits(seen[r])
    BY <1>3 DEF PutBuffHead
  <2>3. len' \in Nat /\ (len <= BUFF_SIZE => len' <= BUFF_SIZE)
    BY <1>0, <2>2, FitsFacts DEF LType
  <2>4. pc'[r] = place /\ \A t \in Tasks : t # r => pc'[t] = pc[t]
    BY <1>0, <2>1 DEF LType, Goto
  <2>5. LType'
    BY <1>0, <2>1, <2>2, <2>3, <2>4 DEF LType, Goto, ReaderPlaces, StatPlaces
  <2>6. Shared'
    BY <1>0, <1>1, <2>1, <2>2, MoveShared
  <2>7. mode # "any" => Inside'
    <3> SUFFICES ASSUME mode # "any" PROVE Inside'
      OBVIOUS
    <3>1. \A w \in Writers : pc[w] \notin {"memcpy", "add"}
      BY <1>0, <1>1 DEF LType, Shared, Serial, Running
    <3> QED BY <1>0, <2>2, <2>3, <2>4, <3>1 DEF Inside
  <2> QED BY <2>2, <2>5, <2>6, <2>7 DEF WInv
<1> QED BY <1>2, <1>3

\* Every step keeps WInv.
LEMMA NextWInv == WInv /\ [Next]_vars => WInv'
<1> SUFFICES ASSUME WInv, [Next]_vars PROVE WInv'
  OBVIOUS
<1> USE Constants
<1>0. LType /\ Shared /\ (mode # "any" => Inside)
  BY DEF WInv
<1>1. CASE scbm_register
  <2>1. mode # "one_writer" /\ UNCHANGED <<mode, pc, len, seen, oops>>
    BY <1>1 DEF scbm_register
  <2> QED BY <1>0, <2>1 DEF WInv, LType, Shared, Serial, Running, Inside
<1>2. ASSUME NEW r \in Readers, ReadNothing(r) PROVE WInv'
  BY <1>0, <1>2 DEF ReadNothing, WInv, LType, Shared, Serial, OneWriter, Running, Inside
<1>3. ASSUME NEW r \in Readers, ReadStart(r) PROVE WInv'
  <2>1. PICK place \in {"pull", "collect"} : Goto(r, place) /\ (cbs = "empty" => place = "pull")
    BY <1>3 DEF ReadStart
  <2>2. /\ MayStart(r) /\ mode' = mode /\ cbs' = cbs /\ len' \in {0, len} /\ oops' = oops /\ seen[r] \in Nat
        /\ seen' = [seen EXCEPT ![r] = seen[r]]
    BY <1>0, <1>3 DEF ReadStart, LType
  <2>3. /\ place \in ReaderPlaces /\ place # "copy"
        /\ mode = "one_writer" => place \notin StatPlaces
        /\ mode # "any" => oops' = "none"
    BY <1>0, <2>1, <2>2 DEF ReaderPlaces, StatPlaces, Shared, OneWriter, Inside
  <2> QED BY <2>1, <2>2, <2>3, ReaderWInv
<1>4. ASSUME NEW r \in Readers, GetBuffHead(r) PROVE WInv'
  <2>1. /\ Goto(r, "get_stat") /\ mode' = mode /\ cbs' = cbs /\ len' \in {0, len} /\ oops' = oops /\ len \in Nat
        /\ seen' = [seen EXCEPT ![r] = len] /\ r \in Running
    BY <1>0, <1>4 DEF GetBuffHead, LType, Running
  <2>2. /\ "get_stat" \in ReaderPlaces /\ "get_stat" # "copy"
        /\ mode # "one_writer"
        /\ mode # "any" => oops' = "none"
    BY <1>0, <1>4, <2>1 DEF GetBuffHead, ReaderPlaces, StatPlaces, Shared, OneWriter, Inside
  <2> QED BY <2>1, <2>2, ReaderWInv
<1>5. ASSUME NEW r \in Readers, Pull(r) PROVE WInv'
  <2>1. PICK place \in {"copy", "idle"}, n \in {0, len} :
          /\ Goto(r, place) /\ seen' = [seen EXCEPT ![r] = n]
    BY <1>5 DEF Pull, Return
  <2>2. /\ mode' = mode /\ cbs' = cbs /\ len' \in {0, len} /\ oops' = oops /\ n \in Nat /\ r \in Running
        /\ place \in ReaderPlaces /\ place \notin StatPlaces
        /\ mode # "any" => oops' = "none" /\ n <= BUFF_SIZE
    BY <1>0, <1>5 DEF Pull, LType, Running, ReaderPlaces, StatPlaces, Inside
  <2> QED BY <2>1, <2>2, ReaderWInv
<1>6. ASSUME NEW r \in Readers, Copy(r) PROVE WInv'
  <2>1. /\ Goto(r, "put") /\ mode' = mode /\ cbs' = cbs /\ len' \in {0, len} /\ seen[r] \in Nat
        /\ seen' = [seen EXCEPT ![r] = seen[r]] /\ r \in Running
        /\ "put" \in ReaderPlaces /\ "put" \notin StatPlaces /\ "put" # "copy"
    BY <1>0, <1>6 DEF Copy, LType, Running, ReaderPlaces, StatPlaces
  <2>2. mode # "any" => oops' = "none"
    BY <1>0, <1>6 DEF Copy, Inside, LType
  <2> QED BY <2>1, <2>2, ReaderWInv
<1>7. ASSUME NEW r \in Readers, CopyFails(r) PROVE WInv'
  <2>1. /\ Goto(r, "idle") /\ mode' = mode /\ cbs' = cbs /\ len' \in {0, len} /\ 0 \in Nat /\ oops' = oops
        /\ seen' = [seen EXCEPT ![r] = 0]
        /\ "idle" \in ReaderPlaces /\ "idle" \notin StatPlaces /\ "idle" # "copy"
        /\ mode # "any" => oops' = "none"
    BY <1>0, <1>7 DEF CopyFails, Return, ReaderPlaces, StatPlaces, Inside
  <2> QED BY <2>1, ReaderWInv
<1>8. ASSUME NEW r \in Readers, Put(r) PROVE WInv'
  <2>1. /\ Goto(r, "pull") /\ mode' = mode /\ cbs' = cbs /\ len' \in {0, len} /\ seen[r] \in Nat
        /\ seen' = [seen EXCEPT ![r] = seen[r]] /\ r \in Running
        /\ "pull" \in ReaderPlaces /\ "pull" \notin StatPlaces /\ "pull" # "copy"
        /\ mode # "any" => oops' = "none"
    BY <1>0, <1>8 DEF Put, LType, Running, ReaderPlaces, StatPlaces, Inside
  <2> QED BY <2>1, ReaderWInv
<1>9. CASE UNCHANGED vars
  BY <1>0, <1>9 DEF vars, WInv, LType, Shared, Serial, OneWriter, Running, Inside
<1> QED
  BY <1>1, <1>2, <1>3, <1>4, <1>5, <1>6, <1>7, <1>8, <1>9, WriterWInv, StatWInv DEF Next, ReaderMoves

\* As long as one process writes at a time nothing is written or read behind the
\* end of the buffer, whatever the readers and the compiler do.
THEOREM StaysInside == Spec => []OneWriterStaysInside
<1>1. WInv => OneWriterStaysInside
  BY DEF WInv, Inside, OneWriterStaysInside
<1> QED BY <1>1, InitWInv, NextWInv, PTL DEF Spec

----
(* Whole lines, one process at a time.                                     *)

\* The beginning of the buffer as a sequence.
LEMMA PrefixFacts ==
    ASSUME TextType, NEW n \in Nat, n <= BUFF_SIZE
    PROVE  /\ SubSeq(buffer, 1, n) \in Seq(Units)
           /\ Len(SubSeq(buffer, 1, n)) = n
           /\ \A i \in 1 .. n : SubSeq(buffer, 1, n)[i] = buffer[i]
<1>1. buffer \in Seq(Units) /\ Len(buffer) = BUFF_SIZE
  BY Constants DEF TextType
<1> QED BY <1>1, Constants

\* Whole lines of the buffer are whole lines of what is copied from there.
LEMMA PrefixWhole ==
    ASSUME TextType, NEW n \in Nat, n <= BUFF_SIZE, WholeTo(n), NewTo(n)
    PROVE  /\ Whole(SubSeq(buffer, 1, n))
           /\ LinesOf(SubSeq(buffer, 1, n)) \cap delivered = {}
           /\ \A w \in LinesOf(SubSeq(buffer, 1, n)) : w \in Writers /\ pc[w] = "done"
<1> DEFINE s == SubSeq(buffer, 1, n)
<1>1. Len(s) = n /\ \A i \in 1 .. n : s[i] = buffer[i]
  BY PrefixFacts
<1> HIDE DEF s
<1>2. Whole(s)
  <2> SUFFICES ASSUME NEW i \in 1 .. n, s[i][1] \in Writers
               PROVE  /\ s[i][2] = 1 \/ (i > 1 /\ s[i - 1] = <<s[i][1], s[i][2] - 1>>)
                      /\ s[i][2] = size[s[i][1]] \/ (i < n /\ s[i + 1] = <<s[i][1], s[i][2] + 1>>)
    BY <1>1 DEF Whole
  <2>1. i > 1 => i - 1 \in 1 .. n /\ s[i - 1] = buffer[i - 1]
    BY <1>1
  <2>2. i < n => i + 1 \in 1 .. n /\ s[i + 1] = buffer[i + 1]
    BY <1>1
  <2> QED BY <1>1, <2>1, <2>2 DEF WholeTo
<1>3. \A w \in LinesOf(s) : w \in Writers /\ \E i \in 1 .. n : w = buffer[i][1]
  BY <1>1 DEF LinesOf
<1>4. \A w \in LinesOf(s) : pc[w] = "done" /\ w \notin delivered
  BY <1>3 DEF NewTo
<1> QED BY <1>2, <1>3, <1>4 DEF s

\* A line added behind whole lines: the text of all of it, or of something that
\* is no line.
LEMMA AppendWhole ==
    ASSUME NEW n \in Nat, NEW m \in Nat, NEW line, WholeTo(n),
           \A i \in 1 .. m : buffer[n + i] = <<line, i>>,
           line \in Writers => m = size[line]
    PROVE  WholeTo(n + m)
<1> SUFFICES ASSUME NEW i \in 1 .. (n + m), buffer[i][1] \in Writers
             PROVE  /\ buffer[i][2] = 1 \/ (i > 1 /\ buffer[i - 1] = <<buffer[i][1], buffer[i][2] - 1>>)
                    /\ buffer[i][2] = size[buffer[i][1]]
                       \/ (i < n + m /\ buffer[i + 1] = <<buffer[i][1], buffer[i][2] + 1>>)
  BY DEF WholeTo
<1>1. CASE i <= n
  <2>1. i \in 1 .. n
    BY <1>1
  <2>2. i < n => i < n + m
    OBVIOUS
  <2> QED BY <2>1, <2>2 DEF WholeTo
<1>2. CASE i > n
  <2>0. i - n \in 1 .. m /\ i = n + (i - n)
    BY <1>2
  <2>1. PICK j \in 1 .. m : i = n + j
    BY <2>0
  <2>2. buffer[i] = <<line, j>> /\ line \in Writers
    BY <2>1
  <2>3. j > 1 => i > 1 /\ buffer[i - 1] = <<line, j - 1>>
    <3> SUFFICES ASSUME j > 1 PROVE i > 1 /\ buffer[i - 1] = <<line, j - 1>>
      OBVIOUS
    <3>1. j - 1 \in 1 .. m /\ i - 1 = n + (j - 1)
      BY <2>1
    <3> QED BY <2>1, <3>1
  <2>4. j < m => i < n + m /\ buffer[i + 1] = <<line, j + 1>>
    <3> SUFFICES ASSUME j < m PROVE i < n + m /\ buffer[i + 1] = <<line, j + 1>>
      OBVIOUS
    <3>1. j + 1 \in 1 .. m /\ i + 1 = n + (j + 1)
      BY <2>1
    <3> QED BY <2>1, <3>1
  <2>5. j = 1 \/ j > 1
    BY <2>1
  <2>6. j = size[line] \/ j < m
    BY <2>1, <2>2
  <2> QED BY <2>2, <2>3, <2>4, <2>5, <2>6
<1> QED BY <1>1, <1>2

\* What is written behind the lines leaves them alone.
LEMMA WriteBehind ==
    ASSUME TextType, NEW n \in Nat, NEW m \in Nat, n <= BUFF_SIZE, m > 0 => n + m <= BUFF_SIZE,
           NEW line \in Writers \cup {"stat"}, Write(n, Text(line, m))
    PROVE  /\ oops' = oops
           /\ buffer' \in [1 .. BUFF_SIZE -> Units]
           /\ \A i \in 1 .. n : buffer'[i] = buffer[i]
           /\ \A i \in 1 .. m : buffer'[n + i] = <<line, i>>
           /\ WholeTo(n) => WholeTo(n)'
<1> USE Constants
<1>1. /\ oops' = oops
      /\ buffer' = [i \in 1 .. BUFF_SIZE |-> IF i - n \in 1 .. m THEN <<line, i - n>> ELSE buffer[i]]
  BY WriteFacts
<1>2. buffer' \in [1 .. BUFF_SIZE -> Units]
  <2> SUFFICES ASSUME NEW i \in 1 .. BUFF_SIZE
               PROVE  (IF i - n \in 1 .. m THEN <<line, i - n>> ELSE buffer[i]) \in Units
    BY <1>1
  <2>1. i - n \in 1 .. m => <<line, i - n>> \in Units
    BY DEF Units
  <2>2. buffer[i] \in Units
    BY DEF TextType
  <2> QED BY <2>1, <2>2
<1>3. \A i \in 1 .. n : buffer'[i] = buffer[i]
  <2> TAKE i \in 1 .. n
  <2>1. i \in 1 .. BUFF_SIZE /\ i - n \notin 1 .. m
    OBVIOUS
  <2> QED BY <1>1, <2>1
<1>4. \A i \in 1 .. m : buffer'[n + i] = <<line, i>>
  <2> TAKE i \in 1 .. m
  <2>1. n + i \in 1 .. BUFF_SIZE /\ (n + i) - n = i
    OBVIOUS
  <2> QED BY <1>1, <2>1
<1>5. WholeTo(n) => WholeTo(n)'
  <2> SUFFICES ASSUME WholeTo(n), NEW i \in 1 .. n, buffer'[i][1] \in Writers
               PROVE  /\ buffer'[i][2] = 1 \/ (i > 1 /\ buffer'[i - 1] = <<buffer'[i][1], buffer'[i][2] - 1>>)
                      /\ buffer'[i][2] = size[buffer'[i][1]]
                         \/ (i < n /\ buffer'[i + 1] = <<buffer'[i][1], buffer'[i][2] + 1>>)
    BY DEF WholeTo
  <2>1. i > 1 => buffer'[i - 1] = buffer[i - 1]
    BY <1>3
  <2>2. i < n => buffer'[i + 1] = buffer[i + 1]
    BY <1>3
  <2> QED BY <1>3, <2>1, <2>2 DEF WholeTo
<1> QED BY <1>1, <1>2, <1>3, <1>4, <1>5

\* Nothing was written and nothing was read.
LEMMA InitSInv == Init => SInv
<1> SUFFICES ASSUME Init PROVE TextType /\ Texts
  BY DEF SInv
<1>1. TextType
  <2>1. Blank \in Units
    BY DEF Blank, Units
  <2> QED BY <2>1, Constants, EmptySeq DEF Init, TextType
<1>2. len = 0 /\ (\A t \in Tasks : pc[t] = "idle") /\ delivered = {} /\ \A r \in Readers : got[r] = <<>>
  BY DEF Init
<1>3. WholeTo(len) /\ NewTo(len)
  BY <1>2 DEF WholeTo, NewTo
<1> QED BY <1>1, <1>2, <1>3, Constants DEF Texts, WriterText, ReaderText

\* A process that runs, or starts, is the only one.
LEMMA Alone ==
    ASSUME WInv, mode = "serial", NEW t \in Tasks, t \in Running \/ MayStart(t)
    PROVE  \A u \in Tasks : u # t => pc[u] \in {"idle", "done"}
BY DEF WInv, Shared, Serial, MayStart, Running

\* So only its own part of the invariant is at stake.
LEMMA AloneTexts ==
    ASSUME WInv, mode = "serial", TextType, Texts, NEW t \in Tasks,
           \A u \in Tasks : u # t => pc[u] \in {"idle", "done"} /\ pc'[u] = pc[u],
           \A r \in Readers : r # t => got'[r] = got[r],
           WholeTo(len)', NewTo(len)', \A w \in delivered' : pc'[w] = "done",
           t \in Writers => WriterText(t)', t \in Readers => ReaderText(t)'
    PROVE  Texts'
<1>1. \A w \in Writers : WriterText(w)'
  BY Constants DEF WriterText
<1>2. \A r \in Readers : ReaderText(r)'
  <2> SUFFICES ASSUME NEW r \in Readers, r # t PROVE ReaderText(r)'
    OBVIOUS
  <2>1. pc'[r] = "idle" /\ got'[r] = got[r] /\ pc[r] = "idle"
    BY Constants DEF WInv, LType, ReaderPlaces, StatPlaces
  <2> QED BY <2>1 DEF Texts, ReaderText
<1> QED BY <1>1, <1>2 DEF Texts

\* A step of t that leaves the text alone.
LEMMA QuietTexts ==
    ASSUME WInv, mode = "serial", TextType, Texts, NEW t \in Tasks, NEW place,
           t \in Running \/ MayStart(t), Goto(t, place), UNCHANGED <<buffer, delivered>>, len' \in {0, len},
           t \in Writers => place \in {"memcpy", "done"} /\ pc[t] # "done",
           got' \in [Readers -> Seq(Units)], \A r \in Readers : r # t => got'[r] = got[r],
           t \in Writers => WriterText(t)', t \in Readers => ReaderText(t)'
    PROVE  TextType' /\ Texts'
<1>1. pc'[t] = place /\ \A u \in Tasks : u # t => pc'[u] = pc[u]
  BY DEF WInv, LType, Goto
<1>2. \A u \in Tasks : u # t => pc[u] \in {"idle", "done"}
  BY Alone
<1>3. \A w \in Writers : pc[w] = "done" => pc'[w] = "done"
  BY <1>1, Constants
<1>4. WholeTo(len)' /\ NewTo(len)'
  BY <1>3 DEF WholeTo, NewTo, Texts
<1>5. \A w \in delivered' : pc'[w] = "done"
  BY <1>3 DEF Texts, TextType
<1> QED BY <1>1, <1>2, <1>4, <1>5, AloneTexts DEF TextType

\* A step of t that makes the m units behind the lines count.
LEMMA AppendTexts ==
    ASSUME WInv, mode = "serial", TextType, Texts, NEW t \in Tasks, NEW place, t \in Running,
           Goto(t, place), UNCHANGED <<buffer, delivered, got>>,
           NEW m \in Nat, len' = len + m, NEW line, Behind(line, m),
           line \in Writers => line = t /\ m = size[t] /\ place = "done",
           t \in Writers => WriterText(t)', t \in Readers => ReaderText(t)'
    PROVE  TextType' /\ Texts'
<1> USE Constants
<1>0. len \in Nat
  BY DEF WInv, LType
<1>1. pc'[t] = place /\ \A u \in Tasks : u # t => pc'[u] = pc[u]
  BY DEF WInv, LType, Goto
<1>2. (\A u \in Tasks : u # t => pc[u] \in {"idle", "done"}) /\ pc[t] # "done"
  BY Alone DEF Running
<1>3. \A w \in Writers : pc[w] = "done" => pc'[w] = "done"
  BY <1>1, <1>2
<1>4. WholeTo(len + m)
  BY <1>0, AppendWhole DEF Texts, Behind
<1>5. NewTo(len)'
  <2> SUFFICES ASSUME NEW i \in 1 .. (len + m), buffer[i][1] \in Writers
               PROVE  pc'[buffer[i][1]] = "done" /\ buffer[i][1] \notin delivered
    BY <1>0 DEF NewTo
  <2>1. CASE i <= len
    <3>1. i \in 1 .. len
      BY <1>0, <2>1
    <3> QED BY <1>3, <3>1 DEF Texts, NewTo
  <2>2. CASE i > len
    <3>1. i - len \in 1 .. m /\ len + (i - len) = i
      BY <1>0, <2>2
    <3>2. buffer[i] = <<line, i - len>>
      BY <3>1 DEF Behind
    <3>3. line = t /\ buffer[i][1] = t /\ place = "done"
      BY <3>2
    <3>4. t \notin delivered
      BY <1>2 DEF Texts
    <3> QED BY <1>1, <3>3, <3>4
  <2> QED BY <1>0, <2>1, <2>2
<1>6. WholeTo(len)'
  BY <1>4 DEF WholeTo
<1>7. \A w \in delivered' : pc'[w] = "done"
  BY <1>3 DEF Texts, TextType
<1> QED BY <1>1, <1>2, <1>5, <1>6, <1>7, AloneTexts DEF TextType

\* A step of t that writes m units behind the lines.
LEMMA WriteTexts ==
    ASSUME WInv, mode = "serial", TextType, Texts, NEW t \in Tasks, NEW place, t \in Running,
           Goto(t, place), UNCHANGED <<len, seen, delivered, got>>,
           NEW m \in Nat, m > 0 => len + m <= BUFF_SIZE,
           NEW line \in Writers \cup {"stat"}, Write(len, Text(line, m)),
           t \in Writers => pc[t] # "done",
           Behind(line, m)' /\ t \in Writers => WriterText(t)',
           Behind(line, m)' /\ t \in Readers => ReaderText(t)'
    PROVE  TextType' /\ Texts'
<1> USE Constants
<1>0. len \in Nat /\ len <= BUFF_SIZE
  BY DEF WInv, LType, Inside
<1>1. pc'[t] = place /\ \A u \in Tasks : u # t => pc'[u] = pc[u]
  BY DEF WInv, LType, Goto
<1>2. \A u \in Tasks : u # t => pc[u] \in {"idle", "done"}
  BY Alone
<1>3. \A w \in Writers : pc[w] = "done" => pc'[w] = "done"
  BY <1>1
<1>4. /\ buffer' \in [1 .. BUFF_SIZE -> Units]
      /\ \A i \in 1 .. len : buffer'[i] = buffer[i]
      /\ \A i \in 1 .. m : buffer'[len + i] = <<line, i>>
      /\ WholeTo(len) => WholeTo(len)'
  BY <1>0, WriteBehind DEF WholeTo
<1>5. Behind(line, m)'
  BY <1>4 DEF Behind
<1>6. NewTo(len)'
  BY <1>3, <1>4 DEF NewTo, Texts
<1>7. \A w \in delivered' : pc'[w] = "done"
  BY <1>3 DEF Texts, TextType
<1>8. TextType'
  BY <1>4 DEF TextType
<1>9. WholeTo(len)'
  BY <1>4 DEF Texts
<1> QED BY <1>1, <1>2, <1>5, <1>6, <1>7, <1>8, <1>9, AloneTexts

\* The steps of a writer.
LEMMA WriterSInv ==
    ASSUME WInv, mode = "serial", TextType, Texts, NEW w \in Writers,
           WriteTooLong(w) \/ WriteCheck(w) \/ WriterMoves(w)
    PROVE  TextType' /\ Texts'
<1> USE Constants
<1>0. /\ LType /\ Inside /\ got \in [Readers -> Seq(Units)] /\ len \in Nat /\ w \in Tasks
  BY DEF WInv, TextType, LType
<1>1. CASE WriteTooLong(w)
  <2>1. /\ MayStart(w) /\ Goto(w, "done") /\ UNCHANGED <<buffer, delivered, len, got, seen>> /\ pc[w] = "idle"
    BY <1>1 DEF WriteTooLong
  <2>2. WriterText(w)'
    BY <1>0, <2>1 DEF WriterText, Goto, LType
  <2> QED BY <1>0, <2>1, <2>2, QuietTexts
<1>2. CASE WriteCheck(w)
  <2>1. /\ MayStart(w) /\ Goto(w, "memcpy") /\ UNCHANGED <<buffer, delivered, got>> /\ pc[w] = "idle"
        /\ len' \in {0, len} /\ seen' = [seen EXCEPT ![w] = len']
    BY <1>2 DEF WriteCheck
  <2>2. WriterText(w)'
    BY <1>0, <2>1 DEF WriterText, Goto, LType
  <2> QED BY <1>0, <2>1, <2>2, QuietTexts
<1>3. CASE WriteCopy(w)
  <2>1. pc[w] = "memcpy" /\ seen[w] = len /\ len + size[w] <= BUFF_SIZE /\ w \in Running
    BY <1>0, <1>3 DEF WriteCopy, Texts, WriterText, Inside, Running
  <2>2. /\ Write(len, Text(w, size[w])) /\ Goto(w, "add") /\ UNCHANGED <<len, seen, delivered, got>>
    BY <1>3, <2>1 DEF WriteCopy
  <2>3. Behind(w, size[w])' => WriterText(w)'
    BY <1>0, <2>1, <2>2 DEF WriterText, Goto, LType
  <2> QED BY <1>0, <2>1, <2>2, <2>3, WriteTexts
<1>4. CASE WriteAdd(w)
  <2>1. pc[w] = "add" /\ seen[w] = len /\ Behind(w, size[w]) /\ w \in Running
    BY <1>0, <1>4 DEF WriteAdd, Texts, WriterText, Running
  <2>2. len' = len + size[w] /\ Goto(w, "done") /\ UNCHANGED <<buffer, delivered, got>>
    BY <1>4, <2>1 DEF WriteAdd
  <2>3. WriterText(w)'
    BY <1>0, <2>2 DEF WriterText, Goto, LType
  <2> QED BY <1>0, <2>1, <2>2, <2>3, AppendTexts
<1> QED BY <1>1, <1>2, <1>3, <1>4 DEF WriterMoves

\* The steps of a reader up to the copy.
LEMMA CollectSInv ==
    ASSUME WInv, mode = "serial", TextType, Texts, NEW r \in Readers,
           ReadStart(r) \/ GetBuffHead(r) \/ GetStat(r) \/ PutBuffHead(r)
    PROVE  TextType' /\ Texts'
<1> USE Constants
<1>0. LType /\ Inside /\ got \in [Readers -> Seq(Units)] /\ len \in Nat /\ r \in Tasks /\ ReaderText(r)
  BY DEF WInv, TextType, LType, Texts
<1>1. CASE ReadStart(r)
  <2>1. PICK place \in {"pull", "collect"} : Goto(r, place)
    BY <1>1 DEF ReadStart
  <2>2. MayStart(r) /\ UNCHANGED <<buffer, delivered, len, got, seen>> /\ pc[r] = "idle"
    BY <1>1 DEF ReadStart
  <2>3. ReaderText(r)'
    BY <1>0, <2>1, <2>2 DEF ReaderText, Goto, LType
  <2> QED BY <1>0, <2>1, <2>2, <2>3, QuietTexts
<1>2. CASE GetBuffHead(r)
  <2>1. /\ r \in Running /\ Goto(r, "get_stat") /\ UNCHANGED <<buffer, delivered, len, got>> /\ pc[r] = "collect"
        /\ seen' = [seen EXCEPT ![r] = len]
    BY <1>0, <1>2 DEF GetBuffHead, Running
  <2>2. ReaderText(r)'
    BY <1>0, <2>1 DEF ReaderText, Goto, LType
  <2> QED BY <1>0, <2>1, <2>2, QuietTexts
<1>3. CASE GetStat(r)
  <2>1. pc[r] = "get_stat" /\ seen[r] = len /\ r \in Running /\ got[r] = <<>>
    BY <1>0, <1>3 DEF GetStat, ReaderText, Running
  <2>2. /\ Write(len, Text("stat", Fits(len))) /\ Goto(r, "put_head") /\ UNCHANGED <<len, seen, delivered, got>>
    BY <1>3, <2>1 DEF GetStat
  <2>3. Behind("stat", Fits(len))' => ReaderText(r)'
    BY <1>0, <2>1, <2>2 DEF ReaderText, Goto, LType, Fits
  <2>4. Fits(len) \in Nat /\ (Fits(len) > 0 => len + Fits(len) <= BUFF_SIZE)
    BY <1>0, FitsFacts
  <2>5. Fits(len)' = Fits(len)
    BY <2>2 DEF Fits
  <2> QED BY <1>0, <2>1, <2>2, <2>3, <2>4, <2>5, WriteTexts DEF Behind
<1>4. CASE PutBuffHead(r)
  <2>1. pc[r] = "put_head" /\ seen[r] = len /\ Behind("stat", Fits(len)) /\ r \in Running /\ got[r] = <<>>
    BY <1>0, <1>4 DEF PutBuffHead, ReaderText, Running
  <2>2. PICK place \in {"collect", "pull"} : Goto(r, place)
    BY <1>4 DEF PutBuffHead
  <2>3. Fits(len) \in Nat /\ len + Fits(len) <= BUFF_SIZE
    BY <1>0, FitsFacts DEF Inside
  <2>4. UNCHANGED <<buffer, delivered, got>> /\ len' = len + Fits(len)
    BY <1>0, <1>4, <2>1, <2>3 DEF PutBuffHead
  <2>5. ReaderText(r)'
    BY <1>0, <2>1, <2>2, <2>4 DEF ReaderText, Goto, LType
  <2> QED BY <1>0, <2>1, <2>2, <2>3, <2>4, <2>5, AppendTexts
<1> QED BY <1>1, <1>2, <1>3, <1>4

\* The loop of a reader.
LEMMA PullSInv ==
    ASSUME WInv, mode = "serial", TextType, Texts, NEW r \in Readers,
           Pull(r) \/ Copy(r) \/ CopyFails(r)
    PROVE  TextType' /\ Texts'
<1> USE Constants, EmptySeq
<1>0. /\ LType /\ Inside /\ got \in [Readers -> Seq(Units)] /\ len \in Nat /\ r \in Tasks /\ ReaderText(r)
      /\ r \in Running
  BY DEF WInv, TextType, LType, Texts, Pull, Copy, CopyFails, Running
<1>1. UNCHANGED <<buffer, delivered, len>>
  BY DEF Pull, Copy, CopyFails
<1>2. CASE Return(r)
  <2>1. Goto(r, "idle") /\ got' = [got EXCEPT ![r] = <<>>]
    BY <1>2 DEF Return
  <2>2. got' \in [Readers -> Seq(Units)] /\ got'[r] = <<>> /\ \A q \in Readers : q # r => got'[q] = got[q]
    BY <1>0, <2>1
  <2>3. ReaderText(r)'
    BY <1>0, <2>1, <2>2 DEF ReaderText, Goto, LType
  <2> QED BY <1>0, <1>1, <2>1, <2>2, <2>3, QuietTexts
<1>3. CASE Pull(r) /\ ~Return(r)
  <2>1. /\ len > 0 /\ seen' = [seen EXCEPT ![r] = len] /\ Goto(r, "copy") /\ got' = got /\ pc[r] = "pull"
    BY <1>3 DEF Pull
  <2>2. ReaderText(r)'
    BY <1>0, <1>1, <2>1 DEF ReaderText, Goto, LType
  <2> QED BY <1>0, <1>1, <2>1, <2>2, QuietTexts
<1>4. CASE Copy(r)
  <2>1. pc[r] = "copy" /\ seen[r] = len /\ got[r] = <<>> /\ len <= BUFF_SIZE
    BY <1>0, <1>4 DEF Copy, ReaderText, Inside
  <2>2. /\ got' = [got EXCEPT ![r] = @ \o SubSeq(buffer, 1, len)] /\ Goto(r, "put") /\ seen' = seen
    BY <1>0, <1>4, <2>1 DEF Copy
  <2>3. SubSeq(buffer, 1, len) \in Seq(Units)
    BY <1>0, <2>1, PrefixFacts
  <2>4. <<>> \o SubSeq(buffer, 1, len) = SubSeq(buffer, 1, len)
    BY <2>3, ConcatEmptySeq
  <2>5. got' \in [Readers -> Seq(Units)] /\ got'[r] = SubSeq(buffer, 1, len)
        /\ \A q \in Readers : q # r => got'[q] = got[q]
    BY <1>0, <2>1, <2>2, <2>3, <2>4
  <2>6. ReaderText(r)'
    BY <1>0, <1>1, <2>1, <2>2, <2>5 DEF ReaderText, Goto, LType
  <2> QED BY <1>0, <1>1, <2>2, <2>5, <2>6, QuietTexts
<1> QED BY <1>2, <1>3, <1>4 DEF CopyFails

\* What was copied is consumed.
LEMMA PutSInv ==
    ASSUME WInv, mode = "serial", TextType, Texts, NEW r \in Readers, Put(r)
    PROVE  TextType' /\ Texts'
<1> USE Constants
<1>0. /\ LType /\ Inside /\ len \in Nat /\ len <= BUFF_SIZE /\ r \in Tasks /\ ReaderText(r)
      /\ r \in Running /\ pc[r] = "put"
  BY DEF WInv, LType, Texts, Put, Running, Inside
<1>1. /\ len' = 0 /\ delivered' = delivered \cup LinesOf(got[r]) /\ Goto(r, "pull")
      /\ UNCHANGED <<buffer, got>>
  BY DEF Put
<1>2. got[r] = SubSeq(buffer, 1, len)
  BY <1>0 DEF ReaderText
<1>3. \A w \in LinesOf(got[r]) : w \in Writers /\ pc[w] = "done"
  BY <1>0, <1>2, PrefixWhole DEF Texts
<1>4. pc'[r] = "pull" /\ \A u \in Tasks : u # r => pc'[u] = pc[u]
  BY <1>0, <1>1 DEF LType, Goto
<1>5. TextType'
  BY <1>1, <1>3 DEF TextType
<1>6. \A w \in delivered' : pc'[w] = "done"
  <2>1. \A w \in delivered' : w \in Writers /\ pc[w] = "done"
    BY <1>1, <1>3 DEF Texts, TextType
  <2> QED BY <1>4, <2>1
<1>7. WholeTo(len)' /\ NewTo(len)'
  BY <1>1 DEF WholeTo, NewTo
<1>8. ReaderText(r)'
  BY <1>1, <1>4 DEF ReaderText
<1>9. \A u \in Tasks : u # r => pc[u] \in {"idle", "done"}
  BY <1>0, Alone
<1> QED BY <1>0, <1>1, <1>4, <1>5, <1>6, <1>7, <1>8, <1>9, AloneTexts

\* Every step keeps SInv.
LEMMA NextSInv == WInv /\ SInv /\ [Next]_vars => SInv'
<1> SUFFICES ASSUME WInv, SInv, [Next]_vars, mode' = "serial" PROVE TextType' /\ Texts'
  BY DEF SInv
<1>0. mode = "serial" /\ TextType /\ Texts
  <2>1. mode' = mode
    BY DEF Next, vars, scbm_register, WriteTooLong, WriteCheck, WriterMoves, WriteCopy, WriteAdd, ReadNothing,
       ReadStart, ReaderMoves, GetBuffHead, GetStat, PutBuffHead, Pull, Copy, Put, CopyFails
  <2> QED BY <2>1 DEF SInv
<1>1. CASE scbm_register \/ UNCHANGED vars
  <2>1. UNCHANGED <<pc, buffer, len, seen, got, delivered>>
    BY <1>1 DEF scbm_register, vars
  <2> QED BY <1>0, <2>1 DEF TextType, Texts, WholeTo, NewTo, WriterText, ReaderText, Behind
<1>2. ASSUME NEW r \in Readers, ReadNothing(r) PROVE TextType' /\ Texts'
  <2>1. UNCHANGED <<pc, buffer, len, seen, got, delivered>>
    BY <1>2 DEF ReadNothing
  <2> QED BY <1>0, <2>1 DEF TextType, Texts, WholeTo, NewTo, WriterText, ReaderText, Behind
<1> QED
  BY <1>0, <1>1, <1>2, WriterSInv, CollectSInv, PullSInv, PutSInv DEF Next, ReaderMoves

\* Used by one process at a time, the logger hands out every line whole and only
\* once, however the writes, the statistics and the reads follow each other and
\* whatever the sizes of lines and buffers are.
THEOREM SerialIsWhole == Spec => []SerialReadsAreWhole
<1>1. ASSUME WInv, SInv PROVE SerialReadsAreWhole
  <2> SUFFICES ASSUME mode = "serial" PROVE SerialReadsAreWhole
    BY DEF SerialReadsAreWhole
  <2>1. TextType /\ Texts /\ len \in Nat /\ len <= BUFF_SIZE
    BY <1>1 DEF WInv, LType, Inside, SInv
  <2>2. Whole(SubSeq(buffer, 1, len)) /\ LinesOf(SubSeq(buffer, 1, len)) \cap delivered = {}
    BY <2>1, PrefixWhole DEF Texts
  <2>3. \A r \in Readers : pc[r] = "put" => got[r] = SubSeq(buffer, 1, len)
    BY <2>1 DEF Texts, ReaderText
  <2> QED BY <2>2, <2>3 DEF SerialReadsAreWhole
<1> QED BY <1>1, InitWInv, NextWInv, InitSInv, NextSInv, PTL DEF Spec
====
