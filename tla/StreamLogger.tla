---- MODULE StreamLogger ----
(***************************************************************************)
(* The stream logger (logger/logger.c, dpb.h, stats_cb_mgr.h): one buffer  *)
(* that writers of the proc file append lines to and readers of two proc   *)
(* files empty, with statistics collected into it first.  Nothing in it is *)
(* locked.                                                                 *)
(*                                                                         *)
(* A unit of text is a pair <<line, i>>, the i-th unit of a line; a line is*)
(* named after the writer of it, a statistic "stat".  A variable        *)
(* that is read twice without a lock may be taken from memory or from a    *)
(* register the second time.                                               *)
(***************************************************************************)
EXTENDS Naturals, Sequences, FiniteSets

CONSTANTS Writers,    \* the writes to the proc file log
          Readers,    \* the processes that read
          size,       \* size[w]: the length of the line of writer w
          room,       \* room[r]: the length of the user buffer of reader r
          StatSize,   \* the length of the statistic
          BUFF_SIZE,
          MaxRunning, \* how many processes use the logger at a time in mode "any"
          Modes       \* how processes share the logger, see MayStart

Tasks == Writers \cup Readers

ASSUME LoggerConstants ==
    /\ Writers \cap Readers = {} /\ {"none", "stat"} \cap Writers = {}
    /\ size \in [Writers -> Nat \ {0}]
    /\ room \in [Readers -> Nat]
    /\ StatSize \in Nat
    /\ BUFF_SIZE \in Nat /\ MaxRunning \in Nat
    /\ Modes \subseteq {"serial", "one_writer", "any"}

VARIABLES mode,
          pc,        \* pc[t]: where task t is
          buffer,    \* buffer[i]: the unit there
          len,       \* mgr->len
          seen,      \* seen[t]: the value of len that t read last
          got,       \* got[r]: what reader r has copied to its user buffer
          again,     \* again[r]: the list of callbacks goes on after this one
          odd,       \* odd[r]: the lowest bit of the file position of r
          cbs,       \* the list of callbacks: "empty", "one" or "loop"
          delivered, \* the lines that readers have consumed
          oops

vars == <<mode, pc, buffer, len, seen, got, again, odd, cbs, delivered, oops>>

Blank == <<"none", 0>>

\* md_init.
Init ==
    /\ mode \in Modes
    /\ pc = [t \in Tasks |-> "idle"]
    /\ buffer = [i \in 1 .. BUFF_SIZE |-> Blank]
    /\ len = 0
    /\ seen = [t \in Tasks |-> 0]
    /\ got = [r \in Readers |-> <<>>]
    /\ again = [r \in Readers |-> FALSE]
    /\ odd = [r \in Readers |-> FALSE]
    /\ cbs = "empty"
    /\ delivered = {}
    /\ oops = "none"

Goto(t, place) == pc' = [pc EXCEPT ![t] = place]

Running == {t \in Tasks : pc[t] \notin {"idle", "done"}}

\* One process at a time, one writer beside any number of readers and no
\* statistics, or any that the bound of the model allows.
MayStart(t) ==
    /\ oops = "none"
    /\ mode = "serial" => Running = {}
    /\ mode = "one_writer" /\ t \in Writers => Running \cap Writers = {}
    /\ mode = "any" => Cardinality(Running) < MaxRunning

\* Units text are written to the buffer behind position at.
Write(at, text) ==
    IF text # <<>> /\ at + Len(text) > BUFF_SIZE
    THEN oops' = "overflow" /\ UNCHANGED buffer
    ELSE /\ buffer' = [i \in 1 .. BUFF_SIZE |-> IF i - at \in 1 .. Len(text) THEN text[i - at] ELSE buffer[i]]
         /\ UNCHANGED oops

Text(line, n) == [i \in 1 .. n |-> <<line, i>>]

----
(* logger_log_write and trvlb_log_formated_string.                         *)

\* A line that does not fit into an empty buffer is dropped; the writer is told
\* that it was written.
WriteTooLong(w) ==
    /\ MayStart(w) /\ pc[w] = "idle" /\ size[w] > BUFF_SIZE
    /\ Goto(w, "done")
    /\ UNCHANGED <<mode, buffer, len, seen, got, again, odd, cbs, delivered, oops>>

\* Mutant: the length of the line is left out of the comparison.
WriteCheck_no_len(w) ==
    /\ MayStart(w) /\ pc[w] = "idle" /\ size[w] <= BUFF_SIZE
    /\ len' = IF len >= BUFF_SIZE THEN 0 ELSE len
    /\ seen' = [seen EXCEPT ![w] = len']
    /\ Goto(w, "memcpy")
    /\ UNCHANGED <<mode, buffer, got, again, odd, cbs, delivered, oops>>

\* When the line does not fit behind the others, all of those are dropped.
WriteCheck(w) ==
    /\ MayStart(w) /\ pc[w] = "idle" /\ size[w] <= BUFF_SIZE
    /\ len' = IF size[w] + len > BUFF_SIZE THEN 0 ELSE len
    /\ seen' = [seen EXCEPT ![w] = len']
    /\ Goto(w, "memcpy")
    /\ UNCHANGED <<mode, buffer, got, again, odd, cbs, delivered, oops>>

WriteCopy(w) ==
    /\ oops = "none" /\ pc[w] = "memcpy"
    /\ \E at \in {len, seen[w]} : Write(at, Text(w, size[w]))
    /\ Goto(w, "add")
    /\ UNCHANGED <<mode, len, seen, got, again, odd, cbs, delivered>>

WriteAdd(w) ==
    /\ oops = "none" /\ pc[w] = "add"
    /\ \E at \in {len, seen[w]} : len' = at + size[w]
    /\ seen' = [seen EXCEPT ![w] = 0]
    /\ Goto(w, "done")
    /\ UNCHANGED <<mode, buffer, got, again, odd, cbs, delivered, oops>>

----
(* stats_log_write and scbm_register.                                      *)

\* The one debug_entry is added to the list.  Added for a second time it is its
\* own successor, unless the kernel was built to refuse that.
scbm_register ==
    /\ oops = "none" /\ mode # "one_writer"
    /\ mode = "serial" => Running = {}
    /\ cbs' \in IF cbs = "empty" THEN {"one"} ELSE {cbs, "loop"}
    /\ UNCHANGED <<mode, pc, buffer, len, seen, got, again, odd, delivered, oops>>

----
(* stats_log_read, which both proc files have.                             *)

\* Every second read of an open file returns nothing.
ReadNothing(r) ==
    /\ MayStart(r) /\ pc[r] = "idle" /\ odd[r]
    /\ odd' = [odd EXCEPT ![r] = FALSE]
    /\ UNCHANGED <<mode, pc, buffer, len, seen, got, again, cbs, delivered, oops>>

\* The others collect the statistics first.
ReadStart(r) ==
    /\ MayStart(r) /\ pc[r] = "idle" /\ ~odd[r]
    /\ odd' = [odd EXCEPT ![r] = TRUE]
    /\ Goto(r, IF cbs = "empty" THEN "pull" ELSE "collect")
    /\ UNCHANGED <<mode, buffer, len, seen, got, again, cbs, delivered, oops>>

\* scbm_collect_stats: the next entry is read and the end of the text taken.
GetBuffHead(r) ==
    /\ oops = "none" /\ pc[r] = "collect"
    /\ again' = [again EXCEPT ![r] = cbs = "loop"]
    /\ seen' = [seen EXCEPT ![r] = len]
    /\ Goto(r, "get_stat")
    /\ UNCHANGED <<mode, buffer, len, got, odd, cbs, delivered, oops>>

\* How much of the statistic scnprintf puts into the room behind position at:
\* it leaves one place for a NUL.
Fits(at) == IF at >= BUFF_SIZE THEN 0
            ELSE IF StatSize < BUFF_SIZE - at THEN StatSize ELSE BUFF_SIZE - at - 1

\* The callback prints into the buffer.
GetStat(r) ==
    /\ oops = "none" /\ pc[r] = "get_stat"
    /\ Write(seen[r], Text("stat", Fits(seen[r])))
    /\ Goto(r, "put_head")
    /\ UNCHANGED <<mode, len, seen, got, again, odd, cbs, delivered>>

\* Mutant: the walk over the list starts again.
PutBuffHead_again(r) ==
    /\ oops = "none" /\ pc[r] = "put_head"
    /\ len' = IF len + Fits(seen[r]) > BUFF_SIZE THEN len ELSE len + Fits(seen[r])
    /\ Goto(r, IF cbs = "empty" THEN "pull" ELSE "collect")
    /\ UNCHANGED <<mode, buffer, seen, got, again, odd, cbs, delivered, oops>>

\* trvlb_put_buff_head accounts for it.
PutBuffHead(r) ==
    /\ oops = "none" /\ pc[r] = "put_head"
    /\ len' = IF len + Fits(seen[r]) > BUFF_SIZE THEN len ELSE len + Fits(seen[r])
    /\ Goto(r, IF again[r] THEN "collect" ELSE "pull")
    /\ UNCHANGED <<mode, buffer, seen, got, again, odd, cbs, delivered, oops>>

\* The read returns; its variables are gone.
Return(r) ==
    /\ Goto(r, "idle")
    /\ seen' = [seen EXCEPT ![r] = 0]
    /\ got' = [got EXCEPT ![r] = <<>>]
    /\ again' = [again EXCEPT ![r] = FALSE]

\* The loop of stats_log_read: it ends when nothing is there, the user buffer
\* is full or too small for all that is there.
Pull(r) ==
    /\ oops = "none" /\ pc[r] = "pull"
    /\ IF Len(got[r]) < room[r] /\ len > 0 /\ Len(got[r]) + len <= room[r]
       THEN seen' = [seen EXCEPT ![r] = len] /\ Goto(r, "copy") /\ UNCHANGED <<got, again>>
       ELSE Return(r)
    /\ UNCHANGED <<mode, buffer, len, odd, cbs, delivered, oops>>

\* copy_to_user of as many units as there were.
Copy(r) ==
    /\ oops = "none" /\ pc[r] = "copy"
    /\ IF seen[r] > BUFF_SIZE
       THEN oops' = "overread" /\ UNCHANGED got
       ELSE got' = [got EXCEPT ![r] = @ \o SubSeq(buffer, 1, seen[r])] /\ UNCHANGED oops
    /\ Goto(r, "put")
    /\ UNCHANGED <<mode, buffer, len, seen, again, odd, cbs, delivered>>

\* It fails: the read returns an error and leaves the text where it is.
CopyFails(r) ==
    /\ oops = "none" /\ pc[r] = "copy"
    /\ Return(r)
    /\ UNCHANGED <<mode, buffer, len, odd, cbs, delivered, oops>>

LinesOf(text) == {text[i][1] : i \in 1 .. Len(text)} \cap Writers

\* Mutant: only what was copied is taken off the length.
Put_subtracts(r) ==
    /\ oops = "none" /\ pc[r] = "put"
    /\ len' = IF len > seen[r] THEN len - seen[r] ELSE len
    /\ delivered' = delivered \cup LinesOf(got[r])
    /\ Goto(r, "pull")
    /\ UNCHANGED <<mode, buffer, seen, got, again, odd, cbs, oops>>

\* trvlb_put_formated_buffer: the buffer is empty, whatever has been added since
\* the copy.
Put(r) ==
    /\ oops = "none" /\ pc[r] = "put"
    /\ len' = 0
    /\ delivered' = delivered \cup LinesOf(got[r])
    /\ Goto(r, "pull")
    /\ UNCHANGED <<mode, buffer, seen, got, again, odd, cbs, oops>>

----
WriterMoves(w) == WriteCopy(w) \/ WriteAdd(w)
ReaderMoves(r) == GetBuffHead(r) \/ GetStat(r) \/ PutBuffHead(r) \/ Pull(r) \/ Copy(r) \/ Put(r)

Next ==
    \/ scbm_register
    \/ \E w \in Writers : WriteTooLong(w) \/ WriteCheck(w) \/ WriterMoves(w)
    \/ \E r \in Readers : ReadNothing(r) \/ ReadStart(r) \/ ReaderMoves(r) \/ CopyFails(r)

\* System calls that were begun go on; nobody has to begin one.
Spec == Init /\ [][Next]_vars
             /\ \A w \in Writers : WF_vars(WriterMoves(w))
             /\ \A r \in Readers : WF_vars(ReaderMoves(r))

----
(* Correctness.                                                            *)

\* Every line in a text is there from its first unit to its last.
Whole(text) ==
    \A i \in 1 .. Len(text) :
        LET line == text[i][1]
            k == text[i][2]
        IN  line \in Writers =>
              /\ k = 1 \/ (i > 1 /\ text[i - 1] = <<line, k - 1>>)
              /\ k = size[line] \/ (i < Len(text) /\ text[i + 1] = <<line, k + 1>>)

\* Used by one process at a time, the logger hands out every line whole and only
\* once, and statistics cut to the room that is left: the lines that are dropped
\* to make room for another are dropped altogether.
SerialReadsAreWhole ==
    mode = "serial" =>
        /\ \A r \in Readers : pc[r] = "put" => Whole(got[r]) /\ LinesOf(got[r]) \cap delivered = {}
        /\ Running = {} =>
              Whole(SubSeq(buffer, 1, len)) /\ LinesOf(SubSeq(buffer, 1, len)) \cap delivered = {}

\* No text is written behind the end of the buffer and none is read from there
\* as long as only one process writes, whatever the readers that set len back
\* and the compiler do.
OneWriterStaysInside == mode # "any" => oops = "none" /\ len <= BUFF_SIZE

\* A read comes to its end, if the debug entry is not registered twice.
CollectingEnds ==
    \A r \in Readers : (pc[r] # "idle" ~> pc[r] = "idle" \/ cbs = "loop" \/ oops # "none")
====
