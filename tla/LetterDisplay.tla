---------------------------- MODULE LetterDisplay ----------------------------
(***************************************************************************)
(* lab4: my_dev.c keeps the segments of one letter.  writer.c writes a     *)
(* letter a second, in the background; reader.c reads the segments and     *)
(* sends them to a server (not in the repository).  my_write and my_read   *)
(* go over the segments one by one and exclude nobody.  A segment is       *)
(* modelled by the number of the letter it was last written for.           *)
(***************************************************************************)
EXTENDS GpioDrivers

CONSTANTS
  Segments,  \* number of segments, 16 in the source
  MaxLetters \* bound: letters written

ASSUME LetterAssumption == Segments \in Nat \ {0} /\ MaxLetters \in Nat

VARIABLES
  data,     \* of the driver; 0: the zeroes it is loaded with
  complete, \* the last letter written to its end since then (history)
  letter,   \* the writer: where it is, and the segments and letters written
  reader,   \* the reader: where it is, the segments read, its frame, and the
            \* letter that was complete when it began to read (history)
  interrupted \* what the reader's SIGINT handler has closed: "nothing",
            \* "stdin" (before there was a connection), its "connection", or
            \* "both", with the device

letterVars == <<data, complete, letter, reader, interrupted>>

Empty == [i \in 1 .. Segments |-> 0]
NoLetter == [pc |-> "off", at |-> 0, done |-> 0]
NoReader == [pc |-> "off", at |-> 0, frame |-> Empty, since |-> 0]

LetterInit ==
  /\ data = Empty /\ complete = 0
  /\ letter = NoLetter
  /\ reader = NoReader
  /\ interrupted = "nothing"
-----------------------------------------------------------------------------
(* writer.c and my_write                                                   *)

(* "./writer ... &" *)
RunLetterWriter ==
  /\ letter.pc = "off"
  /\ letter' = [letter EXCEPT !.pc = "open"]
  /\ UNCHANGED <<data, complete, reader, interrupted, driverVars>>

LetterWriterOpens ==
  /\ letter.pc = "open"
  /\ Open("letter_writer", "my_dev")
  /\ letter' = IF file'["letter_writer"] = "failed" THEN [letter EXCEPT !.pc = "off"]
               ELSE [letter EXCEPT !.pc = "write", !.at = 0]
  /\ UNCHANGED <<data, complete, reader, interrupted, mod, region, cdev, node, class,
                 owner, level>>

(* Mutant of WriteSegment: the loop ends one early. *)
WriteButLast ==
  /\ letter.pc = "write" /\ letter.done < MaxLetters
  /\ IF letter.at = 0 THEN Works("letter_writer") ELSE ~Crashes("letter_writer")
  /\ LET i == letter.at + 1 IN
       \/ /\ i < Segments
          /\ data' = [data EXCEPT ![i] = letter.done + 1]
          /\ letter' = [letter EXCEPT !.at = i]
          /\ UNCHANGED complete
       \/ /\ i = Segments
          /\ letter' = [letter EXCEPT !.at = 0, !.done = @ + 1]
          /\ complete' = letter'.done
          /\ UNCHANGED data
  /\ stale' = stale \ {"letter_writer"}
  /\ UNCHANGED <<reader, interrupted, mod, region, cdev, node, class, owner,
                 level, file>>

(* my_write: the loop over i; after the last segment the letter is done.   *)
(* A call into code that is loaded again goes like any other.              *)
WriteSegment ==
  /\ letter.pc = "write" /\ letter.done < MaxLetters
  /\ IF letter.at = 0 THEN Works("letter_writer") ELSE ~Crashes("letter_writer")
  /\ LET i == letter.at + 1 IN
       /\ data' = [data EXCEPT ![i] = letter.done + 1]
       /\ \/ /\ i < Segments
             /\ letter' = [letter EXCEPT !.at = i]
             /\ UNCHANGED complete
          \/ /\ i = Segments
             /\ letter' = [letter EXCEPT !.at = 0, !.done = @ + 1]
             /\ complete' = letter'.done
  /\ stale' = stale \ {"letter_writer"}
  /\ UNCHANGED <<reader, interrupted, mod, region, cdev, node, class, owner,
                 level, file>>

(* The end of its argument; or the driver was removed under it.            *)
LetterWriterEnds ==
  /\ letter.pc = "write"
  /\ \/ letter.at = 0 /\ Works("letter_writer")
     \/ Crashes("letter_writer")
  /\ letter' = [letter EXCEPT !.pc = "off", !.at = 0]
  /\ Close({"letter_writer"})
  /\ UNCHANGED <<data, complete, reader, interrupted, mod, region, cdev, node, class,
                 owner, level>>
-----------------------------------------------------------------------------
(* reader.c and my_read                                                    *)

(* Up to the handler: connfd and fd are still 0. *)
RunReader ==
  /\ reader.pc = "off"
  /\ reader' = [NoReader EXCEPT !.pc = "begin"]
  /\ UNCHANGED <<data, complete, letter, interrupted, driverVars>>

(* Without a socket it ends at once. *)
ReaderGetsSocket ==
  /\ reader.pc = "begin"
  /\ \/ reader' = [reader EXCEPT !.pc = "connect"] /\ UNCHANGED interrupted
     \/ reader' = NoReader /\ interrupted' = "nothing"
  /\ UNCHANGED <<data, complete, letter, driverVars>>

(* So it does without a server, or when the handler has closed the socket. *)
ReaderConnects ==
  /\ reader.pc = "connect"
  /\ \/ /\ interrupted # "connection"
        /\ reader' = [reader EXCEPT !.pc = "open"]
        /\ UNCHANGED interrupted
     \/ reader' = NoReader /\ interrupted' = "nothing"
  /\ UNCHANGED <<data, complete, letter, driverVars>>

ReaderOpens ==
  /\ reader.pc = "open"
  /\ Open("reader", "my_dev")
  /\ \/ file'["reader"] = "failed" /\ reader' = NoReader
        /\ interrupted' = "nothing"
     \/ file'["reader"] # "failed" /\ reader' = [reader EXCEPT !.pc = "read"]
        /\ UNCHANGED interrupted
  /\ UNCHANGED <<data, complete, letter, mod, region, cdev, node, class, owner,
                 level>>

(* copy_to_user, a segment at a time. *)
ReadSegment ==
  /\ reader.pc = "read" /\ reader.at < Segments
  /\ IF reader.at = 0 THEN Works("reader") /\ interrupted # "both"
     ELSE ~Crashes("reader")
  /\ LET i == reader.at + 1 IN
       reader' = [reader EXCEPT !.at = i, !.frame[i] = data[i],
                                !.since = IF i = 1 THEN complete ELSE @]
  /\ stale' = stale \ {"reader"}
  /\ UNCHANGED <<data, complete, letter, interrupted, mod, region, cdev, node,
                 class, owner, level, file>>

(* write() to the server. *)
SendFrame ==
  /\ reader.pc = "read" /\ reader.at = Segments
  /\ interrupted \in {"nothing", "stdin"}
  /\ reader' = [reader EXCEPT !.at = 0]
  /\ UNCHANGED <<data, complete, letter, interrupted, driverVars>>

(* Mutant of ReaderEnds: an error of read() or write() does not end it. *)
ReaderIgnores ==
  /\ reader.pc = "read" /\ Crashes("reader")
  /\ reader' = NoReader
  /\ Close({"reader"})
  /\ interrupted' = "nothing"
  /\ UNCHANGED <<data, complete, letter, mod, region, cdev, node, class, owner,
                 level>>

(* read() fails, of the device that the handler has closed; or write(), to *)
(* the connection it has closed, or to a server that is gone; or the       *)
(* driver was removed.                                                     *)
ReaderEnds ==
  /\ reader.pc = "read"
  /\ \/ reader.at = 0 /\ interrupted = "both"
     \/ reader.at = Segments
     \/ Crashes("reader")
  /\ reader' = NoReader
  /\ Close({"reader"})
  /\ interrupted' = "nothing"
  /\ UNCHANGED <<data, complete, letter, mod, region, cdev, node, class, owner,
                 level>>

(* sigint_handler: it closes fd and connfd and goes back to main().  Both  *)
(* are 0 before line 31: descriptor 0 is closed, and the socket and the    *)
(* device that come later are not.  (Bound: a reader this has happened to  *)
(* is not interrupted again between connect() and open().)                 *)
SigintReader ==
  /\ \/ reader.pc = "begin" /\ interrupted' = "stdin"
     \/ reader.pc = "connect" /\ interrupted' = "connection"
     \/ reader.pc = "open" /\ interrupted # "stdin" /\ interrupted' = "connection"
     \/ reader.pc = "read" /\ interrupted' = "both"
  /\ UNCHANGED <<data, complete, letter, reader, driverVars>>

(* insmod brings the zeroes back. *)
ClearData ==
  /\ data' = Empty /\ complete' = 0
  /\ UNCHANGED <<letter, reader, interrupted>>
-----------------------------------------------------------------------------
LetterWriterWorks == LetterWriterOpens \/ WriteSegment \/ LetterWriterEnds
ReaderWorks ==
  \/ ReaderGetsSocket \/ ReaderConnects
  \/ ReaderOpens \/ ReadSegment \/ SendFrame \/ ReaderEnds

LetterNext == LetterWriterWorks \/ ReaderWorks \/ SigintReader
-----------------------------------------------------------------------------
(* A frame may mix letters, as my_read and my_write do not exclude each    *)
(* other (my_dev.c 69, 88-98); but no segment of it is older than the last *)
(* letter that was complete when the read began, and when no letter was    *)
(* written meanwhile it is that letter.                                    *)
FrameFresh ==
  reader.pc = "read" =>
    /\ \A i \in 1 .. reader.at : reader.frame[i] >= reader.since
    /\ reader.at = Segments /\ "reader" \notin stale
         /\ complete = reader.since /\ letter.at = 0 =>
         \A i \in 1 .. Segments : reader.frame[i] = reader.since
=============================================================================
