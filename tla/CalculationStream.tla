-------------------------- MODULE CalculationStream --------------------------
(***************************************************************************)
(* The event stream of a calculation from the server's write() to the      *)
(* page: MeetingApi composed with the connection and with the reader of    *)
(* lib/client/calculation-stream.ts.  What the server wrote arrives in     *)
(* chunks cut anywhere, heartbeats come between the events, and the reader *)
(* puts the events together again while the server still works.  The text  *)
(* of the stream is a sequence of symbols: a line "event: name" (its name),*)
(* the two halves of a line "data: payload", a comment and the line ends.  *)
(***************************************************************************)
EXTENDS MeetingApi

LOCAL INSTANCE SequencesExt

CONSTANTS
  LineEnds,   (* how lines may end once they arrive, symbol sequences       *)
  MaxChunk    (* bound: the symbols of a chunk                              *)

VARIABLES
  lineEnd,   (* what ends a line on this connection                         *)
  wire,      (* the text written for each stream                            *)
  reader     (* readCalculationStream for each stream                       *)

streamVars == <<lineEnd, wire, reader>>

Streams == {r \in Requests : Kind[r] = "stream"}

StreamInit ==
  /\ Init
  /\ lineEnd \in LineEnds
  /\ wire = [r \in Streams |-> <<>>]
  /\ reader = [r \in Streams |-> [status |-> "reading", taken |-> 0, buffer |-> <<>>,
                                  heard |-> <<>>]]

-------------------------------------------------------------------------------
(* The server.                                                              *)

EventLine(e) ==
  CASE e = "station-verdict" -> "event: station-verdict"
    [] e = "ref" -> "event: ref"
    [] e = "result" -> "event: result"
    [] e = "error" -> "event: error"
    [] OTHER -> "event: progress"

FrameOf(e) ==
  <<EventLine(e)>> \o lineEnd \o <<"{", e>> \o lineEnd \o lineEnd

Heartbeat == <<"heartbeat">> \o lineEnd \o lineEnd

\* Each event a handler sends is written as one frame.
Serve ==
  /\ Next
  /\ wire' = [r \in Streams |->
       LET sent == SubSeq(events'[r], Len(events[r]) + 1, Len(events'[r]))
       IN  wire[r] \o FlattenSeq([i \in DOMAIN sent |-> FrameOf(sent[i])])]
  /\ UNCHANGED <<lineEnd, reader>>

\* The interval finds that nothing was written for a while.  Bound: once.
Beat(r) ==
  /\ turn = Idle
  /\ pc[r] = "access"
  /\ ~gone[r]
  /\ ~\E i \in DOMAIN wire[r] : wire[r][i] = "heartbeat"
  /\ wire' = [wire EXCEPT ![r] = @ \o Heartbeat]
  /\ UNCHANGED <<vars, lineEnd, reader>>

-------------------------------------------------------------------------------
(* The reader.                                                              *)

\* buffer.replace(/\r\n?/g, "\n")
Normalised(text) ==
  LET IsPairEnd(i) == text[i] = "LF" /\ i > 1 /\ text[i - 1] = "CR"
      kept == SelectSeq([i \in DOMAIN text |-> i], LAMBDA i : ~IsPairEnd(i))
  IN  [i \in DOMAIN kept |-> IF text[kept[i]] = "CR" THEN "LF" ELSE text[kept[i]]]

\* The second LF of each empty line.
FrameEnds(text) ==
  LET LineFeeds(i) == {k \in 1 .. i : \A n \in k .. i : text[n] = "LF"}
  IN  {i \in 2 .. Len(text) : /\ text[i] = "LF" /\ text[i - 1] = "LF"
                              /\ Cardinality(LineFeeds(i)) % 2 = 0}

\* The text up to each of these ends, and the rest.
Cut(text, ends) ==
  LET UpTo(e) == {f \in ends : f <= e}
      End(k) == CHOOSE e \in ends \cup {0} : Cardinality(UpTo(e)) = k
  IN  [frames |-> [k \in 1 .. Cardinality(ends) |-> SubSeq(text, End(k - 1) + 1, End(k) - 2)],
       rest |-> SubSeq(text, End(Cardinality(ends)) + 1, Len(text))]

\* Mutant of CutFrames: one frame is taken from each chunk.
CutOneFrame(text) ==
  Cut(text, {e \in FrameEnds(text) : \A f \in FrameEnds(text) : e <= f})

\* Every frame that an empty line ends, and the rest.
CutFrames(text) == Cut(text, FrameEnds(text))

EventLines == {EventLine(e) : e \in ToSet(Progress) \cup {"ref", "result", "error"}}

\* parseFrame: the event of a frame (the last event line), and its data.
EventsOf(frame) == SelectSeq(frame, LAMBDA symbol : symbol \in EventLines)
DataOf(frame) ==
  SelectSeq(frame, LAMBDA symbol : symbol \notin EventLines \cup {"LF", "heartbeat"})

\* dispatch: a frame without data or of an unknown event is passed over, data
\* that is no whole payload throws.
Dispatched(page, frames) ==
  LET Throws(i) == Len(DataOf(frames[i])) = 1
      IsHeard(i) == /\ Len(DataOf(frames[i])) = 2
                    /\ EventsOf(frames[i]) # <<>>
                    /\ Last(EventsOf(frames[i])) = EventLine(DataOf(frames[i])[2])
                    /\ ~\E k \in 1 .. i - 1 : Throws(k)
      heard == SelectSeq([i \in DOMAIN frames |-> i], IsHeard)
  IN  [page EXCEPT
         !.status = IF \E i \in DOMAIN frames : Throws(i) THEN "failed" ELSE @,
         !.heard = @ \o [k \in DOMAIN heard |-> DataOf(frames[heard[k]])[2]]]

\* Mutant of Receive: the text left over from the last chunk is dropped.
ReceiveAlone(r, n) ==
  LET page == reader[r]
      cut == CutFrames(Normalised(SubSeq(wire[r], page.taken + 1, n)))
  IN  /\ turn = Idle
      /\ page.status = "reading"
      /\ ~gone[r]
      /\ wire[r][n] # "CR"
      /\ reader' = [reader EXCEPT ![r] =
           Dispatched([page EXCEPT !.taken = n, !.buffer = cut.rest], cut.frames)]
      /\ UNCHANGED <<vars, lineEnd, wire>>

\* A chunk with the text up to symbol n arrives.  Bound: chunks arrive between
\* turns; what arrives within a turn is a part of what arrives after it.
Receive(r, n) ==
  LET page == reader[r]
      cut == CutFrames(Normalised(page.buffer \o SubSeq(wire[r], page.taken + 1, n)))
  IN  /\ turn = Idle
      /\ page.status = "reading"
      /\ ~gone[r]
      /\ wire[r][n] # "CR"
      /\ reader' = [reader EXCEPT ![r] =
           Dispatched([page EXCEPT !.taken = n, !.buffer = cut.rest], cut.frames)]
      /\ UNCHANGED <<vars, lineEnd, wire>>

\* A chunk ends between CR and LF: the reader takes both for line ends of their
\* own and may lose the event.  What it hears from here on is not followed.
ReceiveTorn(r, n) ==
  /\ turn = Idle
  /\ reader[r].status = "reading"
  /\ ~gone[r]
  /\ wire[r][n] = "CR"
  /\ reader' = [reader EXCEPT ![r].status = "torn"]
  /\ UNCHANGED <<vars, lineEnd, wire>>

ReceiveSome(r) ==
  \E n \in reader[r].taken + 1 .. Len(wire[r]) :
    n <= reader[r].taken + MaxChunk /\ (Receive(r, n) \/ ReceiveTorn(r, n))

\* The handler has closed the stream, or answered without one.
Finish(r) ==
  /\ pc[r] = "done"
  /\ reader[r].status = "reading"
  /\ reader[r].taken = Len(wire[r])
  /\ ~gone[r]
  /\ reader' = [reader EXCEPT ![r].status = "complete"]
  /\ UNCHANGED <<vars, lineEnd, wire>>

StreamNext ==
  \/ Serve
  \/ \E r \in Streams : Beat(r) \/ ReceiveSome(r) \/ Finish(r)

\* The fairness of MeetingApi; nothing is assumed of the connection.
StreamSpec == StreamInit /\ [][StreamNext]_<<vars, streamVars>> /\ Fairness

-------------------------------------------------------------------------------
(* Properties.                                                              *)

\* The events whose frames have arrived.
Arrived(r) ==
  LET whole == {i \in 1 .. reader[r].taken :
                  wire[r][i] = "{" /\ i + 1 + 2 * Len(lineEnd) <= reader[r].taken}
  IN  SubSeq(events[r], 1, Cardinality(whole))

\* The page has heard exactly the events whose frames have arrived, none later
\* and none twice, however the text was cut and whatever heartbeats came between
\* - unless a chunk ended between CR and LF.
ClientHearsWhatServerWrote ==
  \A r \in Streams :
    reader[r].status # "torn" =>
      reader[r].status # "failed" /\ reader[r].heard = Arrived(r)

\* Every request whose body arrived is answered and its slot comes back, even
\* when the upstream never answers.
Answered ==
  \A r \in Requests : pc[r] # "new" ~> pc[r] = "done" /\ slot[r] # "held"
===============================================================================
