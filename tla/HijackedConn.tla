----------------------------- MODULE HijackedConn -----------------------------
(***************************************************************************)
(* One end of a connection that is taken over from HTTP: dialAndHijack and *)
(* the Read of hijackedConn.                                               *)
(*                                                                         *)
(* The other end sends one HTTP message and then the bytes of the new      *)
(* protocol.  The bufio.Reader that parses the message may have read some  *)
(* of these bytes already.  The message is one unit of the stream, a byte  *)
(* is its number.  The network and bufio are external.                     *)
(***************************************************************************)
EXTENDS Integers, Sequences

CONSTANTS
  MaxStream,  \* bound: bytes that are sent after the message
  BufLens     \* lengths of the slices given to Read

ASSUME StreamAssumption == MaxStream \in Nat /\ BufLens \subseteq Nat \ {0}

VARIABLES
  dial,      \* dialAndHijack: "request" until it was sent, "response", "open", "failed"
  wire,      \* the units that were sent and not received
  bufr,      \* hijackedConn.bufr: the units buffered, or nil
  sent,      \* history: the number of bytes sent
  received   \* history: the bytes that Read returned

connVars == <<dial, wire, bufr, sent, received>>

\* The HTTP message as a unit of the stream.
StatusOK == 0
StatusError == -1

NilReader == [nil |-> TRUE, units |-> <<>>]
Reader(units) == [nil |-> FALSE, units |-> units]

Shorter(n, s) == IF n < Len(s) THEN n ELSE Len(s)
FirstUnits(n, s) == SubSeq(s, 1, n)
After(n, s) == SubSeq(s, n + 1, Len(s))

ConnInit ==
  /\ dial = "request"
  /\ wire = <<>>
  /\ bufr = Reader(<<>>)
  /\ sent = 0
  /\ received = <<>>

\* dialAndHijack connects and writes its request: url.Parse, tls.Dial (a scheme other
\* than https panics instead), http.NewRequest and req.Write, any of which may fail.
Connect ==
  /\ dial = "request"
  /\ dial' \in {"response", "failed"}
  /\ UNCHANGED <<wire, bufr, sent, received>>

\* The other end answers with a status (one that is not OK also stands for a
\* response that cannot be read), and after 200 OK goes on in the new protocol.
Answer(status) ==
  /\ dial = "response" /\ wire = <<>> /\ bufr.units = <<>>
  /\ wire' = <<status>>
  /\ UNCHANGED <<dial, bufr, sent, received>>

Answered == dial = "open" \/ \E s \in {wire, bufr.units} : s # <<>> /\ Head(s) = StatusOK

Send ==
  /\ Answered
  /\ sent < MaxStream
  /\ sent' = sent + 1
  /\ wire' = Append(wire, sent')
  /\ UNCHANGED <<dial, bufr, received>>

\* bufio fills its buffer with as much as there is, when the message is not in it.
FillBuffer ==
  /\ dial = "response" /\ bufr.units = <<>>
  /\ \E n \in 1..Len(wire) : bufr' = Reader(FirstUnits(n, wire)) /\ wire' = After(n, wire)
  /\ UNCHANGED <<dial, sent, received>>

\* http.ReadResponse, the check of the status and newHijackedConn.
ReadResponse ==
  /\ dial = "response" /\ bufr.units # <<>>
  /\ dial' = IF Head(bufr.units) = StatusOK THEN "open" ELSE "failed"
  /\ bufr' = Reader(Tail(bufr.units))
  /\ UNCHANGED <<wire, sent, received>>

\* Mutant: what was not asked for is dropped with the reader.
LeftNone(n, s) == NilReader
\* The reader after n of its buffered units were read.
Left(n, s) == Reader(After(n, s))

\* hijackedConn.Read: buffered bytes first, and no more than these; then the
\* reader is dropped and the connection read directly.
ReadBuffered(len) ==
  /\ dial = "open" /\ bufr.units # <<>>
  /\ LET n == Shorter(len, bufr.units)
     IN  /\ received' = received \o FirstUnits(n, bufr.units)
         /\ bufr' = Left(n, bufr.units)
  /\ UNCHANGED <<dial, wire, sent>>

ReadDirect(len) ==
  /\ dial = "open" /\ bufr.units = <<>>
  /\ bufr' = NilReader
  /\ \E n \in 1..Shorter(len, wire) :
       received' = received \o FirstUnits(n, wire) /\ wire' = After(n, wire)
  /\ UNCHANGED <<dial, sent>>

\* The caller is done with the connection, or dialAndHijack has returned an error
\* (without closing it), and it dials again.
DialAgain ==
  /\ dial \in {"open", "failed"}
  /\ dial' = "request"
  /\ wire' = <<>> /\ bufr' = Reader(<<>>)
  /\ sent' = 0 /\ received' = <<>>

ConnNext ==
  \/ Connect
  \/ \E status \in {StatusOK, StatusError} : Answer(status)
  \/ Send
  \/ FillBuffer
  \/ ReadResponse
  \/ DialAgain
  \/ \E len \in BufLens : ReadBuffered(len) \/ ReadDirect(len)

ConnSpec == ConnInit /\ [][ConnNext]_connVars

-----------------------------------------------------------------------------
\* No byte of the new protocol is lost, repeated or reordered on its way through
\* the network, the HTTP reader and Read, however much the HTTP reader took, and a
\* reader that was dropped held nothing.
StreamIntact ==
  /\ dial \in {"request", "response", "open", "failed"}
  /\ bufr.nil => bufr.units = <<>>
  /\ dial = "open" => received \o bufr.units \o wire = [i \in 1..sent |-> i]
  /\ dial # "open" => received = <<>>

=============================================================================
