------------------------------ MODULE AppendLog ------------------------------
(***************************************************************************)
(* What a compressed buffer promises: bytes are appended and never change, *)
(* and a sequential reader is delivered them in order, without gaps.       *)
(***************************************************************************)
EXTENDS SequencesExt

CONSTANT LogBytes

VARIABLES
  log,       \* the bytes appended
  delivered  \* the bytes the reader was given

LogInit == log = <<>> /\ delivered = <<>>

AppendToLog == log' \in Seq(LogBytes) /\ IsPrefix(log, log') /\ UNCHANGED delivered

Deliver == IsPrefix(delivered, delivered') /\ IsPrefix(delivered', log) /\ UNCHANGED log

LogSpec == LogInit /\ [][AppendToLog \/ Deliver]_<<log, delivered>>

=============================================================================
