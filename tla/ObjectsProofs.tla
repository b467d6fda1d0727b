---------------------------- MODULE ObjectsProofs ----------------------------
(***************************************************************************)
(* Proofs about components that do not share state, each about its own     *)
(* specification and for every value of its constants:                     *)
(*   - hijackedConn hands on the stream that was sent;                     *)
(*   - badgerkv.Store implements an atomic key-value store;                *)
(*   - a connection that hijackHandler took over is in one place, and done *)
(*     is closed once;                                                     *)
(*   - RefContext's watcher finds the context it waited for at the head of *)
(*     the list, and no living context is lost from a list that shrinks at *)
(*     random places;                                                      *)
(*   - bufferpool hands a region to one owner at a time, sized as asked    *)
(*     and, from Get, zeroed;                                              *)
(*   - failover leaves no goroutine and no value behind when DoSlice       *)
(*     returns, and without a cancellation it loses no result.             *)
(***************************************************************************)
EXTENDS HijackedConn, HijackListener, RefContext, BufferPool, BadgerStore, Failover,
        FiniteSetTheorems, SequenceTheorems, WellFoundedInduction, TLAPS

-----------------------------------------------------------------------------
\* HijackedConn.  What the other end has sent in the new protocol, and all the
\* units that are not yet handed to the reader of the connection.
Stream(m) == [i \in 1..m |-> i]
InFlight == bufr.units \o wire

ConnTypes ==
  /\ dial \in {"request", "response", "open", "failed"}
  /\ wire \in Seq(Int) /\ bufr.units \in Seq(Int) /\ received \in Seq(Int)
  /\ sent \in Nat
  /\ bufr.nil => bufr.units = <<>>

\* Before the request is sent there is nothing.
StartInv == dial = "request" => wire = <<>> /\ bufr.units = <<>> /\ sent = 0 /\ received = <<>>

\* While the response is awaited nothing is in flight, or a refusal alone, or the
\* message and all of the stream after it.
AwaitInv ==
  dial = "response" =>
    /\ received = <<>>
    /\ \/ InFlight = <<>> /\ sent = 0
       \/ InFlight = <<StatusError>> /\ sent = 0
       \/ InFlight = <<StatusOK>> \o Stream(sent)

OpenInv == dial = "open" => received \o InFlight = Stream(sent)
FailedInv == dial = "failed" => received = <<>>

ConnInv == ConnTypes /\ StartInv /\ AwaitInv /\ OpenInv /\ FailedInv

\* The next byte of the stream.
LEMMA StreamGrows ==
  ASSUME NEW m \in Nat
  PROVE  Stream(m) \in Seq(Int) /\ Append(Stream(m), m + 1) = Stream(m + 1)
<1>1. Stream(m) \in Seq(Int) /\ Len(Stream(m)) = m /\ \A i \in 1..m : Stream(m)[i] = i
  BY DEF Stream
<1>2. Stream(m + 1) \in Seq(Int) /\ Len(Stream(m + 1)) = m + 1 /\ \A i \in 1..(m + 1) : Stream(m + 1)[i] = i
  BY DEF Stream
<1>3. PICK s \in Seq(Int), t \in Seq(Int) : s = Stream(m) /\ t = Stream(m + 1)
  BY <1>1, <1>2
<1>4. Append(s, m + 1) \in Seq(Int) /\ Len(Append(s, m + 1)) = m + 1
  BY <1>1, <1>3
<1>5. \A i \in 1..(m + 1) : Append(s, m + 1)[i] = i
  BY <1>1, <1>3
<1>6. Append(s, m + 1) = t
  BY <1>2, <1>3, <1>4, <1>5, SeqEqual
<1> QED BY <1>1, <1>3, <1>6

\* A sequence is its first n elements and those after them.
LEMMA SplitAt ==
  ASSUME NEW s \in Seq(Int), NEW n \in 0..Len(s)
  PROVE  /\ FirstUnits(n, s) \in Seq(Int) /\ After(n, s) \in Seq(Int)
         /\ FirstUnits(n, s) \o After(n, s) = s
<1>1. Len(s) \in Nat /\ \A i \in 1..Len(s) : s[i] \in Int
  OBVIOUS
<1>2. SubSeq(s, 1, n) \in Seq(Int) /\ SubSeq(s, n + 1, Len(s)) \in Seq(Int)
  BY <1>1, SubSeqProperties
<1>3. SubSeq(s, 1, n) \o SubSeq(s, n + 1, Len(s)) = SubSeq(s, 1, Len(s))
  <2>1. 1 \in 1..(Len(s) + 1) /\ n \in (1 - 1)..Len(s) /\ Len(s) \in n..Len(s)
    BY <1>1
  <2> QED BY <2>1, ConcatAdjacentSubSeq
<1>4. SubSeq(s, 1, Len(s)) = s
  BY SubSeqFull
<1> QED BY <1>2, <1>3, <1>4 DEF FirstUnits, After

\* Concatenation.
LEMMA ConcatGrows ==
  ASSUME NEW s \in Seq(Int), NEW t \in Seq(Int), NEW x \in Int
  PROVE  s \o Append(t, x) = Append(s \o t, x)
<1>1. Append(t, x) = t \o <<x>> /\ s \o t \in Seq(Int) /\ <<x>> \in Seq(Int)
  OBVIOUS
<1>2. Append(s \o t, x) = (s \o t) \o <<x>>
  BY <1>1, AppendIsConcat
<1> QED BY <1>1, <1>2, ConcatAssociative

\* Concatenation is associative; stated with a predicate, for an instance of it
\* is then found by its arguments.
Associates(s, t, v) == (s \o t) \o v = s \o (t \o v)

\* Every concatenation of three sequences associates.
LEMMA Assoc ==
  \A s, t, v \in Seq(Int) : Associates(s, t, v)
BY ConcatAssociative, ConcatProperties DEF Associates

\* The first unit of a concatenation, and what follows it.
LEMMA ConcatHeads ==
  ASSUME NEW s \in Seq(Int), NEW t \in Seq(Int), s # <<>>
  PROVE  s \o t # <<>> /\ Head(s \o t) = Head(s) /\ Tail(s \o t) = Tail(s) \o t
<1>1. s \o t \in Seq(Int) /\ Len(s) \in Nat \ {0} /\ Len(t) \in Nat /\ Len(s \o t) = Len(s) + Len(t)
  BY ConcatProperties
<1>2. s \o t # <<>>
  BY <1>1
<1>3. Head(s \o t) = Head(s)
  BY <1>1, <1>2
<1>4. Tail(s) \in Seq(Int) /\ Len(Tail(s)) = Len(s) - 1 /\ \A i \in 1..(Len(s) - 1) : Tail(s)[i] = s[i + 1]
  OBVIOUS
<1>5. /\ Tail(s \o t) \in Seq(Int) /\ Len(Tail(s \o t)) = (Len(s) + Len(t)) - 1
      /\ \A i \in 1..((Len(s) + Len(t)) - 1) : Tail(s \o t)[i] = (s \o t)[i + 1]
  BY <1>1, <1>2, HeadTailProperties
<1>6. /\ Tail(s) \o t \in Seq(Int) /\ Len(Tail(s) \o t) = (Len(s) - 1) + Len(t)
      /\ \A i \in 1..((Len(s) - 1) + Len(t)) :
           (Tail(s) \o t)[i] = IF i <= Len(s) - 1 THEN Tail(s)[i] ELSE t[i - (Len(s) - 1)]
  BY <1>4, ConcatProperties
<1>7. \A j \in 1..(Len(s) + Len(t)) : (s \o t)[j] = IF j <= Len(s) THEN s[j] ELSE t[j - Len(s)]
  BY ConcatProperties
<1>8. ASSUME NEW i \in 1..((Len(s) + Len(t)) - 1) PROVE Tail(s \o t)[i] = (Tail(s) \o t)[i]
  <2>1. CASE i <= Len(s) - 1
    BY <1>1, <1>4, <1>5, <1>6, <1>7, <2>1
  <2>2. CASE i > Len(s) - 1
    <3>1. (s \o t)[i + 1] = t[(i + 1) - Len(s)]
      BY <1>1, <1>7, <2>2
    <3>2. (Tail(s) \o t)[i] = t[i - (Len(s) - 1)]
      BY <1>1, <1>6, <2>2
    <3>3. (i + 1) - Len(s) = i - (Len(s) - 1)
      BY <1>1
    <3> QED BY <1>5, <3>1, <3>2, <3>3
  <2> QED BY <1>1, <2>1, <2>2
<1>9. Tail(s \o t) = Tail(s) \o t
  BY <1>1, <1>5, <1>6, <1>8, SeqEqual
<1> QED BY <1>2, <1>3, <1>9

\* A message in front of a stream.
LEMMA ConcatUnit ==
  ASSUME NEW x \in Int, NEW s \in Seq(Int)
  PROVE  <<x>> \o s # <<>> /\ Head(<<x>> \o s) = x /\ Tail(<<x>> \o s) = s
<1>1. <<x>> \in Seq(Int) /\ <<x>> # <<>> /\ Head(<<x>>) = x /\ Tail(<<x>>) = <<>>
  OBVIOUS
<1>2. <<>> \o s = s
  BY ConcatEmptySeq
<1> QED BY <1>1, <1>2, ConcatHeads

\* Every step of the connection keeps the invariant.
LEMMA ConnStep ==
  ASSUME ConnInv, [ConnNext]_connVars
  PROVE  ConnInv'
<1> DEFINE u == bufr.units
<1>1. ConnTypes /\ u \in Seq(Int) /\ wire \in Seq(Int) /\ received \in Seq(Int) /\ sent \in Nat /\ InFlight \in Seq(Int)
  BY DEF ConnInv, ConnTypes, InFlight
<1>2. \A s \in Seq(Int) : <<>> \o s = s /\ s \o <<>> = s
  OBVIOUS
<1>3. CASE UNCHANGED connVars
  BY <1>3 DEF connVars, ConnInv, ConnTypes, StartInv, AwaitInv, OpenInv, FailedInv, InFlight
<1>4. ASSUME NEW status \in {StatusOK, StatusError}, Answer(status) PROVE ConnInv'
  <2>1. /\ dial = "response" /\ dial' = dial /\ wire = <<>> /\ wire' = <<status>> /\ u = <<>>
        /\ bufr' = bufr /\ sent' = sent /\ received' = received
    BY <1>4 DEF Answer
  <2>2. status \in Int /\ 0 \in Int /\ -1 \in Int /\ <<status>> \in Seq(Int) /\ Stream(sent) \in Seq(Int)
    BY <1>1, StreamGrows DEF StatusOK, StatusError
  <2>3. InFlight = <<>> /\ InFlight' = <<status>>
    <3>1. InFlight = <<>> \o <<>> /\ InFlight' = <<>> \o <<status>>
      BY <2>1 DEF InFlight
    <3> QED BY <1>2, <2>2, <3>1
  <2>4. <<0>> \o Stream(sent) # <<>> /\ <<-1>> # <<>>
    BY <2>2, ConcatUnit
  <2>5. sent = 0 /\ received = <<>>
    BY <2>1, <2>3, <2>4 DEF ConnInv, AwaitInv, StatusOK, StatusError
  <2>6. Stream(0) = <<>> /\ <<0>> \in Seq(Int)
    BY DEF Stream
  <2>7. <<0>> \o Stream(0) = <<0>>
    BY <1>2, <2>6
  <2>8. AwaitInv'
    BY <2>1, <2>3, <2>5, <2>7 DEF AwaitInv, StatusOK, StatusError
  <2> QED BY <1>1, <2>1, <2>2, <2>8 DEF ConnInv, ConnTypes, StartInv, OpenInv, FailedInv
<1>5. CASE Send
  <2>1. /\ Answered /\ sent' = sent + 1 /\ wire' = Append(wire, sent + 1)
        /\ dial' = dial /\ bufr' = bufr /\ received' = received
    BY <1>5 DEF Send
  <2>2. InFlight' = Append(InFlight, sent + 1) /\ wire' \in Seq(Int)
    <3>1. sent + 1 \in Int
      BY <1>1
    <3>2. u \o Append(wire, sent + 1) = Append(u \o wire, sent + 1)
      BY <1>1, <3>1, ConcatGrows
    <3>3. InFlight' = u \o Append(wire, sent + 1)
      BY <2>1 DEF InFlight
    <3>4. Append(wire, sent + 1) \in Seq(Int)
      BY <1>1, <3>1
    <3> QED BY <2>1, <3>2, <3>3, <3>4 DEF InFlight
  <2>3. AwaitInv'
    <3> SUFFICES ASSUME dial = "response" PROVE received = <<>> /\ InFlight' = <<StatusOK>> \o Stream(sent + 1)
      BY <2>1 DEF AwaitInv
    <3>1. (wire # <<>> /\ Head(wire) = 0) \/ (u # <<>> /\ Head(u) = 0)
      BY <2>1 DEF Answered, StatusOK
    <3>2. InFlight # <<>> /\ InFlight # <<StatusError>>
      <4>1. CASE u = <<>>
        <5>1. InFlight = wire
          BY <1>1, <1>2, <4>1 DEF InFlight
        <5>2. Head(<<-1>>) # 0
          OBVIOUS
        <5> QED BY <3>1, <4>1, <5>1, <5>2 DEF StatusError
      <4>2. CASE u # <<>> /\ Head(u) = 0
        <5>1. InFlight # <<>> /\ Head(InFlight) = 0
          BY <1>1, <4>2, ConcatHeads DEF InFlight
        <5>2. Head(<<-1>>) # 0
          OBVIOUS
        <5> QED BY <5>1, <5>2 DEF StatusError
      <4>3. CASE u # <<>> /\ wire # <<>>
        <5>1. Len(InFlight) = Len(u) + Len(wire)
          BY <1>1, ConcatProperties DEF InFlight
        <5>2. Len(u) >= 1 /\ Len(wire) >= 1 /\ Len(u) \in Nat /\ Len(wire) \in Nat
          BY <1>1, <4>3
        <5>3. Len(<<>>) = 0 /\ Len(<<-1>>) = 1
          OBVIOUS
        <5>4. Len(InFlight) # Len(<<>>) /\ Len(InFlight) # Len(<<-1>>)
          BY <5>1, <5>2, <5>3
        <5> QED BY <5>4, Zenon DEF StatusError
      <4> QED BY <3>1, <4>1, <4>2, <4>3
    <3>3. received = <<>> /\ InFlight = <<StatusOK>> \o Stream(sent)
      BY <3>2 DEF ConnInv, AwaitInv
    <3>4. <<0>> \in Seq(Int) /\ Stream(sent) \in Seq(Int) /\ sent + 1 \in Int
      BY <1>1, StreamGrows
    <3>5. <<0>> \o Append(Stream(sent), sent + 1) = Append(<<0>> \o Stream(sent), sent + 1)
      BY <3>4, ConcatGrows
    <3>6. Append(Stream(sent), sent + 1) = Stream(sent + 1)
      BY <1>1, StreamGrows
    <3> QED BY <2>2, <3>3, <3>5, <3>6 DEF StatusOK
  <2>4. OpenInv'
    <3> SUFFICES ASSUME dial = "open" PROVE received \o InFlight' = Stream(sent + 1)
      BY <2>1 DEF OpenInv
    <3>1. received \o Append(InFlight, sent + 1) = Append(received \o InFlight, sent + 1)
      <4>1. sent + 1 \in Int
        BY <1>1
      <4> QED BY <1>1, <4>1, ConcatGrows
    <3>2. Append(Stream(sent), sent + 1) = Stream(sent + 1)
      BY <1>1, StreamGrows
    <3> QED BY <2>2, <3>1, <3>2 DEF ConnInv, OpenInv
  <2>5. dial # "request"
    BY <2>1 DEF ConnInv, StartInv, Answered
  <2> QED BY <1>1, <2>1, <2>2, <2>3, <2>4, <2>5 DEF ConnInv, ConnTypes, StartInv, FailedInv
<1>6. CASE FillBuffer
  <2>1. PICK n \in 1..Len(wire) :
          /\ dial = "response" /\ u = <<>> /\ bufr' = Reader(FirstUnits(n, wire)) /\ wire' = After(n, wire)
          /\ dial' = dial /\ sent' = sent /\ received' = received
    BY <1>6 DEF FillBuffer
  <2>2. n \in 0..Len(wire)
    BY <1>1
  <2>3. bufr'.units = FirstUnits(n, wire) /\ bufr'.nil = FALSE
    BY <2>1 DEF Reader
  <2>4. bufr'.units \in Seq(Int) /\ wire' \in Seq(Int) /\ bufr'.units \o wire' = wire
    BY <1>1, <2>1, <2>2, <2>3, SplitAt
  <2>5. InFlight' = InFlight
    BY <1>1, <1>2, <2>1, <2>4 DEF InFlight
  <2>6. ConnTypes'
    BY <1>1, <2>1, <2>3, <2>4 DEF ConnTypes
  <2>7. StartInv' /\ AwaitInv' /\ OpenInv' /\ FailedInv'
    BY <2>1, <2>5 DEF ConnInv, StartInv, AwaitInv, OpenInv, FailedInv
  <2> QED BY <2>6, <2>7 DEF ConnInv
<1>7. CASE ReadResponse
  <2>1. /\ dial = "response" /\ u # <<>> /\ dial' = IF Head(u) = StatusOK THEN "open" ELSE "failed"
        /\ bufr' = Reader(Tail(u)) /\ wire' = wire /\ sent' = sent /\ received' = received
    BY <1>7 DEF ReadResponse
  <2>2. bufr'.units = Tail(u) /\ bufr'.nil = FALSE /\ Tail(u) \in Seq(Int)
    BY <1>1, <2>1 DEF Reader
  <2>3. ConnTypes'
    BY <1>1, <2>1, <2>2 DEF ConnTypes
  <2>4. received = <<>>
    BY <2>1 DEF ConnInv, AwaitInv
  <2>5. OpenInv'
    <3> SUFFICES ASSUME Head(u) = StatusOK PROVE received \o InFlight' = Stream(sent)
      BY <2>1 DEF OpenInv
    <3>1. Head(InFlight) = StatusOK /\ InFlight # <<>> /\ Tail(InFlight) = Tail(u) \o wire
      BY <1>1, <2>1, ConcatHeads DEF InFlight
    <3>2. InFlight # <<StatusError>>
      <4>1. Head(<<-1>>) # 0
        OBVIOUS
      <4> QED BY <3>1, <4>1 DEF StatusOK, StatusError
    <3>3. InFlight = <<StatusOK>> \o Stream(sent)
      BY <2>1, <3>1, <3>2 DEF ConnInv, AwaitInv
    <3>4. Tail(InFlight) = Stream(sent) /\ Stream(sent) \in Seq(Int)
      <4>1. Stream(sent) \in Seq(Int) /\ 0 \in Int
        BY <1>1, StreamGrows
      <4>2. Tail(<<0>> \o Stream(sent)) = Stream(sent)
        BY <4>1, ConcatUnit
      <4> QED BY <3>3, <4>1, <4>2 DEF StatusOK
    <3>5. InFlight' = Tail(u) \o wire
      BY <2>1, <2>2 DEF InFlight
    <3> QED BY <1>2, <2>4, <3>1, <3>4, <3>5
  <2> QED BY <2>1, <2>3, <2>4, <2>5 DEF ConnInv, StartInv, AwaitInv, FailedInv
<1>8. CASE DialAgain
  <2>1. /\ dial' = "request" /\ wire' = <<>> /\ bufr'.units = <<>> /\ bufr'.nil = FALSE
        /\ sent' = 0 /\ received' = <<>>
    BY <1>8 DEF DialAgain, Reader
  <2> QED BY <2>1 DEF ConnInv, ConnTypes, StartInv, AwaitInv, OpenInv, FailedInv
<1>9. ASSUME NEW len \in BufLens, ReadBuffered(len) PROVE ConnInv'
  <2>1. len \in Nat /\ len > 0
    BY StreamAssumption
  <2>2. PICK n \in 0..Len(u) :
          /\ dial = "open" /\ dial' = dial /\ wire' = wire /\ sent' = sent
          /\ received' = received \o FirstUnits(n, u) /\ bufr' = Reader(After(n, u))
    <3>1. Shorter(len, u) \in 0..Len(u)
      BY <1>1, <2>1 DEF Shorter
    <3>2. /\ dial = "open" /\ dial' = dial /\ wire' = wire /\ sent' = sent
          /\ received' = received \o FirstUnits(Shorter(len, u), u) /\ bufr' = Reader(After(Shorter(len, u), u))
      BY <1>9 DEF ReadBuffered, Left
    <3> QED BY <3>1, <3>2
  <2>3. bufr'.units = After(n, u) /\ bufr'.nil = FALSE
    BY <2>2 DEF Reader
  <2>4. PICK f \in Seq(Int), a \in Seq(Int) : f = FirstUnits(n, u) /\ a = After(n, u) /\ f \o a = u
    BY <1>1, SplitAt
  <2>5. (received \o f) \o (a \o wire) = received \o ((f \o a) \o wire)
    <3>1. a \o wire \in Seq(Int)
      BY <1>1, ConcatProperties
    <3>2. Associates(f, a, wire) /\ Associates(received, f, a \o wire)
      BY <1>1, <3>1, Assoc
    <3> QED BY <3>2 DEF Associates
  <2>6. OpenInv'
    BY <2>2, <2>3, <2>4, <2>5 DEF ConnInv, OpenInv, InFlight
  <2>7. ConnTypes'
    BY <1>1, <2>2, <2>3, <2>4 DEF ConnTypes
  <2> QED BY <2>2, <2>6, <2>7 DEF ConnInv, StartInv, AwaitInv, FailedInv
<1>10. ASSUME NEW len \in BufLens, ReadDirect(len) PROVE ConnInv'
  <2>1. len \in Nat /\ len > 0
    BY StreamAssumption
  <2>2. PICK n \in 0..Len(wire) :
          /\ dial = "open" /\ dial' = dial /\ sent' = sent /\ u = <<>> /\ bufr' = NilReader
          /\ received' = received \o FirstUnits(n, wire) /\ wire' = After(n, wire)
    <3>1. PICK n \in 1..Shorter(len, wire) :
            /\ dial = "open" /\ dial' = dial /\ sent' = sent /\ u = <<>> /\ bufr' = NilReader
            /\ received' = received \o FirstUnits(n, wire) /\ wire' = After(n, wire)
      BY <1>10 DEF ReadDirect
    <3>2. n \in 0..Len(wire)
      BY <1>1, <2>1 DEF Shorter
    <3> QED BY <3>1, <3>2
  <2>3. bufr'.units = <<>>
    BY <2>2 DEF NilReader
  <2>4. PICK f \in Seq(Int), a \in Seq(Int) : f = FirstUnits(n, wire) /\ a = After(n, wire) /\ f \o a = wire
    BY <1>1, SplitAt
  <2>5. (received \o f) \o a = received \o (f \o a)
    <3>1. Associates(received, f, a)
      BY <1>1, Assoc
    <3> QED BY <3>1 DEF Associates
  <2>6. OpenInv'
    BY <1>1, <1>2, <2>2, <2>3, <2>4, <2>5 DEF ConnInv, OpenInv, InFlight
  <2>7. ConnTypes'
    BY <1>1, <2>2, <2>3, <2>4 DEF ConnTypes
  <2> QED BY <2>2, <2>6, <2>7 DEF ConnInv, StartInv, AwaitInv, FailedInv
<1>11. CASE Connect
  <2>1. /\ dial = "request" /\ dial' \in {"response", "failed"} /\ wire' = wire /\ bufr' = bufr
        /\ sent' = sent /\ received' = received
    BY <1>11 DEF Connect
  <2>2. wire = <<>> /\ u = <<>> /\ sent = 0 /\ received = <<>>
    BY <2>1 DEF ConnInv, StartInv
  <2>3. InFlight' = <<>>
    BY <2>1, <2>2 DEF InFlight
  <2> QED BY <1>1, <2>1, <2>2, <2>3 DEF ConnInv, ConnTypes, StartInv, AwaitInv, OpenInv, FailedInv
<1> QED BY <1>3, <1>4, <1>5, <1>6, <1>7, <1>8, <1>9, <1>10, <1>11 DEF ConnNext

\* No byte of the new protocol is lost, repeated or reordered between the network,
\* the HTTP reader's buffer and Read, however much that reader took in advance.
THEOREM StreamHandedOn == ConnSpec => []StreamIntact
<1>1. ConnInit => ConnInv
  <2> SUFFICES ASSUME ConnInit PROVE ConnInv
    OBVIOUS
  <2>1. bufr.units = <<>> /\ bufr.nil = FALSE /\ wire = <<>> /\ received = <<>> /\ sent = 0 /\ dial = "request"
    BY DEF ConnInit, Reader
  <2> QED BY <2>1 DEF ConnInv, ConnTypes, StartInv, AwaitInv, OpenInv, FailedInv
<1>2. ConnInv => StreamIntact
  <2> SUFFICES ASSUME ConnInv PROVE StreamIntact
    OBVIOUS
  <2>1. (received \o bufr.units) \o wire = received \o (bufr.units \o wire)
    <3>1. Associates(received, bufr.units, wire)
      BY Assoc DEF ConnInv, ConnTypes
    <3> QED BY <3>1 DEF Associates
  <2> QED BY <2>1 DEF ConnInv, ConnTypes, StartInv, AwaitInv, OpenInv, FailedInv, InFlight, Stream, StreamIntact
<1> QED BY <1>1, <1>2, ConnStep, PTL DEF ConnSpec

-----------------------------------------------------------------------------
\* BadgerStore.  Between Begin and Commit the request stays the client's call, and
\* the transaction holds what that call asked for.
Vals == {r.val : r \in Requests} \union {Absent}
Txns == [open : BOOLEAN, reads : SUBSET KVKeys, writes : SUBSET KVKeys, val : Vals, stale : BOOLEAN]
UpdateOps == {"put", "delete", "atomicPut", "atomicDelete"}

StoreTypes ==
  /\ kv = [k \in KVKeys |-> kv[k]]
  /\ call = [c \in Clients |-> call[c]]
  /\ \A c \in Clients : call[c] \in Requests \/ call[c].op = "done"
  /\ txn \in [Clients -> Txns]

\* What a transaction of Update is about to write is what the request asks for, and
\* while no other transaction has overwritten what it read, the comparison that it
\* made still holds.  A blind write reads nothing and is never overtaken.
UpdateInv(c) ==
  /\ call[c].op \in UpdateOps
  /\ txn[c].writes = {call[c].key} /\ txn[c].val = call[c].val
  /\ txn[c].reads = KeysRead(call[c])
  /\ ~txn[c].stale => UpdateError(call[c]) = "nil"

\* A chunk of DeleteRange is a part of the range.
ChunkInv(c) ==
  /\ call[c].op = "deleteRange"
  /\ txn[c].writes # {} /\ txn[c].val = Absent
  /\ \A k \in txn[c].writes : call[c].key <= k /\ k < call[c].end

TxnInvOf(c) ==
  /\ txn[c].open => call[c] \in Requests /\ (UpdateInv(c) \/ ChunkInv(c))
  /\ txn[c].stale => txn[c].reads # {}

StoreInv == StoreTypes /\ \A c \in Clients : TxnInvOf(c)

\* A step leaves the transaction of another client alone, except that it may
\* become stale; if it does not, what it read is unchanged.
LEMMA OthersKeep ==
  ASSUME NEW d \in Clients, TxnInvOf(d),
         call'[d] = call[d], txn'[d].open = txn[d].open,
         txn'[d].writes = txn[d].writes, txn'[d].val = txn[d].val, txn'[d].reads = txn[d].reads,
         ~txn'[d].stale => ~txn[d].stale /\ \A k \in txn[d].reads : kv'[k] = kv[k],
         txn'[d].stale => txn[d].reads # {}
  PROVE  TxnInvOf(d)'
<1>1. ASSUME txn[d].open, UpdateInv(d) PROVE UpdateInv(d)'
  <2>1. CASE txn'[d].stale
    BY <1>1, <2>1 DEF UpdateInv, KeysRead
  <2>2. CASE ~txn'[d].stale
    <3>1. UpdateError(call[d]) = "nil"
      BY <1>1, <2>2 DEF UpdateInv
    <3>2. CASE call[d].op \in {"atomicPut", "atomicDelete"}
      <4>1. kv'[call[d].key] = kv[call[d].key]
        BY <1>1, <2>2, <3>2 DEF UpdateInv, KeysRead
      <4>2. UpdateError(call[d])' = UpdateError(call[d])
        BY <4>1 DEF UpdateError, AtomicPutError, AtomicDeleteError
      <4> QED BY <1>1, <3>1, <4>2 DEF UpdateInv, KeysRead
    <3>3. CASE call[d].op \notin {"atomicPut", "atomicDelete"}
      <4>1. UpdateError(call[d])' = "nil"
        BY <3>3 DEF UpdateError
      <4> QED BY <1>1, <4>1 DEF UpdateInv, KeysRead
    <3> QED BY <3>2, <3>3
  <2> QED BY <2>1, <2>2
<1>2. ASSUME txn[d].open, ChunkInv(d) PROVE ChunkInv(d)'
  BY <1>2 DEF ChunkInv
<1> QED BY <1>1, <1>2 DEF TxnInvOf

\* A client that has no transaction open calls the store or is answered.
LEMMA CallKeeps ==
  ASSUME StoreInv, NEW c \in Clients, ~txn[c].open, NEW x, x \in Requests \/ x.op = "done",
         call' = [call EXCEPT ![c] = x], kv' = kv, txn' = txn
  PROVE  StoreInv'
<1>1. call' = [d \in Clients |-> IF d = c THEN x ELSE call[d]]
  BY DEF StoreInv, StoreTypes
<1>2. StoreTypes'
  BY <1>1 DEF StoreInv, StoreTypes
<1>3. ASSUME NEW d \in Clients PROVE TxnInvOf(d)'
  <2>1. TxnInvOf(d)
    BY DEF StoreInv
  <2>2. CASE d = c
    BY <2>1, <2>2 DEF TxnInvOf
  <2>3. CASE d # c
    <3>1. call'[d] = call[d]
      BY <1>1, <2>3
    <3>2. txn[d].stale => txn[d].reads # {}
      BY <2>1 DEF TxnInvOf
    <3> QED BY <2>1, <3>1, <3>2, OthersKeep
  <2> QED BY <2>2, <2>3
<1> QED BY <1>2, <1>3 DEF StoreInv

\* A client begins a transaction, or it ends without a commit.
LEMMA TxnKeeps ==
  ASSUME StoreInv, NEW c \in Clients, NEW t \in Txns, NEW x, x \in Requests \/ x.op = "done",
         txn' = [txn EXCEPT ![c] = t], kv' = kv, call' = [call EXCEPT ![c] = x], TxnInvOf(c)'
  PROVE  StoreInv'
<1>1. call' = [d \in Clients |-> IF d = c THEN x ELSE call[d]]
  BY DEF StoreInv, StoreTypes
<1>2. StoreTypes'
  BY <1>1 DEF StoreInv, StoreTypes
<1>3. ASSUME NEW d \in Clients, d # c PROVE TxnInvOf(d)'
  <2>1. TxnInvOf(d) /\ call'[d] = call[d] /\ txn'[d] = txn[d]
    BY <1>1, <1>3 DEF StoreInv, StoreTypes
  <2>2. txn[d].stale => txn[d].reads # {}
    BY <2>1 DEF TxnInvOf
  <2> QED BY <2>1, <2>2, OthersKeep
<1> QED BY <1>2, <1>3 DEF StoreInv

\* What the steps need to know of a client whose request is under way.
LEMMA RequestFacts ==
  ASSUME StoreInv, NEW c \in Clients
  PROVE  /\ txn[c].open => call[c].op \in UpdateOps \union {"deleteRange"}
         /\ call[c].op # "done" => /\ call[c] \in Requests /\ call[c].key \in KVKeys
                                   /\ call[c].key \in Int /\ call[c].end \in Int
         /\ DOMAIN kv = KVKeys /\ DOMAIN call = Clients /\ call = [call EXCEPT ![c] = call[c]]
<1>1. txn[c].open => call[c].op \in UpdateOps \union {"deleteRange"}
  BY DEF StoreInv, TxnInvOf, UpdateInv, ChunkInv
<1>2. ASSUME call[c].op # "done" PROVE call[c] \in Requests /\ call[c].key \in KVKeys /\ call[c].key \in Int /\ call[c].end \in Int
  BY <1>2, KeysAssumption, RequestsAssumption DEF StoreInv, StoreTypes
<1>3. DOMAIN kv = KVKeys /\ DOMAIN call = Clients /\ call = [call EXCEPT ![c] = call[c]]
  BY DEF StoreInv, StoreTypes
<1> QED BY <1>1, <1>2, <1>3

\* The store's own comparisons are the ones that are promised.
LEMMA ErrorIsRefusal ==
  ASSUME NEW r, r.op \in {"atomicPut", "atomicDelete"}
  PROVE  UpdateError(r) = (IF r.op = "atomicDelete" /\ r.prev = Absent THEN "PreviousNotSpecified"
                           ELSE IF kv[r.key] = r.prev THEN "nil"
                           ELSE IF kv[r.key] = Absent THEN "KeyNotFound"
                           ELSE IF r.prev = Absent THEN "KeyExists"
                           ELSE "KeyModified")
BY DEF UpdateError, AtomicPutError, AtomicDeleteError

\* Invoke and the operations that only read.
LEMMA ReadStep ==
  ASSUME StoreInv, NEW c \in Clients, (\E r \in Requests : Invoke(c, r)) \/ GetInto(c) \/ Exists(c) \/ ListKeys(c)
  PROVE  StoreInv' /\ Atomic!StoreNext
<1>1. ASSUME NEW r \in Requests, Invoke(c, r) PROVE StoreInv' /\ Atomic!Calls(c)
  <2>1. ~txn[c].open
    BY <1>1, RequestFacts DEF Invoke, UpdateOps
  <2>2. StoreInv'
    BY <1>1, <2>1, CallKeeps DEF Invoke
  <2> QED BY <1>1, <2>2 DEF Invoke, Atomic!Calls
<1>2. ASSUME NEW e, NEW data, Return(c, e, data), kv' = kv, txn' = txn, ~txn[c].open
      PROVE  StoreInv'
  <2>1. Reply(e, data).op = "done"
    BY DEF Reply
  <2> QED BY <1>2, <2>1, CallKeeps DEF Return
<1>3. CASE GetInto(c)
  <2>1. ~txn[c].open
    BY <1>3, RequestFacts DEF GetInto, UpdateOps
  <2>2. StoreInv'
    BY <1>2, <1>3, <2>1 DEF GetInto
  <2>3. Atomic!Reads(c)
    BY <1>3 DEF GetInto, Return, Reply, Atomic!Reads, Atomic!Returns, Atomic!Reply
  <2> QED BY <2>2, <2>3 DEF Atomic!StoreNext
<1>4. CASE Exists(c)
  <2>1. ~txn[c].open
    BY <1>4, RequestFacts DEF Exists, UpdateOps
  <2>2. StoreInv'
    BY <1>2, <1>4, <2>1 DEF Exists
  <2>3. Atomic!Reads(c)
    BY <1>4 DEF Exists, Return, Reply, Atomic!Reads, Atomic!Returns, Atomic!Reply
  <2> QED BY <2>2, <2>3 DEF Atomic!StoreNext
<1>5. CASE ListKeys(c)
  <2>1. call[c].op = "listKeys" /\ kv' = kv /\ txn' = txn
    BY <1>5 DEF ListKeys
  <2>2. PICK S \in Initials(From(call[c].key)) :
          /\ Cardinality(S) = MaxListedKeys \/ (S = From(call[c].key) /\ Cardinality(S) < MaxListedKeys)
          /\ Return(c, "nil", InOrderOf(S))
    BY <1>5 DEF ListKeys
  <2>3. ~txn[c].open
    BY <2>1, RequestFacts DEF UpdateOps
  <2>4. StoreInv'
    BY <1>2, <2>1, <2>2, <2>3
  <2>5. S \in SUBSET From(call[c].key) /\ \A k \in S, j \in From(call[c].key) \ S : k < j
    BY <2>2 DEF Initials
  <2>6. ASSUME S = {} PROVE From(call[c].key) = {}
    <3>1. Cardinality(S) = 0 /\ 0 # MaxListedKeys
      BY <2>6, FS_EmptySet, MaxAssumption
    <3> QED BY <2>2, <2>6, <3>1
  <2>7. Atomic!Reads(c)
    <3>1. Atomic!Returns(c, "nil", Atomic!InOrderOf(S))
      <4>1. InOrderOf(S) = Atomic!InOrderOf(S)
        BY DEF InOrderOf, Atomic!InOrderOf, Cardinality, Atomic!Cardinality
      <4> QED BY <2>2, <4>1 DEF Return, Reply, Atomic!Returns, Atomic!Reply
    <3>2. From(call[c].key) = Atomic!From(call[c].key)
      BY DEF From, Present, Atomic!From, Atomic!Present
    <3> QED BY <2>1, <2>5, <2>6, <3>1, <3>2 DEF Atomic!Reads
  <2> QED BY <2>4, <2>7 DEF Atomic!StoreNext
<1> QED BY <1>1, <1>3, <1>4, <1>5 DEF Atomic!StoreNext

\* The functions given to Update: a refusal is the call's instant, a write is not
\* seen before the commit.
LEMMA BeginUpdateStep ==
  ASSUME StoreInv, NEW c \in Clients, BeginUpdate(c)
  PROVE  StoreInv' /\ [Atomic!StoreNext]_<<kv, call>>
<1> DEFINE r == call[c]
<1>1. r.op \in UpdateOps /\ ~txn[c].open /\ kv' = kv
  BY DEF BeginUpdate, UpdateOps
<1>2. r \in Requests /\ r.key \in KVKeys /\ call = [call EXCEPT ![c] = r] /\ DOMAIN call = Clients
  BY <1>1, RequestFacts DEF UpdateOps
<1>3. CASE UpdateError(r) # "nil"
  <2>1. Return(c, UpdateError(r), <<>>) /\ txn' = txn
    BY <1>3 DEF BeginUpdate
  <2>2. StoreInv'
    <3>1. Reply(UpdateError(r), <<>>).op = "done"
      BY DEF Reply
    <3> QED BY <1>1, <2>1, <3>1, CallKeeps DEF Return
  <2>3. r.op \in {"atomicPut", "atomicDelete"}
    BY <1>3 DEF UpdateError
  <2>4. Atomic!Swaps(c)
    <3>1. PICK e : e = UpdateError(r)
      OBVIOUS
    <3>2. Atomic!Returns(c, e, <<>>) /\ e # "nil"
      BY <1>3, <2>1, <3>1 DEF Return, Reply, Atomic!Returns, Atomic!Reply
    <3>3. e = (IF r.op = "atomicDelete" /\ r.prev = Absent THEN "PreviousNotSpecified"
               ELSE IF kv[r.key] = r.prev THEN "nil"
               ELSE IF kv[r.key] = Absent THEN "KeyNotFound"
               ELSE IF r.prev = Absent THEN "KeyExists"
               ELSE "KeyModified")
      BY <2>3, <3>1, ErrorIsRefusal
    <3> QED BY <1>1, <2>3, <3>2, <3>3 DEF Atomic!Swaps
  <2> QED BY <2>2, <2>4 DEF Atomic!StoreNext
<1>4. CASE UpdateError(r) = "nil"
  <2>1. txn' = [txn EXCEPT ![c] = Txn(KeysRead(r), {r.key}, r.val)] /\ call' = call
    BY <1>4 DEF BeginUpdate
  <2>2. Txn(KeysRead(r), {r.key}, r.val) \in Txns
    BY <1>2 DEF Txn, Txns, KeysRead, Vals
  <2>3. txn'[c] = Txn(KeysRead(r), {r.key}, r.val)
    BY <2>1 DEF StoreInv, StoreTypes
  <2>4. UpdateError(r)' = UpdateError(r)
    BY <1>1, <2>1 DEF UpdateError, AtomicPutError, AtomicDeleteError
  <2>5. UpdateInv(c)' /\ ~txn'[c].stale
    BY <1>1, <1>4, <2>1, <2>3, <2>4 DEF UpdateInv, Txn, KeysRead
  <2>6. TxnInvOf(c)'
    BY <1>2, <2>1, <2>5 DEF TxnInvOf
  <2>7. StoreInv'
    BY <1>1, <1>2, <2>1, <2>2, <2>6, TxnKeeps
  <2> QED BY <1>1, <2>1, <2>7
<1> QED BY <1>3, <1>4

\* A chunk of DeleteRange; DeleteRange returns when it sees none of the range.
LEMMA BeginChunkStep ==
  ASSUME StoreInv, NEW c \in Clients, BeginChunk(c)
  PROVE  StoreInv' /\ [Atomic!StoreNext]_<<kv, call>>
<1> DEFINE r == call[c]
           range == {k \in From(r.key) : k < r.end}
<1>1. r.op = "deleteRange" /\ ~txn[c].open /\ kv' = kv
  BY DEF BeginChunk
<1>2. /\ r \in Requests /\ r.key \in Int /\ r.end \in Int
      /\ call = [call EXCEPT ![c] = r] /\ DOMAIN call = Clients
  BY <1>1, RequestFacts
<1>3. PICK S \in Chunks(r) :
        IF S = {} THEN Return(c, "nil", <<>>) /\ UNCHANGED txn
        ELSE txn' = [txn EXCEPT ![c] = Txn(KeysSeen(r, S), S, Absent)] /\ UNCHANGED call
  BY DEF BeginChunk
<1>4. S \subseteq range /\ (S = {} => range = {})
  BY <1>3 DEF Chunks, Initials
<1>5. Present \subseteq KVKeys /\ KVKeys \subseteq Int /\ From(r.key) \subseteq Present
  BY KeysAssumption DEF Present, From
<1>6. CASE S = {}
  <2>1. Return(c, "nil", <<>>) /\ txn' = txn /\ range = {}
    BY <1>3, <1>4, <1>6
  <2>2. StoreInv'
    <3>1. Reply("nil", <<>>).op = "done"
      BY DEF Reply
    <3> QED BY <1>1, <2>1, <3>1, CallKeeps DEF Return
  <2>3. Atomic!InRange(call[c]) = {}
    <3>1. ASSUME NEW k \in Present, r.key <= k, k < r.end PROVE FALSE
      <4>1. k >= r.key
        BY <1>2, <1>5, <3>1
      <4>2. k \in range
        BY <3>1, <4>1 DEF From
      <4> QED BY <2>1, <4>2
    <3> QED BY <3>1 DEF Present, Atomic!InRange, Atomic!Present
  <2>4. Atomic!Removes(c)
    BY <1>1, <2>1, <2>3 DEF Return, Reply, Atomic!Removes, Atomic!Returns, Atomic!Reply
  <2> QED BY <2>2, <2>4 DEF Atomic!StoreNext
<1>7. CASE S # {}
  <2>1. txn' = [txn EXCEPT ![c] = Txn(KeysSeen(r, S), S, Absent)] /\ call' = call
    BY <1>3, <1>7
  <2>2. KeysSeen(r, S) \subseteq KVKeys /\ S \subseteq KVKeys
    BY <1>4, <1>5 DEF KeysSeen
  <2>3. Txn(KeysSeen(r, S), S, Absent) \in Txns
    BY <2>2 DEF Txn, Txns, Vals
  <2>4. txn'[c] = Txn(KeysSeen(r, S), S, Absent)
    BY <2>1 DEF StoreInv, StoreTypes
  <2>5. txn'[c].writes = S /\ txn'[c].val = Absent /\ ~txn'[c].stale
    BY <2>4 DEF Txn
  <2>6. \A k \in S : r.key <= k /\ k < r.end
    BY <1>2, <1>4, <1>5 DEF From
  <2>7. TxnInvOf(c)'
    BY <1>1, <1>2, <1>7, <2>1, <2>5, <2>6 DEF TxnInvOf, ChunkInv
  <2>8. StoreInv'
    BY <1>1, <1>2, <2>1, <2>3, <2>7, TxnKeeps
  <2> QED BY <1>1, <2>1, <2>8
<1> QED BY <1>6, <1>7

\* A transaction that was overtaken fails, and only one that has read can be.
LEMMA ConflictStep ==
  ASSUME StoreInv, NEW c \in Clients, Conflict(c)
  PROVE  StoreInv' /\ Atomic!StoreNext
<1>1. /\ txn[c].open /\ txn[c].stale /\ kv' = kv
      /\ txn' = [txn EXCEPT ![c] = NoTxn] /\ Return(c, "Conflict", <<>>)
  BY DEF Conflict
<1>2. NoTxn \in Txns /\ txn'[c] = NoTxn /\ ~NoTxn.open /\ ~NoTxn.stale
  BY <1>1 DEF NoTxn, Txns, Vals, StoreInv, StoreTypes
<1>3. TxnInvOf(c)'
  BY <1>2 DEF TxnInvOf
<1>4. StoreInv'
  <2>1. Reply("Conflict", <<>>).op = "done"
    BY DEF Reply
  <2> QED BY <1>1, <1>2, <1>3, <2>1, TxnKeeps DEF Return
<1>5. call[c].op \in {"atomicPut", "atomicDelete", "deleteRange"}
  BY <1>1 DEF StoreInv, TxnInvOf, UpdateInv, ChunkInv, KeysRead
<1>6. Atomic!Conflicts(c)
  BY <1>1, <1>5 DEF Return, Reply, Atomic!Conflicts, Atomic!Returns, Atomic!Reply
<1> QED BY <1>4, <1>6 DEF Atomic!StoreNext

\* A commit is the instant of an update and a step of DeleteRange.  It makes stale
\* the transactions that have read what it writes, so that the comparisons of the
\* others still hold.
LEMMA CommitStep ==
  ASSUME StoreInv, NEW c \in Clients, Commit(c)
  PROVE  StoreInv' /\ Atomic!StoreNext
<1> DEFINE r == call[c]
           w == txn[c].writes
           Overtaken(d) == txn[d].stale \/ txn[d].reads \intersect w # {}
<1>1. /\ txn[c].open /\ ~txn[c].stale
      /\ kv' = [k \in KVKeys |-> IF k \in w THEN txn[c].val ELSE kv[k]]
      /\ txn' = [d \in Clients |-> IF d = c THEN NoTxn ELSE [txn[d] EXCEPT !.stale = Overtaken(d)]]
      /\ IF r.op = "deleteRange" /\ More(w) THEN UNCHANGED call ELSE Return(c, "nil", <<>>)
  BY DEF Commit
<1>2. r \in Requests /\ (UpdateInv(c) \/ ChunkInv(c))
  BY <1>1 DEF StoreInv, TxnInvOf
<1>3. /\ r.op # "done" /\ r.key \in KVKeys /\ r.key \in Int /\ r.end \in Int
      /\ DOMAIN kv = KVKeys /\ DOMAIN call = Clients /\ w \subseteq KVKeys /\ KVKeys \subseteq Int
  <2>1. r.op # "done"
    BY <1>2 DEF UpdateInv, ChunkInv, UpdateOps
  <2>2. w \subseteq KVKeys
    BY DEF StoreInv, StoreTypes, Txns
  <2> QED BY <2>1, <2>2, RequestFacts, KeysAssumption
<1>4. PICK x : call' = [call EXCEPT ![c] = x] /\ (x \in Requests \/ x.op = "done")
  <2>1. CASE r.op = "deleteRange" /\ More(w)
    BY <1>1, <1>2, <2>1, RequestFacts
  <2>2. CASE ~(r.op = "deleteRange" /\ More(w))
    <3>1. Reply("nil", <<>>).op = "done"
      BY DEF Reply
    <3> QED BY <1>1, <2>2, <3>1 DEF Return
  <2> QED BY <2>1, <2>2
<1>5. call' = [d \in Clients |-> IF d = c THEN x ELSE call[d]]
  BY <1>4 DEF StoreInv, StoreTypes
<1>6. /\ txn'[c] = NoTxn /\ NoTxn \in Txns /\ ~NoTxn.open /\ ~NoTxn.stale
      /\ \A d \in Clients : d # c => txn'[d] = [txn[d] EXCEPT !.stale = Overtaken(d)]
  BY <1>1 DEF NoTxn, Txns, Vals
<1>7. ASSUME NEW d \in Clients, d # c
      PROVE  /\ txn'[d] \in Txns /\ call'[d] = call[d]
             /\ txn'[d].open = txn[d].open /\ txn'[d].writes = txn[d].writes
             /\ txn'[d].val = txn[d].val /\ txn'[d].reads = txn[d].reads
             /\ txn'[d].stale = Overtaken(d)
  <2>1. txn[d] \in Txns /\ Overtaken(d) \in BOOLEAN
    BY DEF StoreInv, StoreTypes, Txns
  <2>2. txn'[d] = [txn[d] EXCEPT !.stale = Overtaken(d)]
    BY <1>6, <1>7
  <2>3. call'[d] = call[d]
    BY <1>5, <1>7
  <2> HIDE DEF Overtaken
  <2> QED BY <2>1, <2>2, <2>3 DEF Txns
<1>8. StoreTypes'
  <2>1. txn' \in [Clients -> Txns]
    BY <1>1, <1>6, <1>7
  <2>2. \A d \in Clients : call'[d] \in Requests \/ call'[d].op = "done"
    BY <1>4, <1>5 DEF StoreInv, StoreTypes
  <2> QED BY <1>1, <1>5, <2>1, <2>2 DEF StoreTypes
<1>9. ASSUME NEW d \in Clients PROVE TxnInvOf(d)'
  <2>1. CASE d = c
    BY <1>6, <2>1 DEF TxnInvOf
  <2>2. CASE d # c
    <3>1. TxnInvOf(d) /\ txn[d].reads \subseteq KVKeys
      BY DEF StoreInv, StoreTypes, Txns
    <3>2. txn'[d].stale => txn[d].reads # {}
      BY <1>7, <2>2, <3>1 DEF TxnInvOf
    <3>3. ASSUME ~txn'[d].stale PROVE ~txn[d].stale /\ \A k \in txn[d].reads : kv'[k] = kv[k]
      <4>1. ~txn[d].stale /\ \A k \in txn[d].reads : k \notin w
        BY <1>7, <2>2, <3>3
      <4> QED BY <1>1, <3>1, <4>1
    <3> QED BY <1>7, <2>2, <3>1, <3>2, <3>3, OthersKeep
  <2> QED BY <2>1, <2>2
<1>10. CASE UpdateInv(c)
  <2>1. /\ r.op \in UpdateOps /\ w = {r.key} /\ txn[c].val = r.val /\ UpdateError(r) = "nil"
        /\ Atomic!Returns(c, "nil", <<>>)
    BY <1>1, <1>10 DEF UpdateInv, UpdateOps, Return, Reply, Atomic!Returns, Atomic!Reply
  <2>2. kv' = [kv EXCEPT ![r.key] = r.val]
    BY <1>1, <1>3, <2>1 DEF StoreInv, StoreTypes
  <2>3. CASE r.op \in {"put", "delete"}
    <3>1. r.op = "delete" => r.val = Absent
      BY <1>2, RequestsAssumption
    <3>2. kv' = [kv EXCEPT ![r.key] = IF r.op = "put" THEN r.val ELSE Absent]
      BY <2>2, <2>3, <3>1
    <3>3. Atomic!Writes(c)
      BY <2>1, <2>3, <3>2 DEF Atomic!Writes
    <3> QED BY <1>8, <1>9, <3>3 DEF StoreInv, Atomic!StoreNext
  <2>4. CASE r.op \in {"atomicPut", "atomicDelete"}
    <3>1. "nil" = (IF r.op = "atomicDelete" /\ r.prev = Absent THEN "PreviousNotSpecified"
                   ELSE IF kv[r.key] = r.prev THEN "nil"
                   ELSE IF kv[r.key] = Absent THEN "KeyNotFound"
                   ELSE IF r.prev = Absent THEN "KeyExists"
                   ELSE "KeyModified")
      BY <2>1, <2>4, ErrorIsRefusal
    <3>2. PICK e : e = "nil" /\ Atomic!Returns(c, e, <<>>)
      BY <2>1
    <3>3. Atomic!Swaps(c)
      BY <2>2, <2>4, <3>1, <3>2 DEF Atomic!Swaps
    <3> QED BY <1>8, <1>9, <3>3 DEF StoreInv, Atomic!StoreNext
  <2> QED BY <2>1, <2>3, <2>4 DEF UpdateOps
<1>11. CASE ChunkInv(c)
  <2>1. r.op = "deleteRange" /\ txn[c].val = Absent /\ call' = call
    BY <1>1, <1>11 DEF ChunkInv, More
  <2>2. \A k \in w : r.key <= k /\ k < r.end
    BY <1>11 DEF ChunkInv
  <2>3. PICK S : S = w \intersect Atomic!InRange(r)
    OBVIOUS
  <2>4. \A k \in KVKeys : k \in w \ S => kv[k] = Absent
    BY <2>2, <2>3 DEF Atomic!InRange, Atomic!Present
  <2>5. kv' = [k \in KVKeys |-> IF k \in S THEN Absent ELSE kv[k]]
    BY <1>1, <2>1, <2>3, <2>4
  <2>6. Atomic!Removes(c)
    BY <2>1, <2>3, <2>5 DEF Atomic!Removes
  <2> QED BY <1>8, <1>9, <2>6 DEF StoreInv, Atomic!StoreNext
<1> QED BY <1>2, <1>10, <1>11

\* badgerkv.Store implements the atomic store for any number of clients, any
\* requests and any limits of its transactions: every step of its transactions is
\* one of the store's operations at one instant, or is not seen by any client.
THEOREM StoreIsAtomic == BadgerSpec => ImplementsStore
<1>1. BadgerInit => StoreInv /\ Atomic!StoreInit
  <2> SUFFICES ASSUME BadgerInit PROVE StoreInv /\ Atomic!StoreInit
    OBVIOUS
  <2>1. Reply("nil", <<>>).op = "done" /\ NoTxn \in Txns /\ ~NoTxn.open /\ ~NoTxn.stale
    BY DEF Reply, NoTxn, Txns, Vals
  <2>2. StoreInv
    BY <2>1 DEF BadgerInit, StoreInv, StoreTypes, TxnInvOf
  <2> QED BY <2>2 DEF BadgerInit, Reply, Atomic!StoreInit, Atomic!Reply
<1>2. StoreInv /\ [BadgerNext]_storeVars => StoreInv' /\ [Atomic!StoreNext]_<<kv, call>>
  <2> SUFFICES ASSUME StoreInv, [BadgerNext]_storeVars PROVE StoreInv' /\ [Atomic!StoreNext]_<<kv, call>>
    OBVIOUS
  <2>1. CASE UNCHANGED storeVars
    <3>1. kv' = kv /\ call' = call /\ txn' = txn
      BY <2>1 DEF storeVars
    <3>2. ASSUME NEW d \in Clients PROVE TxnInvOf(d)'
      BY <3>1 DEF StoreInv, TxnInvOf, UpdateInv, ChunkInv, KeysRead, UpdateError, AtomicPutError, AtomicDeleteError
    <3> QED BY <3>1, <3>2 DEF StoreInv, StoreTypes
  <2>2. CASE BadgerNext
    BY <2>2, ReadStep, BeginUpdateStep, BeginChunkStep, ConflictStep, CommitStep DEF BadgerNext
  <2> QED BY <2>1, <2>2
<1> QED BY <1>1, <1>2, PTL DEF BadgerSpec, ImplementsStore, Atomic!StoreSpec

-----------------------------------------------------------------------------
\* HijackListener.  The types of the variables.
ListenerTypes ==
  /\ handler \in [Conns -> {"none", "serve", "refused", "select", "returned"}]
  /\ acceptor \in [Acceptors -> {"limiter", "select", "filter", "stopped"}]
  /\ taken \in [Acceptors -> SUBSET Conns]
  /\ server \subseteq Conns /\ shut \subseteq Conns
  /\ closer \in [Closers -> {"idle", "swapped", "cancel", "returned"}]
  /\ ch \in [Closers -> BOOLEAN]
  /\ closedDone \in BOOLEAN /\ done \in BOOLEAN

\* No connection is in two places ...
OnePlace ==
  \A i \in Conns :
    /\ handler[i] = "select" => i \notin server \union shut /\ \A a \in Acceptors : i \notin taken[a]
    /\ i \in server => i \notin shut
    /\ \A a \in Acceptors : i \in taken[a] =>
         i \notin server \union shut /\ \A b \in Acceptors : i \in taken[b] => a = b

\* ... and one is in some place from the moment when it is taken over.
SomePlace ==
  \A i \in Conns :
    handler[i] \in {"select", "returned"} <=>
      handler[i] = "select" \/ i \in server \union shut \/ \E a \in Acceptors : i \in taken[a]

Filtering == \A a \in Acceptors : taken[a] # {} <=> acceptor[a] = "filter"

\* The channel to close is still in closedDone, or one closer has it.
OneCloser ==
  /\ \A k \in Closers : ch[k] => ~closedDone /\ closer[k] # "idle"
  /\ \A k, m \in Closers : ch[k] /\ ch[m] => k = m
  /\ done => \E k \in Closers : ch[k] /\ closer[k] \in {"cancel", "returned"}

ListenerIInv == ListenerTypes /\ OnePlace /\ SomePlace /\ Filtering /\ OneCloser

\* A connection that OnePlace and SomePlace speak of has one place, or none.
LEMMA PlacesCount ==
  ASSUME ListenerIInv, NEW i \in Conns
  PROVE  Cardinality(Places(i)) = IF handler[i] \in {"select", "returned"} THEN 1 ELSE 0
<1> DEFINE A == {<<"acceptor", a>> : a \in {a \in Acceptors : i \in taken[a]}}
<1>1. CASE handler[i] = "select"
  <2>1. A = {}
    BY <1>1 DEF ListenerIInv, OnePlace
  <2>2. Places(i) = {<<"handler">>}
    BY <1>1, <2>1 DEF ListenerIInv, OnePlace, Places
  <2> QED BY <1>1, <2>2, FS_Singleton
<1>2. CASE i \in server
  <2>1. A = {} /\ handler[i] # "select" /\ i \notin shut /\ handler[i] = "returned"
    BY <1>2 DEF ListenerIInv, OnePlace, SomePlace
  <2>2. Places(i) = {<<"server">>}
    BY <1>2, <2>1 DEF Places
  <2> QED BY <2>1, <2>2, FS_Singleton
<1>3. CASE i \in shut
  <2>1. A = {} /\ handler[i] # "select" /\ i \notin server /\ handler[i] = "returned"
    BY <1>3 DEF ListenerIInv, OnePlace, SomePlace
  <2>2. Places(i) = {<<"closed">>}
    BY <1>3, <2>1 DEF Places
  <2> QED BY <2>1, <2>2, FS_Singleton
<1>4. ASSUME NEW a \in Acceptors, i \in taken[a]
      PROVE  Cardinality(Places(i)) = IF handler[i] \in {"select", "returned"} THEN 1 ELSE 0
  <2>1. /\ {b \in Acceptors : i \in taken[b]} = {a} /\ handler[i] # "select"
        /\ i \notin server /\ i \notin shut /\ handler[i] = "returned"
    BY <1>4 DEF ListenerIInv, OnePlace, SomePlace
  <2>2. Places(i) = {<<"acceptor", a>>}
    BY <2>1 DEF Places
  <2> QED BY <2>1, <2>2, FS_Singleton
<1>5. CASE handler[i] \notin {"select", "returned"}
  <2>1. {b \in Acceptors : i \in taken[b]} = {} /\ i \notin server /\ i \notin shut
    BY <1>5 DEF ListenerIInv, SomePlace
  <2>2. Places(i) = {}
    BY <1>5, <2>1 DEF Places
  <2> QED BY <1>5, <2>2, FS_EmptySet
<1> QED BY <1>1, <1>2, <1>3, <1>4, <1>5 DEF ListenerIInv, SomePlace

-----------------------------------------------------------------------------
\* ServeHTTP keeps the invariant.
LEMMA HandlerKeeps ==
  ASSUME ListenerIInv, NEW i \in Conns, Request(i) \/ HandlerNext(i)
  PROVE  ListenerIInv'
<1> USE DEF ListenerIInv, ListenerTypes, OnePlace, SomePlace, Filtering, OneCloser
<1>1. CASE Request(i)
  BY <1>1 DEF Request
<1>2. CASE Refuse(i)
  BY <1>2 DEF Refuse
<1>3. CASE Hijack(i)
  BY <1>3 DEF Hijack
<1>4. CASE HandlerDone(i)
  BY <1>4 DEF HandlerDone, ClosedByHandler
<1> QED BY <1>1, <1>2, <1>3, <1>4 DEF HandlerNext

\* Accept keeps it, through the hand-over and the filter.
LEMMA AcceptorKeeps ==
  ASSUME ListenerIInv, NEW a \in Acceptors, AcceptorNext(a)
  PROVE  ListenerIInv'
<1> USE DEF ListenerIInv, ListenerTypes, OnePlace, SomePlace, Filtering, OneCloser
<1>1. CASE Wait(a)
  BY <1>1 DEF Wait
<1>2. CASE AcceptFails(a)
  BY <1>2 DEF AcceptFails
<1>3. CASE Filter(a)
  BY <1>3 DEF Filter
<1>4. ASSUME NEW i \in Conns, HandOver(a, i) PROVE ListenerIInv'
  BY <1>4 DEF HandOver
<1> QED BY <1>1, <1>2, <1>3, <1>4 DEF AcceptorNext

\* Close keeps it: the first one to swap has the channel.
LEMMA CloserKeeps ==
  ASSUME ListenerIInv, NEW k \in Closers, SwapDone(k) \/ CloserNext(k)
  PROVE  ListenerIInv'
<1> USE DEF ListenerIInv, ListenerTypes, OnePlace, SomePlace, Filtering, OneCloser
<1>1. CASE SwapDone(k)
  <2>1. /\ ch' = [ch EXCEPT ![k] = closedDone] /\ closer' = [closer EXCEPT ![k] = "swapped"]
        /\ closer[k] = "idle" /\ closedDone' = FALSE /\ done' = done
    BY <1>1 DEF SwapDone
  <2>2. UNCHANGED <<handler, acceptor, taken, server, shut>>
    BY <1>1 DEF SwapDone
  <2>3. /\ ch'[k] = closedDone /\ closer'[k] = "swapped"
        /\ \A m \in Closers : m # k => ch'[m] = ch[m] /\ closer'[m] = closer[m]
    BY <2>1
  <2>4. ch' \in [Closers -> BOOLEAN] /\ closedDone' \in BOOLEAN
    BY <2>1, Zenon
  <2>5. \A m \in Closers : ch'[m] => (m = k /\ closedDone) \/ (m # k /\ ch[m] /\ ~closedDone)
    <3>1. ASSUME NEW m \in Closers, ch'[m], m = k PROVE closedDone
      BY <2>3, <3>1, Zenon
    <3>2. ASSUME NEW m \in Closers, ch'[m], m # k PROVE ch[m]
      BY <2>3, <3>2, Zenon
    <3>3. \A m \in Closers : ch[m] => ~closedDone
      BY Zenon DEF OneCloser
    <3> QED BY <3>1, <3>2, <3>3, Zenon
  <2>6. \A m \in Closers : ch'[m] => ~closedDone' /\ closer'[m] # "idle"
    BY <2>1, <2>3
  <2>7. \A m, n \in Closers : ch'[m] /\ ch'[n] => m = n
    BY <2>5
  <2>8. done' => \E m \in Closers : ch'[m] /\ closer'[m] \in {"cancel", "returned"}
    BY <2>1, <2>3
  <2> QED BY <2>1, <2>2, <2>4, <2>6, <2>7, <2>8
<1>2. CASE CloseDone(k)
  BY <1>2 DEF CloseDone
<1>3. CASE CancelContext(k)
  BY <1>3 DEF CancelContext
<1> QED BY <1>1, <1>2, <1>3 DEF CloserNext

\* The invariant holds in every reachable state.
LEMMA ListenerInvariance == ListenerSpec => []ListenerIInv
<1> USE DEF ListenerIInv, ListenerTypes, OnePlace, SomePlace, Filtering, OneCloser
<1>1. ListenerInit => ListenerIInv
  BY DEF ListenerInit
<1>2. ListenerIInv /\ [ListenerNext]_listenerVars => ListenerIInv'
  <2> SUFFICES ASSUME ListenerIInv, [ListenerNext]_listenerVars PROVE ListenerIInv'
    OBVIOUS
  <2>1. CASE UNCHANGED listenerVars
    BY <2>1 DEF listenerVars
  <2>2. CASE Refill
    BY <2>2 DEF Refill
  <2> HIDE DEF ListenerIInv
  <2> QED BY <2>1, <2>2, HandlerKeeps, AcceptorKeeps, CloserKeeps DEF ListenerNext
<1> QED BY <1>1, <1>2, PTL DEF ListenerSpec

\* However Close races the hand-over, a connection that was taken over is with
\* its handler, one acceptor, the server, or closed, and only one of these; and
\* only one Close closes done.
THEOREM ConnectionsInOnePlace == ListenerSpec => []ListenerInv
<1>1. ListenerIInv => ListenerInv
  BY PlacesCount DEF ListenerIInv, ListenerInv, Filtering, OneCloser
<1> QED BY <1>1, ListenerInvariance, PTL

-----------------------------------------------------------------------------
\* RefContext.  x is in the list s.
Listed(x, s) == \E i \in 1..Len(s) : s[i] = x

\* The removal by swapping shortens the list by one, loses no element but the
\* removed one, and moves the first element only when that is the removed one.
LEMMA SwapDeleteKeeps ==
  ASSUME NEW S, NEW s \in Seq(S), NEW i \in 1..Len(s)
  PROVE  /\ SwapDelete(s, i) \in Seq(S)
         /\ Len(SwapDelete(s, i)) = Len(s) - 1
         /\ \A x : Listed(x, s) /\ x # s[i] => Listed(x, SwapDelete(s, i))
         /\ i > 1 => SwapDelete(s, i) # <<>> /\ Head(SwapDelete(s, i)) = Head(s)
<1> DEFINE u == [s EXCEPT ![i] = s[Len(s)]]
           t == SwapDelete(s, i)
<1>1. /\ u \in Seq(S) /\ Len(u) = Len(s)
      /\ \A j \in 1..Len(s) : u[j] = IF j = i THEN s[Len(s)] ELSE s[j]
  OBVIOUS
<1>2. Len(s) - 1 \in 0..Len(u)
  BY <1>1
<1> HIDE DEF u
<1>3. t = SubSeq(u, 1, Len(s) - 1)
  BY DEF SwapDelete, u
<1>4. t \in Seq(S) /\ Len(t) = Len(s) - 1 /\ \A j \in 1..(Len(s) - 1) : t[j] = u[j]
  BY <1>1, <1>2, <1>3
<1>5. ASSUME NEW x, Listed(x, s), x # s[i] PROVE Listed(x, t)
  <2>1. PICK j \in 1..Len(s) : s[j] = x
    BY <1>5 DEF Listed
  <2>2. j # i
    BY <1>5, <2>1
  <2>3. CASE j < Len(s)
    <3>1. j \in 1..Len(t) /\ t[j] = x
      BY <1>1, <1>4, <2>1, <2>2, <2>3
    <3> QED BY <3>1 DEF Listed
  <2>4. CASE j = Len(s)
    <3>1. i \in 1..Len(t) /\ t[i] = x
      BY <1>1, <1>4, <2>1, <2>2, <2>4
    <3> QED BY <3>1 DEF Listed
  <2> QED BY <2>3, <2>4
<1>6. ASSUME i > 1 PROVE t # <<>> /\ Head(t) = Head(s)
  <2>1. Len(t) >= 1 /\ Len(s) >= 2
    BY <1>4, <1>6
  <2>2. t[1] = s[1]
    BY <1>1, <1>4, <1>6, <2>1
  <2>3. Head(t) = t[1] /\ Head(s) = s[1] /\ t # <<>>
    BY <1>4, <2>1
  <2> QED BY <2>2, <2>3
<1> HIDE DEF t
<1>7. /\ t \in Seq(S) /\ Len(t) = Len(s) - 1
      /\ \A x : Listed(x, s) /\ x # s[i] => Listed(x, t)
      /\ i > 1 => t # <<>> /\ Head(t) = Head(s)
  BY <1>4, <1>5, <1>6
<1> QED BY <1>7 DEF t

-----------------------------------------------------------------------------
\* The watcher's view of the list: it is not empty before the watcher looks, and
\* while the watcher waits, its context is the first one, except in the critical
\* section in which the watcher itself has removed it.
WatchInv ==
  /\ lock = "watcher" => wpc = "waiting"
  /\ wpc = "start" => ctxs # <<>>
  /\ wpc = "waiting" /\ lock # "watcher" => ctxs # <<>> /\ Head(ctxs) = watched
  /\ wpc = "exited" => err = "done"

\* A context that was added and is alive is in the list as long as the
\* RefContext is alive.
KeptInv == err = "live" => \A x \in refd : x \in ended \/ Listed(x, ctxs)

RefIInv == ListInv /\ WatchInv /\ KeptInv /\ AliveWhileReferenced

\* The calls of a user, and contexts that end, keep the invariant.
LEMMA UserKeeps ==
  ASSUME RefIInv, (\E x \in Contexts : End(x) \/ Ref(x)) \/ Stop
  PROVE  RefIInv'
<1> USE DEF RefIInv, ListInv, RefTypeOK, NoWatchPanic, WatchInv, KeptInv, AliveWhileReferenced
<1>1. ASSUME NEW x \in Contexts, End(x) PROVE RefIInv'
  BY <1>1 DEF End, Listed
<1>2. ASSUME NEW x \in Contexts, Ref(x) PROVE RefIInv'
  <2>1. /\ ctxs' \in Seq(Contexts) /\ ctxs' # <<>> /\ Head(ctxs') = Head(ctxs)
        /\ Len(ctxs') = Len(ctxs) + 1 /\ ctxs'[Len(ctxs) + 1] = x
        /\ \A i \in 1..Len(ctxs) : ctxs'[i] = ctxs[i]
    BY <1>2 DEF Ref
  <2>2. \A y : y = x \/ Listed(y, ctxs) => Listed(y, ctxs')
    BY <2>1 DEF Listed
  <2>3. /\ lock = "free" /\ lock' = "ref" /\ err = "live" /\ refs' \in 1..MaxRefs
        /\ refd' = refd \cup {x}
        /\ UNCHANGED <<wpc, watched, ended, err, watchPanicked, stopped>>
    BY <1>2, MaxRefsAssumption DEF Ref
  <2> HIDE DEF Listed
  <2>4. KeptInv'
    BY <2>2, <2>3
  <2> QED BY <2>1, <2>3, <2>4
<1>3. CASE Stop
  <2>1. stopped' \in BOOLEAN
    BY <1>3, Zenon DEF Stop
  <2> QED BY <1>3, <2>1 DEF Stop
<1> QED BY <1>1, <1>2, <1>3

\* The clean-up keeps it: what it removes has ended and is not the first.
LEMMA CleanupKeeps ==
  ASSUME RefIInv, Cleanup
  PROVE  RefIInv'
<1> USE DEF RefIInv, ListInv, RefTypeOK, NoWatchPanic, WatchInv, KeptInv, AliveWhileReferenced
<1>1. CASE CleanupRemoves
  <2>1. PICK i \in 2..Len(ctxs) : ctxs[i] \in ended /\ ctxs' = SwapDelete(ctxs, i)
    BY <1>1 DEF CleanupRemoves, Removable
  <2>2. UNCHANGED <<lock, wpc, watched, ended, err, watchPanicked, refd, refs, stopped>>
    BY <1>1 DEF CleanupRemoves
  <2>3. i \in 1..Len(ctxs) /\ i > 1
    BY <2>1
  <2>4. /\ ctxs' \in Seq(Contexts) /\ ctxs' # <<>> /\ Head(ctxs') = Head(ctxs)
        /\ \A x : Listed(x, ctxs) /\ x # ctxs[i] => Listed(x, ctxs')
    BY <2>1, <2>3, SwapDeleteKeeps
  <2>5. KeptInv'
    BY <2>1, <2>2, <2>4
  <2> QED BY <2>2, <2>4, <2>5
<1>2. CASE CleanupStops
  <2>1. UNCHANGED <<ended, watchPanicked, refd, refs, stopped>>
    BY <1>2 DEF CleanupStops
  <2>2. CASE lock = "ref" /\ lock' = "free" /\ UNCHANGED <<ctxs, wpc, watched, err>>
    BY <2>1, <2>2 DEF Listed
  <2>3. CASE lock = "watcher" /\ ctxs = <<>> /\ CancelSelf /\ Leave /\ UNCHANGED watched
    <3>1. \A x : ~Listed(x, ctxs)
      BY <2>3 DEF Listed
    <3>2. err' = "done" /\ ctxs' = <<>> /\ lock' = "free" /\ wpc' = "exited" /\ watched' = watched
      BY <2>3 DEF CancelSelf, Leave
    <3>3. AliveWhileReferenced'
      BY <2>1, <3>1, <3>2
    <3>4. ctxs' \in Seq(Contexts)
      BY <3>2
    <3> QED BY <2>1, <3>2, <3>3, <3>4
  <2>4. CASE /\ lock = "watcher" /\ ctxs # <<>> /\ watched' = Head(ctxs) /\ lock' = "free"
             /\ UNCHANGED <<ctxs, wpc, err>>
    <3>1. Head(ctxs) \in Contexts
      BY <2>4
    <3> QED BY <2>1, <2>4, <3>1 DEF Listed
  <2> QED BY <1>2, <2>2, <2>3, <2>4 DEF CleanupStops, CleanupOver
<1> QED BY <1>1, <1>2 DEF Cleanup

\* The watcher keeps it.
LEMMA WatchKeeps ==
  ASSUME RefIInv, Watch
  PROVE  RefIInv'
<1> USE DEF RefIInv, ListInv, RefTypeOK, NoWatchPanic, WatchInv, KeptInv, AliveWhileReferenced
<1>1. CASE WatchStart
  <2>1. /\ UNCHANGED <<ctxs, lock, ended, err, refd, refs, stopped>> /\ lock = "free"
        /\ wpc' = "waiting" /\ ctxs # <<>> /\ watched' = Head(ctxs)
    BY <1>1 DEF WatchStart
  <2>2. ~watchPanicked' /\ watchPanicked' \in BOOLEAN
    BY <1>1, <2>1 DEF WatchStart
  <2>3. watched' \in Contexts
    BY <2>1
  <2> QED BY <2>1, <2>2, <2>3 DEF Listed
<1>2. CASE WatchStopped
  <2>1. /\ err = "done" /\ ctxs' = <<>> /\ lock' = "free" /\ wpc' = "exited"
        /\ UNCHANGED <<watched, ended, err, watchPanicked, refd, refs, stopped>>
    BY <1>2 DEF WatchStopped, SelfDone, Leave
  <2>2. ctxs' \in Seq(Contexts)
    BY <2>1
  <2> QED BY <2>1, <2>2
<1>3. CASE WatchEnded
  <2>1. /\ UNCHANGED <<wpc, watched, ended, err, refd, refs, stopped>>
        /\ wpc = "waiting" /\ lock = "free" /\ lock' = "watcher"
        /\ err = "live" /\ watched \in ended
    BY <1>3 DEF WatchEnded
  <2>2. ctxs # <<>> /\ Head(ctxs) = watched
    BY <2>1
  <2>3. ~watchPanicked' /\ watchPanicked' \in BOOLEAN
    BY <1>3, <2>2 DEF WatchEnded
  <2>4. ctxs' = SwapDelete(ctxs, 1)
    BY <1>3, <2>3 DEF WatchEnded
  <2>5. 1 \in 1..Len(ctxs) /\ ctxs[1] = watched
    BY <2>2
  <2>6. ctxs' \in Seq(Contexts) /\ \A x : Listed(x, ctxs) /\ x # watched => Listed(x, ctxs')
    BY <2>4, <2>5, SwapDeleteKeeps
  <2>7. KeptInv'
    BY <2>1, <2>6
  <2> QED BY <2>1, <2>3, <2>6, <2>7
<1> QED BY <1>1, <1>2, <1>3 DEF Watch

\* The invariant holds in every reachable state.
LEMMA RefInvariance == RefSpec => []RefIInv
<1>1. RefInit => RefIInv
  <2> SUFFICES ASSUME RefInit PROVE RefIInv
    OBVIOUS
  <2>1. PICK x \in Contexts : ctxs = <<x>> /\ watched = x /\ refd = {x}
    BY DEF RefInit
  <2>2. ctxs \in Seq(Contexts) /\ ctxs # <<>> /\ Len(ctxs) = 1 /\ ctxs[1] = x
    BY <2>1
  <2>3. watchPanicked \in BOOLEAN /\ stopped \in BOOLEAN
    BY Zenon DEF RefInit
  <2>4. ListInv
    BY <2>1, <2>2, <2>3, MaxRefsAssumption DEF RefInit, ListInv, RefTypeOK, NoWatchPanic
  <2>5. WatchInv /\ KeptInv /\ AliveWhileReferenced
    BY <2>1, <2>2 DEF RefInit, WatchInv, KeptInv, AliveWhileReferenced, Listed
  <2> QED BY <2>4, <2>5 DEF RefIInv
<1>2. RefIInv /\ [RefNext]_refVars => RefIInv'
  <2> SUFFICES ASSUME RefIInv, [RefNext]_refVars PROVE RefIInv'
    OBVIOUS
  <2>1. CASE UNCHANGED refVars
    BY <2>1 DEF refVars, RefIInv, ListInv, RefTypeOK, NoWatchPanic, WatchInv, KeptInv, AliveWhileReferenced, Listed
  <2>2. CASE Quiet
    BY <2>1, <2>2 DEF Quiet
  <2> QED BY <2>1, <2>2, UserKeeps, CleanupKeeps, WatchKeeps DEF RefNext
<1> QED BY <1>1, <1>2, PTL DEF RefSpec

\* The watcher never meets its panic, nor an empty list: whatever Ref appends
\* and the random clean-up removes, the watched context stays first.
THEOREM WatcherFindsItsContext == RefSpec => []ListInv
<1>1. RefIInv => ListInv
  BY DEF RefIInv
<1> QED BY <1>1, RefInvariance, PTL

\* The RefContext ends by itself only after every context that was ever added.
THEOREM OutlivesReferences == RefSpec => []AliveWhileReferenced
<1>1. RefIInv => AliveWhileReferenced
  BY DEF RefIInv
<1> QED BY <1>1, RefInvariance, PTL

-----------------------------------------------------------------------------
\* BufferPool.  A region is idle when it is free or in a pool.
PoolBytes == 0..2
Heaps ==
  [mem : [Regions -> Seq(PoolBytes)], fill : [Regions -> Nat],
   pools : [Kinds -> [Classes -> SUBSET Regions]]]
InPool(s, r) == \E k \in Kinds, bits \in Classes : r \in s.pools[k][bits]
IdleIn(s, r) == s.mem[r] = <<>> \/ InPool(s, r)

\* Pooled memory is in one pool, the one of its capacity, a slice with its first
\* byte poisoned; a bytes.Buffer that nobody holds is empty.
HeapOK(s) ==
  /\ s \in Heaps
  /\ \A k \in Kinds, bits \in Classes : \A r \in s.pools[k][bits] :
       /\ Len(s.mem[r]) = 2^bits
       /\ k = "slice" => s.mem[r][1] = 1
       /\ \A j \in Kinds, d \in Classes : r \in s.pools[j][d] => j = k /\ d = bits
  /\ \A r \in Regions : IdleIn(s, r) => s.fill[r] = 0

\* Nothing about the region r differs between the two heaps.
SameAt(s, z, r) == z.mem[r] = s.mem[r] /\ z.fill[r] = s.fill[r] /\ (InPool(z, r) <=> InPool(s, r))

\* The heap z has taken the idle region r of s into use, n bytes or more.
Took(s, z, r, n) ==
  /\ HeapOK(z)
  /\ r \in Regions /\ IdleIn(s, r) /\ ~IdleIn(z, r)
  /\ Len(z.mem[r]) >= n /\ z.fill[r] = 0
  /\ \A q \in Regions \ {r} : SameAt(s, z, q)

\* The heap z has the region r of s idle.
Gave(s, z, r) == HeapOK(z) /\ \A q \in Regions \ {r} : SameAt(s, z, q)

\* The heap z is s with a pool replaced, and s with the bytes m and the level f of
\* a bytes.Buffer in the region r.
PoolSet(s, z, kind, bits, P) == z = [s EXCEPT !.pools[kind][bits] = P]
Stores(s, z, r, m, f) ==
  /\ z \in Heaps /\ z.pools = s.pools /\ z.mem[r] = m /\ z.fill[r] = f
  /\ \A q \in Regions \ {r} : z.mem[q] = s.mem[q] /\ z.fill[q] = s.fill[q]

\* New memory is all zeros; memory whose first byte is zero is new.
AllZero(m) == \A i \in 1..Len(m) : m[i] = 0
NewIfZero(m) == m[1] = 0 => AllZero(m)

\* A region in use keeps the heap in order whatever is written to it.
LEMMA StoreKeepsHeap ==
  ASSUME NEW s, HeapOK(s), NEW r \in Regions, ~IdleIn(s, r),
         NEW m \in Seq(PoolBytes), m # <<>>, NEW f \in Nat,
         NEW z, Stores(s, z, r, m, f)
  PROVE  /\ HeapOK(z) /\ ~IdleIn(z, r) /\ z.mem[r] = m /\ z.fill[r] = f
         /\ \A q \in Regions \ {r} : SameAt(s, z, q)
<1>1. /\ z \in Heaps /\ z.pools = s.pools /\ z.mem[r] = m /\ z.fill[r] = f
      /\ \A q \in Regions \ {r} : z.mem[q] = s.mem[q] /\ z.fill[q] = s.fill[q]
  BY DEF HeapOK, Heaps, Stores
<1>2. \A q \in Regions : InPool(z, q) <=> InPool(s, q)
  BY <1>1 DEF InPool
<1>3. ~IdleIn(z, r) /\ \A q \in Regions \ {r} : SameAt(s, z, q) /\ (IdleIn(z, q) <=> IdleIn(s, q))
  BY <1>1, <1>2 DEF IdleIn, SameAt
<1>4. ~InPool(s, r)
  BY DEF IdleIn
<1>5. \A k \in Kinds, bits \in Classes : \A q \in s.pools[k][bits] : q \in Regions \ {r}
  BY <1>4 DEF InPool, HeapOK, Heaps
<1>6. HeapOK(z)
  BY <1>1, <1>3, <1>5 DEF HeapOK
<1> QED BY <1>1, <1>3, <1>6

\* make takes a free region and zeroes it.
LEMMA MakeTakes ==
  ASSUME NEW s, HeapOK(s), NEW size \in Nat \ {0}, NEW g \in Make(s, size)
  PROVE  Took(s, g.heap, g.region, size) /\ AllZero(g.heap.mem[g.region])
<1>1. PICK r \in Regions : s.mem[r] = <<>> /\ g = [heap |-> [s EXCEPT !.mem[r] = Zeros(size)], region |-> r]
  BY DEF Make
<1> DEFINE z == g.heap
<1>2. Zeros(size) \in Seq(PoolBytes) /\ Len(Zeros(size)) = size /\ AllZero(Zeros(size)) /\ Zeros(size) # <<>>
  BY DEF Zeros, PoolBytes, AllZero
<1>3. /\ g.region = r /\ z \in Heaps /\ z.pools = s.pools /\ z.fill = s.fill /\ z.mem[r] = Zeros(size)
      /\ \A q \in Regions \ {r} : z.mem[q] = s.mem[q]
  BY <1>1, <1>2 DEF HeapOK, Heaps
<1>4. IdleIn(s, r) /\ s.fill[r] = 0
  BY <1>1 DEF IdleIn, HeapOK
<1>5. \A k \in Kinds, bits \in Classes : r \notin s.pools[k][bits]
  <2> SUFFICES ASSUME NEW k \in Kinds, NEW bits \in Classes, r \in s.pools[k][bits] PROVE FALSE
    OBVIOUS
  <2>1. Len(s.mem[r]) = 2^bits /\ Len(s.mem[r]) = 0
    BY <1>1 DEF HeapOK
  <2> QED BY <2>1, PowersAssumption
<1> HIDE DEF z
<1>6. \A q \in Regions : InPool(z, q) <=> InPool(s, q)
  BY <1>3 DEF InPool
<1>7. ~IdleIn(z, r) /\ \A q \in Regions \ {r} : SameAt(s, z, q) /\ (IdleIn(z, q) <=> IdleIn(s, q))
  BY <1>2, <1>3, <1>5, <1>6 DEF IdleIn, SameAt, InPool
<1>8. \A k \in Kinds, bits \in Classes : \A q \in s.pools[k][bits] : q \in Regions \ {r}
  BY <1>5 DEF HeapOK, Heaps
<1>9. HeapOK(z)
  BY <1>3, <1>4, <1>7, <1>8 DEF HeapOK
<1> QED BY <1>2, <1>3, <1>4, <1>7, <1>9 DEF Took, z

\* The heap with the pool of one kind and class replaced.
LEMMA PoolUpdated ==
  ASSUME NEW s \in Heaps, NEW kind \in Kinds, NEW bits \in Classes, NEW P \in SUBSET Regions,
         NEW z, PoolSet(s, z, kind, bits, P)
  PROVE  /\ z \in Heaps /\ z.mem = s.mem /\ z.fill = s.fill /\ z.pools[kind][bits] = P
         /\ \A j \in Kinds, d \in Classes : ~(j = kind /\ d = bits) => z.pools[j][d] = s.pools[j][d]
<1>1. PICK F : F = [s.pools[kind] EXCEPT ![bits] = P]
  OBVIOUS
<1>2. PICK G : G = [s.pools EXCEPT ![kind] = F]
  OBVIOUS
<1>3. s.pools \in [Kinds -> [Classes -> SUBSET Regions]]
  BY DEF Heaps
<1>4. F \in [Classes -> SUBSET Regions] /\ F[bits] = P /\ \A d \in Classes \ {bits} : F[d] = s.pools[kind][d]
  BY <1>1, <1>3
<1>5. G \in [Kinds -> [Classes -> SUBSET Regions]] /\ G[kind] = F /\ \A j \in Kinds \ {kind} : G[j] = s.pools[j]
  BY <1>2, <1>3, <1>4
<1>6. z = [s EXCEPT !.pools = G]
  BY <1>1, <1>2, <1>3 DEF Heaps, PoolSet
<1>7. z \in Heaps /\ z.mem = s.mem /\ z.fill = s.fill /\ z.pools = G
  BY <1>5, <1>6 DEF Heaps
<1> QED BY <1>4, <1>5, <1>7

\* sync.Pool.Get gives new memory or takes a region from its pool.
LEMMA PoolGetTakes ==
  ASSUME NEW s, HeapOK(s), NEW kind \in Kinds, NEW bits \in Classes, NEW g \in PoolGet(s, kind, bits)
  PROVE  /\ Took(s, g.heap, g.region, 2^bits)
         /\ kind = "slice" => NewIfZero(g.heap.mem[g.region])
<1>0. 2^bits \in Nat \ {0}
  BY PowersAssumption
<1>1. CASE g \in Make(s, 2^bits)
  BY <1>0, <1>1, MakeTakes DEF NewIfZero
<1>2. CASE g \notin Make(s, 2^bits)
  <2>1. PICK r \in s.pools[kind][bits] :
          g = [heap |-> [s EXCEPT !.pools[kind][bits] = @ \ {r}], region |-> r]
    BY <1>2 DEF PoolGet
  <2> DEFINE z == g.heap
  <2>2. r \in Regions /\ Len(s.mem[r]) = 2^bits /\ (kind = "slice" => s.mem[r][1] = 1)
    BY DEF HeapOK, Heaps
  <2>3. /\ g.region = r /\ z \in Heaps /\ z.mem = s.mem /\ z.fill = s.fill
        /\ z.pools[kind][bits] = s.pools[kind][bits] \ {r}
        /\ \A j \in Kinds, d \in Classes : ~(j = kind /\ d = bits) => z.pools[j][d] = s.pools[j][d]
    <3>1. PICK P : P = s.pools[kind][bits] \ {r}
      OBVIOUS
    <3>2. s \in Heaps /\ P \in SUBSET Regions
      BY <3>1 DEF HeapOK, Heaps
    <3>3. PoolSet(s, z, kind, bits, P) /\ g.region = r
      BY <2>1, <3>1 DEF PoolSet
    <3> HIDE DEF z
    <3>4. /\ z \in Heaps /\ z.mem = s.mem /\ z.fill = s.fill /\ z.pools[kind][bits] = P
          /\ \A j \in Kinds, d \in Classes : ~(j = kind /\ d = bits) => z.pools[j][d] = s.pools[j][d]
      BY <3>2, <3>3, PoolUpdated
    <3> QED BY <3>1, <3>3, <3>4
  <2>4. InPool(s, r) /\ IdleIn(s, r) /\ s.fill[r] = 0
    <3>1. InPool(s, r)
      BY DEF InPool
    <3> QED BY <2>2, <3>1 DEF IdleIn, HeapOK
  <2> HIDE DEF z
  <2>5. \A j \in Kinds, d \in Classes : z.pools[j][d] = s.pools[j][d] \ {r}
    <3> SUFFICES ASSUME NEW j \in Kinds, NEW d \in Classes PROVE z.pools[j][d] = s.pools[j][d] \ {r}
      OBVIOUS
    <3>1. CASE j = kind /\ d = bits
      BY <2>3, <3>1
    <3>2. CASE ~(j = kind /\ d = bits)
      <4>1. r \notin s.pools[j][d]
        BY <3>2 DEF HeapOK
      <4> QED BY <2>3, <3>2, <4>1
    <3> QED BY <3>1, <3>2
  <2>6. ~InPool(z, r) /\ \A q \in Regions \ {r} : InPool(z, q) <=> InPool(s, q)
    BY <2>5 DEF InPool
  <2>7. ~IdleIn(z, r) /\ \A q \in Regions \ {r} : SameAt(s, z, q) /\ (IdleIn(z, q) <=> IdleIn(s, q))
    BY <1>0, <2>2, <2>3, <2>6 DEF IdleIn, SameAt
  <2>8. HeapOK(z)
    <3>1. \A q \in Regions : IdleIn(z, q) => z.fill[q] = 0
      BY <2>3, <2>7 DEF HeapOK
    <3> QED BY <2>3, <2>5, <3>1 DEF HeapOK
  <2>9. 2^bits >= 2^bits
    BY <1>0
  <2> QED BY <2>2, <2>3, <2>4, <2>7, <2>8, <2>9 DEF Took, NewIfZero, z
<1> QED BY <1>1, <1>2
\* The class of a size is large enough.
LEMMA ClassFits ==
  ASSUME NEW size \in 1..MaxLen
  PROVE  2^CeilLog2(size) >= size
BY PowersAssumption DEF CeilLog2

\* GetUninit gives enough memory, and marks what was used before.
LEMMA GetUninitTakes ==
  ASSUME NEW s, HeapOK(s), NEW size \in 1..MaxLen, NEW g \in GetUninit(s, size)
  PROVE  Took(s, g.heap, g.region, size) /\ NewIfZero(g.heap.mem[g.region])
<1>0. size \in Nat \ {0}
  BY SizesAssumption
<1>1. CASE CeilLog2(size) \in Classes
  <2>1. PICK bits \in Classes : bits = CeilLog2(size)
    BY <1>1
  <2>2. g \in PoolGet(s, "slice", bits)
    BY <1>1, <2>1 DEF GetUninit
  <2>3. Took(s, g.heap, g.region, 2^bits) /\ NewIfZero(g.heap.mem[g.region])
    BY <2>2, PoolGetTakes DEF Kinds
  <2>4. 2^bits >= size /\ 2^bits \in Nat
    BY <2>1, ClassFits, PowersAssumption
  <2>5. Len(g.heap.mem[g.region]) \in Nat
    BY <2>3 DEF Took, HeapOK, Heaps
  <2> QED BY <1>0, <2>3, <2>4, <2>5 DEF Took
<1>2. CASE CeilLog2(size) \notin Classes
  BY <1>0, <1>2, MakeTakes DEF GetUninit, NewIfZero
<1> QED BY <1>1, <1>2

\* Get gives enough memory, all zeros.
LEMMA GetTakes ==
  ASSUME NEW s, HeapOK(s), NEW size \in 1..MaxLen, NEW g \in Get(s, size)
  PROVE  Took(s, g.heap, g.region, size) /\ AllZero(g.heap.mem[g.region])
<1>0. size \in Nat \ {0}
  BY SizesAssumption
<1>1. PICK u \in GetUninit(s, size) : g = Zeroed(u)
  BY DEF Get
<1>2. Took(s, u.heap, u.region, size) /\ NewIfZero(u.heap.mem[u.region])
  BY GetUninitTakes
<1>3. CASE u.heap.mem[u.region][1] = 0
  <2>1. g = u
    BY <1>1, <1>3 DEF Zeroed
  <2> QED BY <1>2, <1>3, <2>1 DEF NewIfZero
<1>4. CASE u.heap.mem[u.region][1] # 0
  <2>1. PICK y, r, m : y = u.heap /\ r = u.region /\ m = Zeros(Len(y.mem[r]))
    OBVIOUS
  <2>2. /\ HeapOK(y) /\ r \in Regions /\ IdleIn(s, r) /\ ~IdleIn(y, r) /\ Len(y.mem[r]) >= size
        /\ y.fill[r] = 0 /\ \A q \in Regions \ {r} : SameAt(s, y, q)
    BY <1>2, <2>1 DEF Took
  <2>3. y.mem[r] \in Seq(PoolBytes) /\ Len(y.mem[r]) \in Nat \ {0}
    <3>1. y.mem[r] \in Seq(PoolBytes)
      BY <2>2 DEF HeapOK, Heaps
    <3> QED BY <1>0, <2>2, <3>1
  <2>4. m \in Seq(PoolBytes) /\ Len(m) = Len(y.mem[r]) /\ AllZero(m) /\ m # <<>>
    BY <2>1, <2>3 DEF Zeros, PoolBytes, AllZero
  <2>5. u = [heap |-> y, region |-> r]
    BY <2>1 DEF GetUninit, PoolGet, Make
  <2>6. g.heap = [y EXCEPT !.mem[r] = m] /\ g.region = r
    BY <1>1, <1>4, <2>1, <2>5 DEF Zeroed
  <2>7. /\ HeapOK(g.heap) /\ ~IdleIn(g.heap, r) /\ g.heap.mem[r] = m /\ g.heap.fill[r] = y.fill[r]
        /\ \A q \in Regions \ {r} : SameAt(y, g.heap, q)
    <3>1. PICK z : z = g.heap
      OBVIOUS
    <3>2. Stores(y, z, r, m, 0)
      <4>1. y \in Heaps /\ z = [y EXCEPT !.mem[r] = m]
        BY <2>2, <2>6, <3>1 DEF HeapOK
      <4> QED BY <2>2, <2>4, <4>1 DEF Heaps, Stores
    <3>3. /\ HeapOK(z) /\ ~IdleIn(z, r) /\ z.mem[r] = m /\ z.fill[r] = 0
          /\ \A q \in Regions \ {r} : SameAt(y, z, q)
      BY <2>2, <2>4, <3>2, StoreKeepsHeap
    <3> QED BY <2>2, <3>1, <3>3
  <2>8. \A q \in Regions \ {r} : SameAt(s, g.heap, q)
    BY <2>2, <2>7 DEF SameAt
  <2> QED BY <2>2, <2>4, <2>6, <2>7, <2>8 DEF Took
<1> QED BY <1>3, <1>4

\* GetBuffer gives memory.
LEMMA GetBufferTakes ==
  ASSUME NEW s, HeapOK(s), NEW size \in 1..MaxLen, NEW g \in GetBuffer(s, size)
  PROVE  Took(s, g.heap, g.region, 0)
<1>0. size \in Nat \ {0}
  BY SizesAssumption
<1>1. PICK bits : bits = IF CeilLog2(size) < MinSizeBits THEN MinSizeBits ELSE CeilLog2(size)
  OBVIOUS
<1>2. CASE bits > MaxSizeBits
  <2>1. g \in Make(s, size)
    BY <1>1, <1>2 DEF GetBuffer
  <2>2. Took(s, g.heap, g.region, size)
    BY <1>0, <2>1, MakeTakes
  <2> QED BY <1>0, <2>2 DEF Took, HeapOK, Heaps
<1>3. CASE ~(bits > MaxSizeBits)
  <2>1. g \in PoolGet(s, "bytes", bits)
    BY <1>1, <1>3 DEF GetBuffer
  <2>2. CeilLog2(size) \in 0..size
    BY PowersAssumption DEF CeilLog2
  <2>3. bits \in Classes
    BY <1>0, <1>1, <1>3, <2>2, BitsAssumption DEF Classes
  <2>4. Took(s, g.heap, g.region, 2^bits) /\ 2^bits \in Nat
    BY <2>1, <2>3, PoolGetTakes, PowersAssumption DEF Kinds
  <2> QED BY <2>4 DEF Took, HeapOK, Heaps
<1> QED BY <1>2, <1>3

\* A region in use is freed, or goes to the pool of its kind and class.
Frees(s, z, r) ==
  /\ z \in Heaps /\ z.pools = s.pools /\ z.mem[r] = <<>> /\ z.fill[r] = 0
  /\ \A q \in Regions \ {r} : z.mem[q] = s.mem[q] /\ z.fill[q] = s.fill[q]
Pools(s, z, r, kind, bits) ==
  /\ z \in Heaps /\ z.fill[r] = 0
  /\ Len(z.mem[r]) = 2^bits /\ (kind = "slice" => z.mem[r][1] = 1)
  /\ \A q \in Regions \ {r} : z.mem[q] = s.mem[q] /\ z.fill[q] = s.fill[q]
  /\ z.pools[kind][bits] = s.pools[kind][bits] \union {r}
  /\ \A j \in Kinds, d \in Classes : ~(j = kind /\ d = bits) => z.pools[j][d] = s.pools[j][d]

LEMMA FreesGives ==
  ASSUME NEW s, HeapOK(s), NEW r \in Regions, ~IdleIn(s, r), NEW z, Frees(s, z, r)
  PROVE  Gave(s, z, r)
<1>1. \A q \in Regions : InPool(z, q) <=> InPool(s, q)
  BY DEF InPool, Frees
<1>2. \A q \in Regions \ {r} : SameAt(s, z, q) /\ (IdleIn(z, q) <=> IdleIn(s, q))
  BY <1>1 DEF IdleIn, SameAt, Frees
<1>3. ~InPool(s, r)
  BY DEF IdleIn
<1>4. \A k \in Kinds, bits \in Classes : \A q \in s.pools[k][bits] : q \in Regions \ {r}
  BY <1>3 DEF InPool, HeapOK, Heaps
<1>5. HeapOK(z)
  BY <1>2, <1>4 DEF HeapOK, Frees
<1> QED BY <1>2, <1>5 DEF Gave

LEMMA PoolsGives ==
  ASSUME NEW s, HeapOK(s), NEW r \in Regions, ~IdleIn(s, r), NEW kind \in Kinds, NEW bits \in Classes,
         NEW z, Pools(s, z, r, kind, bits)
  PROVE  Gave(s, z, r)
<1>1. \A k \in Kinds, d \in Classes : r \notin s.pools[k][d] /\ s.pools[k][d] \subseteq Regions
  BY DEF IdleIn, InPool, HeapOK, Heaps
<1>2. \A k \in Kinds, d \in Classes : \A q \in z.pools[k][d] :
        (q = r /\ k = kind /\ d = bits) \/ (q # r /\ q \in Regions /\ q \in s.pools[k][d])
  BY <1>1 DEF Pools
<1>3. \A q \in Regions \ {r} : InPool(z, q) <=> InPool(s, q)
  BY DEF InPool, Pools
<1>4. \A q \in Regions \ {r} : SameAt(s, z, q) /\ (IdleIn(z, q) <=> IdleIn(s, q))
  BY <1>3 DEF IdleIn, SameAt, Pools
<1>5. \A k \in Kinds, d \in Classes : \A q \in z.pools[k][d] :
        /\ Len(z.mem[q]) = 2^d
        /\ k = "slice" => z.mem[q][1] = 1
        /\ \A j \in Kinds, e \in Classes : q \in z.pools[j][e] => j = k /\ e = d
  <2> SUFFICES ASSUME NEW k \in Kinds, NEW d \in Classes, NEW q \in z.pools[k][d]
               PROVE  /\ Len(z.mem[q]) = 2^d
                      /\ k = "slice" => z.mem[q][1] = 1
                      /\ \A j \in Kinds, e \in Classes : q \in z.pools[j][e] => j = k /\ e = d
    OBVIOUS
  <2>1. CASE q = r
    BY <1>2, <2>1 DEF Pools
  <2>2. CASE q # r
    <3>1. q \in Regions /\ q \in s.pools[k][d]
      BY <1>2, <2>2
    <3>2. \A j \in Kinds, e \in Classes : q \in z.pools[j][e] => q \in s.pools[j][e]
      BY <1>2, <2>2
    <3> QED BY <2>2, <3>1, <3>2 DEF HeapOK, Pools
  <2> QED BY <2>1, <2>2
<1>6. HeapOK(z)
  BY <1>4, <1>5 DEF HeapOK, Pools
<1> QED BY <1>4, <1>6 DEF Gave

\* Put and PutBuffer leave the rest of the heap as it is.
LEMMA PutGives ==
  ASSUME NEW s, HeapOK(s), NEW r \in Regions, ~IdleIn(s, r), s.fill[r] = 0
  PROVE  Gave(s, Put(s, r), r)
<1>1. PICK z : z = Put(s, r)
  OBVIOUS
<1>2. PICK m : m = s.mem[r]
  OBVIOUS
<1>3. s \in Heaps /\ m \in Seq(PoolBytes) /\ Len(m) \in Nat \ {0}
  BY <1>2 DEF HeapOK, Heaps, IdleIn
<1>4. CASE Poolable(Len(m))
  <2>1. PICK bits \in Classes : bits = CeilLog2(Len(m)) /\ 2^bits = Len(m)
    BY <1>4 DEF Poolable, IsPow2
  <2>2. PICK p : p = Poisoned(m)
    OBVIOUS
  <2>3. p \in Seq(PoolBytes) /\ Len(p) = Len(m) /\ p[1] = 1
    BY <1>3, <2>2 DEF Poisoned, PoolBytes
  <2>4. PICK y : y = [s EXCEPT !.mem[r] = p]
    OBVIOUS
  <2>5. PICK P : P = s.pools["slice"][bits] \union {r}
    OBVIOUS
  <2>6. /\ y \in Heaps /\ y.pools = s.pools /\ y.mem[r] = p /\ y.fill = s.fill
        /\ \A q \in Regions \ {r} : y.mem[q] = s.mem[q]
    BY <1>3, <2>3, <2>4 DEF Heaps
  <2>7. P \in SUBSET Regions /\ "slice" \in Kinds
    BY <1>3, <2>5 DEF Heaps, Kinds
  <2>8. PoolSet(y, z, "slice", bits, P)
    BY <1>1, <1>2, <1>3, <1>4, <2>1, <2>2, <2>4, <2>5 DEF Put, PoolSet, Heaps
  <2>9. /\ z \in Heaps /\ z.mem = y.mem /\ z.fill = y.fill /\ z.pools["slice"][bits] = P
        /\ \A j \in Kinds, d \in Classes : ~(j = "slice" /\ d = bits) => z.pools[j][d] = y.pools[j][d]
    BY <2>6, <2>7, <2>8, PoolUpdated
  <2>10. Pools(s, z, r, "slice", bits)
    BY <2>1, <2>3, <2>5, <2>6, <2>9 DEF Pools
  <2> QED BY <1>1, <2>7, <2>10, PoolsGives
<1>5. CASE ~Poolable(Len(m))
  <2>1. z = [s EXCEPT !.mem[r] = <<>>]
    BY <1>1, <1>2, <1>5 DEF Put
  <2>2. Frees(s, z, r)
    <3>1. <<>> \in Seq(PoolBytes)
      OBVIOUS
    <3>2. PICK e \in Seq(PoolBytes) : e = <<>>
      BY <3>1
    <3> QED BY <1>3, <2>1, <3>2 DEF Heaps, Frees
  <2> QED BY <1>1, <2>2, FreesGives
<1> QED BY <1>4, <1>5

LEMMA PutBufferGives ==
  ASSUME NEW s, HeapOK(s), NEW r \in Regions, ~IdleIn(s, r)
  PROVE  Gave(s, PutBuffer(s, r), r)
<1>1. PICK z : z = PutBuffer(s, r)
  OBVIOUS
<1>2. PICK m : m = s.mem[r]
  OBVIOUS
<1>3. s \in Heaps /\ m \in Seq(PoolBytes) /\ Len(m) \in Nat \ {0}
  BY <1>2 DEF HeapOK, Heaps, IdleIn
<1>4. CASE Poolable(Len(m))
  <2>1. PICK bits \in Classes : bits = CeilLog2(Len(m)) /\ 2^bits = Len(m)
    BY <1>4 DEF Poolable, IsPow2
  <2>4. PICK y : y = [s EXCEPT !.fill[r] = 0]
    OBVIOUS
  <2>5. PICK P : P = s.pools["bytes"][bits] \union {r}
    OBVIOUS
  <2>6. /\ y \in Heaps /\ y.pools = s.pools /\ y.mem = s.mem /\ y.fill[r] = 0
        /\ \A q \in Regions \ {r} : y.fill[q] = s.fill[q]
    BY <1>3, <2>4 DEF Heaps
  <2>7. P \in SUBSET Regions /\ "bytes" \in Kinds
    BY <1>3, <2>5 DEF Heaps, Kinds
  <2>8. PoolSet(y, z, "bytes", bits, P)
    BY <1>1, <1>2, <1>3, <1>4, <2>1, <2>4, <2>5 DEF PutBuffer, PoolSet, Heaps
  <2>9. /\ z \in Heaps /\ z.mem = y.mem /\ z.fill = y.fill /\ z.pools["bytes"][bits] = P
        /\ \A j \in Kinds, d \in Classes : ~(j = "bytes" /\ d = bits) => z.pools[j][d] = y.pools[j][d]
    BY <2>6, <2>7, <2>8, PoolUpdated
  <2>10. Pools(s, z, r, "bytes", bits)
    BY <1>2, <2>1, <2>5, <2>6, <2>9 DEF Pools
  <2> QED BY <1>1, <2>7, <2>10, PoolsGives
<1>5. CASE ~Poolable(Len(m))
  <2>1. z = [s EXCEPT !.mem[r] = <<>>, !.fill[r] = 0]
    BY <1>1, <1>2, <1>5 DEF PutBuffer
  <2>2. Frees(s, z, r)
    <3>1. <<>> \in Seq(PoolBytes)
      OBVIOUS
    <3>2. PICK e \in Seq(PoolBytes) : e = <<>>
      BY <3>1
    <3> QED BY <1>3, <2>1, <3>2 DEF Heaps, Frees
  <2> QED BY <1>1, <2>2, FreesGives
<1> QED BY <1>4, <1>5

-----------------------------------------------------------------------------
\* What a handle may hold: memory in use, with the bytes its user relies on.
HeldRecs ==
  [kind : {"slice", "bytes", "buffer"}, region : Regions, len : 0..MaxLen,
   donated : BOOLEAN, want : Seq(PoolBytes)]
Good(s, x) ==
  /\ x \in HeldRecs
  /\ ~IdleIn(s, x.region)
  /\ Len(s.mem[x.region]) >= x.len /\ Len(x.want) = x.len
  /\ \A i \in 1..x.len : s.mem[x.region][i] = x.want[i]
  /\ x.kind # "bytes" => s.fill[x.region] = 0
  /\ x.kind = "bytes" => \A i \in 1..x.len : x.want[i] = 2
  /\ x.donated => x.kind = "buffer"

\* Handles hold memory in use; a region has one owner; lent memory is a slice of
\* somebody.
Has(h) == held[h] # Nothing
HeldOK == held \in [Handles -> {Nothing} \union HeldRecs] /\ \A h \in Handles : Has(h) => Good(heap, held[h])
Exclusive ==
  \A g, h \in Handles :
    Has(g) /\ Has(h) /\ ~held[g].donated /\ ~held[h].donated /\ held[g].region = held[h].region => g = h
Lends(d, r) == Has(d) /\ held[d].kind = "slice" /\ held[d].region = r
Lent == \A h \in Handles : Has(h) /\ held[h].donated => \E d \in Handles : Lends(d, held[h].region)

PoolIInv == HeapOK(heap) /\ HeldOK /\ Exclusive /\ Lent

\* When the handle h is to hold x in the heap z: the memory of the others is as it
\* was, x is not owned twice, and what is lent keeps its donor.
Undisturbed(h, z) == \A g \in Handles \ {h} : Has(g) => SameAt(heap, z, held[g].region)
OwnedAlone(h, x) ==
  x # Nothing /\ ~x.donated =>
    \A g \in Handles \ {h} : Has(g) /\ ~held[g].donated => held[g].region # x.region
Backed(h, x) == x # Nothing /\ x.donated => \E d \in Handles \ {h} : Lends(d, x.region)
LendsOn(h, x) ==
  \A g \in Handles \ {h} : Has(g) /\ held[g].donated /\ Lends(h, held[g].region) =>
    x # Nothing /\ x.kind = "slice" /\ x.region = held[h].region

\* What a handle holds does not depend on other memory.
LEMMA GoodKept ==
  ASSUME NEW s, NEW z, NEW x, Good(s, x), SameAt(s, z, x.region)
  PROVE  Good(z, x)
BY DEF Good, SameAt, IdleIn

\* A step of one handle keeps the invariant.
LEMMA HandleStep ==
  ASSUME PoolIInv, NEW h \in Handles, NEW x, HeapOK(heap'), held' = [held EXCEPT ![h] = x],
         x = Nothing \/ Good(heap', x),
         Undisturbed(h, heap'), OwnedAlone(h, x), Backed(h, x), LendsOn(h, x)
  PROVE  PoolIInv'
<1>0. PICK z : z = heap'
  OBVIOUS
<1>1. held \in [Handles -> {Nothing} \union HeldRecs]
  BY DEF PoolIInv, HeldOK
<1>2. held'[h] = x /\ \A g \in Handles \ {h} : held'[g] = held[g]
  BY <1>1
<1>3. x \in {Nothing} \union HeldRecs
  BY DEF Good
<1>4. held' \in [Handles -> {Nothing} \union HeldRecs]
  BY <1>1, <1>3
<1>5. \A g \in Handles \ {h} : Has(g) => Good(z, held[g])
  <2> SUFFICES ASSUME NEW g \in Handles \ {h}, Has(g) PROVE Good(z, held[g])
    OBVIOUS
  <2>1. Good(heap, held[g]) /\ SameAt(heap, z, held[g].region)
    BY <1>0 DEF PoolIInv, HeldOK, Undisturbed
  <2> QED BY <2>1, GoodKept
<1>6. HeldOK'
  BY <1>0, <1>2, <1>4, <1>5 DEF HeldOK, Has
<1>7. Exclusive'
  <2> SUFFICES ASSUME NEW g \in Handles, NEW k \in Handles, g # k,
                      held'[g] # Nothing, held'[k] # Nothing, ~held'[g].donated, ~held'[k].donated,
                      held'[g].region = held'[k].region
               PROVE  FALSE
    BY DEF Exclusive, Has
  <2>1. CASE g = h
    BY <1>2, <2>1 DEF OwnedAlone, Has
  <2>2. CASE k = h
    BY <1>2, <2>2 DEF OwnedAlone, Has
  <2>3. CASE g # h /\ k # h
    BY <1>2, <2>3 DEF PoolIInv, Exclusive, Has
  <2> QED BY <2>1, <2>2, <2>3
<1>8. Lent'
  <2> SUFFICES ASSUME NEW g \in Handles, held'[g] # Nothing, held'[g].donated
               PROVE  \E d \in Handles : held'[d] # Nothing /\ held'[d].kind = "slice" /\ held'[d].region = held'[g].region
    BY DEF Lent, Lends, Has
  <2>1. CASE g = h
    BY <1>2, <2>1 DEF Backed, Lends, Has
  <2>2. CASE g # h
    <3>1. Has(g) /\ held[g].donated /\ held'[g] = held[g]
      BY <1>2, <2>2 DEF Has
    <3>2. PICK d \in Handles : Lends(d, held[g].region)
      BY <3>1 DEF PoolIInv, Lent
    <3>3. CASE d = h
      BY <1>2, <2>2, <3>1, <3>2, <3>3 DEF LendsOn, Lends
    <3>4. CASE d # h
      BY <1>2, <3>1, <3>2, <3>4 DEF Lends, Has
    <3> QED BY <3>3, <3>4
  <2> QED BY <2>1, <2>2
<1> QED BY <1>6, <1>7, <1>8 DEF PoolIInv

\* Nobody else holds the memory of a handle that owns it and does not lend it.
Sole(h) == \A g \in Handles \ {h} : Has(g) => held[g].region # held[h].region
LEMMA OwnerIsSole ==
  ASSUME PoolIInv, NEW h \in Handles, Has(h), ~held[h].donated, held[h].kind # "slice"
  PROVE  Sole(h)
<1> SUFFICES ASSUME NEW g \in Handles \ {h}, Has(g), held[g].region = held[h].region PROVE FALSE
  BY DEF Sole
<1>1. CASE ~held[g].donated
  BY <1>1 DEF PoolIInv, Exclusive
<1>2. CASE held[g].donated
  <2>1. PICK d \in Handles : Lends(d, held[g].region)
    BY <1>2 DEF PoolIInv, Lent
  <2>2. ~held[d].donated /\ d # h
    BY <2>1 DEF PoolIInv, HeldOK, Good, Lends
  <2> QED BY <2>1, <2>2 DEF PoolIInv, Exclusive, Lends
<1> QED BY <1>1, <1>2

LEMMA MineIsSole ==
  ASSUME PoolIInv, NEW h \in Handles, Mine(h)
  PROVE  Sole(h) /\ Has(h) /\ held[h].kind = "slice" /\ ~held[h].donated
<1>1. held[h].kind = "slice" /\ Holders(held[h].region) = {h}
  BY DEF Mine
<1>2. \A g \in Handles : Has(g) => held[g].kind # "none"
  BY DEF PoolIInv, HeldOK, Good, HeldRecs
<1>3. Has(h)
  BY <1>1 DEF Has, Nothing
<1>4. Sole(h)
  BY <1>1, <1>2 DEF Sole, Holders
<1> QED BY <1>1, <1>3, <1>4 DEF PoolIInv, HeldOK, Good

\* Memory that is taken from the heap was nobody's.
LEMMA TakenIsNobodys ==
  ASSUME PoolIInv, NEW z, NEW r, NEW n, Took(heap, z, r, n)
  PROVE  \A g \in Handles : Has(g) => held[g].region # r /\ SameAt(heap, z, held[g].region)
<1> SUFFICES ASSUME NEW g \in Handles, Has(g) PROVE held[g].region # r /\ SameAt(heap, z, held[g].region)
  OBVIOUS
<1>1. held[g].region \in Regions /\ ~IdleIn(heap, held[g].region)
  BY DEF PoolIInv, HeldOK, Good, HeldRecs
<1> QED BY <1>1 DEF Took

\* Writing over part of a sequence of bytes.
LEMMA OverwrittenIs ==
  ASSUME NEW m \in Seq(PoolBytes), NEW from \in Int, NEW n \in Int
  PROVE  /\ Overwritten(m, from, n) \in Seq(PoolBytes) /\ Len(Overwritten(m, from, n)) = Len(m)
         /\ \A i \in 1..Len(m) : Overwritten(m, from, n)[i] = IF i \in from..(from + n - 1) THEN 2 ELSE m[i]
BY DEF Overwritten, PoolBytes

\* A handle that held nothing takes memory.
LEMMA TakeStep ==
  ASSUME PoolIInv, NEW h \in Handles, held[h] = Nothing, NEW n, NEW x, Took(heap, heap', x.region, n),
         Good(heap', x), ~x.donated, held' = [held EXCEPT ![h] = x]
  PROVE  PoolIInv'
<1>1. \A g \in Handles : Has(g) => held[g].region # x.region /\ SameAt(heap, heap', held[g].region)
  BY TakenIsNobodys
<1>2. x # Nothing
  BY DEF Good, HeldRecs, Nothing
<1>3. HeapOK(heap') /\ Undisturbed(h, heap') /\ OwnedAlone(h, x) /\ Backed(h, x) /\ LendsOn(h, x)
  BY <1>1 DEF Took, Undisturbed, OwnedAlone, Backed, LendsOn, Lends, Has
<1> QED BY <1>3, HandleStep

\* The collector drops a region from its pool.
LEMMA DropKeeps ==
  ASSUME PoolIInv, Drop
  PROVE  PoolIInv'
<1>1. PICK k \in Kinds, bits \in Classes : \E r \in heap.pools[k][bits] :
        heap' = [heap EXCEPT !.mem[r] = <<>>, !.pools[k][bits] = @ \ {r}]
  BY DEF Drop
<1>2. PICK r \in heap.pools[k][bits] : heap' = [heap EXCEPT !.mem[r] = <<>>, !.pools[k][bits] = @ \ {r}]
  BY <1>1
<1>3. heap \in Heaps /\ r \in Regions /\ HeapOK(heap)
  BY DEF PoolIInv, HeapOK, Heaps
<1>4. PICK e \in Seq(PoolBytes) : e = <<>>
  <2>1. <<>> \in Seq(PoolBytes)
    OBVIOUS
  <2> QED BY <2>1
<1>5. PICK y : y = [heap EXCEPT !.mem[r] = e]
  OBVIOUS
<1>6. PICK P : P = heap.pools[k][bits] \ {r}
  OBVIOUS
<1>7. PICK z : z = heap'
  OBVIOUS
<1>8. /\ y \in Heaps /\ y.pools = heap.pools /\ y.mem[r] = <<>> /\ y.fill = heap.fill
      /\ \A q \in Regions \ {r} : y.mem[q] = heap.mem[q]
  BY <1>3, <1>4, <1>5 DEF Heaps
<1>9. P \in SUBSET Regions /\ PoolSet(y, z, k, bits, P)
  BY <1>2, <1>3, <1>4, <1>5, <1>6, <1>7 DEF PoolSet, Heaps
<1>10. /\ z \in Heaps /\ z.mem = y.mem /\ z.fill = y.fill /\ z.pools[k][bits] = P
       /\ \A j \in Kinds, d \in Classes : ~(j = k /\ d = bits) => z.pools[j][d] = y.pools[j][d]
  <2>1. y \in Heaps /\ k \in Kinds /\ bits \in Classes /\ P \in SUBSET Regions /\ PoolSet(y, z, k, bits, P)
    BY <1>8, <1>9
  <2> QED BY <2>1, PoolUpdated
<1>11. \A j \in Kinds, d \in Classes : z.pools[j][d] = heap.pools[j][d] \ {r} /\ heap.pools[j][d] \subseteq Regions
  <2> SUFFICES ASSUME NEW j \in Kinds, NEW d \in Classes
               PROVE  z.pools[j][d] = heap.pools[j][d] \ {r} /\ heap.pools[j][d] \subseteq Regions
    OBVIOUS
  <2>0. heap.pools[j][d] \subseteq Regions
    BY <1>3 DEF Heaps
  <2>1. CASE j = k /\ d = bits
    BY <1>6, <1>10, <2>0, <2>1
  <2>2. CASE ~(j = k /\ d = bits)
    <3>1. r \notin heap.pools[j][d]
      BY <1>3, <2>2 DEF HeapOK
    <3> QED BY <1>8, <1>10, <2>0, <2>2, <3>1
  <2> QED BY <2>1, <2>2
<1>12. InPool(heap, r) /\ IdleIn(heap, r) /\ heap.fill[r] = 0
  <2>1. InPool(heap, r)
    BY DEF InPool
  <2> QED BY <1>3, <2>1 DEF IdleIn, HeapOK
<1>13. \A q \in Regions \ {r} : InPool(z, q) <=> InPool(heap, q)
  BY <1>11 DEF InPool
<1>14. \A q \in Regions \ {r} : SameAt(heap, z, q) /\ (IdleIn(z, q) <=> IdleIn(heap, q))
  BY <1>8, <1>10, <1>13 DEF SameAt, IdleIn
<1>15. HeapOK(z)
  <2>1. \A q \in Regions : IdleIn(z, q) => z.fill[q] = 0
    BY <1>3, <1>8, <1>10, <1>12, <1>14 DEF HeapOK
  <2>2. \A j \in Kinds, d \in Classes : \A q \in z.pools[j][d] : q \in heap.pools[j][d] /\ z.mem[q] = heap.mem[q]
    BY <1>8, <1>10, <1>11
  <2> QED BY <1>3, <1>10, <1>11, <2>1, <2>2 DEF HeapOK
<1>16. held' = held /\ \A g \in Handles : Has(g) => Good(z, held[g])
  <2>1. held' = held
    BY DEF Drop
  <2> SUFFICES ASSUME NEW g \in Handles, Has(g) PROVE Good(z, held[g])
    BY <2>1
  <2>2. Good(heap, held[g])
    BY DEF PoolIInv, HeldOK
  <2>3. SameAt(heap, z, held[g].region)
    BY <1>12, <1>14, <2>2 DEF Good, HeldRecs
  <2> QED BY <2>2, <2>3, GoodKept
<1>17. HeapOK(heap') /\ held' = held /\ \A g \in Handles : Has(g) => Good(heap', held[g])
  BY <1>7, <1>15, <1>16
<1> QED BY <1>17 DEF PoolIInv, HeldOK, Exclusive, Lent, Lends, Has

\* Get and GetUninit.
LEMMA TakeSliceKeeps ==
  ASSUME PoolIInv, NEW h \in Handles, NEW size \in Sizes, TakeSlice(h, size)
  PROVE  PoolIInv'
<1>0. size \in 1..MaxLen /\ size \in Nat \ {0} /\ HeapOK(heap) /\ held[h] = Nothing
  BY SizesAssumption DEF PoolIInv, TakeSlice
<1>1. ASSUME NEW r, NEW w, Took(heap, heap', r, size), w \in Seq(PoolBytes), Len(w) = size,
             \A i \in 1..size : heap'.mem[r][i] = w[i],
             held' = [held EXCEPT ![h] = Holding("slice", r, size, FALSE, w)]
      PROVE  PoolIInv'
  <2>1. PICK x : x = Holding("slice", r, size, FALSE, w)
    OBVIOUS
  <2>2. /\ x.kind = "slice" /\ x.region = r /\ x.len = size /\ ~x.donated /\ x.want = w
        /\ x \in HeldRecs
    BY <1>0, <1>1, <2>1 DEF Holding, HeldRecs, Took
  <2>3. Good(heap', x)
    BY <1>1, <2>2 DEF Good, Took
  <2>4. Took(heap, heap', x.region, size) /\ held' = [held EXCEPT ![h] = x]
    BY <1>1, <2>1, <2>2
  <2> QED BY <1>0, <2>2, <2>3, <2>4, TakeStep
<1>2. ASSUME NEW g \in Get(heap, size), heap' = g.heap,
             held' = [held EXCEPT ![h] = Holding("slice", g.region, size, FALSE, Zeros(size))]
      PROVE  PoolIInv'
  <2>1. Took(heap, heap', g.region, size) /\ AllZero(heap'.mem[g.region])
    BY <1>0, <1>2, GetTakes
  <2>2. heap'.mem[g.region] \in Seq(PoolBytes) /\ Len(heap'.mem[g.region]) >= size
    BY <2>1 DEF Took, HeapOK, Heaps
  <2>3. /\ Zeros(size) \in Seq(PoolBytes) /\ Len(Zeros(size)) = size
        /\ \A i \in 1..size : Zeros(size)[i] = 0
    BY <1>0 DEF Zeros, PoolBytes
  <2>4. \A i \in 1..size : heap'.mem[g.region][i] = Zeros(size)[i]
    BY <1>0, <2>1, <2>2, <2>3 DEF AllZero
  <2> QED BY <1>1, <1>2, <2>1, <2>3, <2>4
<1>3. ASSUME NEW g \in GetUninit(heap, size), heap' = g.heap,
             held' = [held EXCEPT ![h] = Holding("slice", g.region, size, FALSE, SubSeq(g.heap.mem[g.region], 1, size))]
      PROVE  PoolIInv'
  <2>1. Took(heap, heap', g.region, size)
    BY <1>0, <1>3, GetUninitTakes
  <2>2. PICK m : m = g.heap.mem[g.region]
    OBVIOUS
  <2>3. m \in Seq(PoolBytes) /\ Len(m) >= size /\ m = heap'.mem[g.region]
    BY <1>3, <2>1, <2>2 DEF Took, HeapOK, Heaps
  <2>4. PICK w : w = SubSeq(m, 1, size)
    OBVIOUS
  <2>5. w \in Seq(PoolBytes) /\ Len(w) = size /\ \A i \in 1..size : w[i] = m[i]
    BY <1>0, <2>3, <2>4
  <2> QED BY <1>1, <1>3, <2>1, <2>2, <2>3, <2>4, <2>5
<1> QED BY <1>2, <1>3 DEF TakeSlice

\* A handle uses memory that is its own alone, or gives it up.
LEMMA OwnStep ==
  ASSUME PoolIInv, NEW h \in Handles, Sole(h), HeapOK(heap'), NEW x,
         \A q \in Regions \ {held[h].region} : SameAt(heap, heap', q),
         x = Nothing \/ (Good(heap', x) /\ x.region = held[h].region /\ ~x.donated),
         held' = [held EXCEPT ![h] = x]
  PROVE  PoolIInv'
<1>1. \A g \in Handles : Has(g) => held[g].region \in Regions
  BY DEF PoolIInv, HeldOK, Good, HeldRecs
<1>2. Undisturbed(h, heap')
  BY <1>1 DEF Undisturbed, Sole
<1>3. OwnedAlone(h, x) /\ Backed(h, x)
  BY DEF OwnedAlone, Backed, Sole
<1>4. LendsOn(h, x)
  BY DEF LendsOn, Lends, Sole
<1> QED BY <1>2, <1>3, <1>4, HandleStep

\* A handle moves to memory q taken from the heap.  What it held was its own and
\* may be gone, or was lent and is left as it was.
LEMMA MoveStep ==
  ASSUME PoolIInv, NEW h \in Handles, held[h].kind # "slice", NEW y, NEW q, NEW n, Took(heap, y, q, n),
         HeapOK(heap'), NEW x, Good(heap', x), x.region = q, ~x.donated,
         \A p \in Regions \ {q, held[h].region} : SameAt(heap, heap', p),
         Sole(h) \/ SameAt(heap, heap', held[h].region),
         held' = [held EXCEPT ![h] = x]
  PROVE  PoolIInv'
<1>1. \A g \in Handles : Has(g) => held[g].region # q /\ held[g].region \in Regions
  BY TakenIsNobodys DEF PoolIInv, HeldOK, Good, HeldRecs
<1>2. Undisturbed(h, heap')
  BY <1>1 DEF Undisturbed, Sole
<1>3. OwnedAlone(h, x) /\ Backed(h, x) /\ LendsOn(h, x)
  BY <1>1 DEF OwnedAlone, Backed, LendsOn, Lends
<1> QED BY <1>2, <1>3, HandleStep

\* The user of a slice writes to it, or returns it.
LEMMA SliceKeeps ==
  ASSUME PoolIInv, NEW h \in Handles, Scribble(h, 2) \/ PutSlice(h)
  PROVE  PoolIInv'
<1>1. Mine(h)
  BY DEF Scribble, PutSlice
<1>2. Sole(h) /\ Has(h) /\ held[h].kind = "slice" /\ ~held[h].donated
  BY <1>1, MineIsSole
<1>3. PICK b, r, m : b = held[h] /\ r = b.region /\ m = heap.mem[r]
  OBVIOUS
<1>4. HeapOK(heap) /\ Good(heap, b) /\ r \in Regions /\ m \in Seq(PoolBytes) /\ m # <<>>
  BY <1>2, <1>3 DEF PoolIInv, HeldOK, HeapOK, Heaps, Good, HeldRecs, IdleIn
<1>5. CASE Scribble(h, 2)
  <2>1. PICK n : n = b.len - 2 + 1
    OBVIOUS
  <2>2. /\ heap' = [heap EXCEPT !.mem[r] = Overwritten(m, 2, n)]
        /\ held' = [held EXCEPT ![h] = [b EXCEPT !.want = Overwritten(b.want, 2, n)]]
    BY <1>3, <1>5, <2>1 DEF Scribble
  <2>3. b \in HeldRecs /\ b.len \in Nat /\ n \in Int /\ b.want \in Seq(PoolBytes) /\ Len(b.want) = b.len
    BY <1>4, <2>1, SizesAssumption DEF Good, HeldRecs
  <2>4. PICK o, w : o = Overwritten(m, 2, n) /\ w = Overwritten(b.want, 2, n)
    OBVIOUS
  <2>5. /\ o \in Seq(PoolBytes) /\ Len(o) = Len(m) /\ w \in Seq(PoolBytes) /\ Len(w) = b.len
        /\ \A i \in 1..Len(m) : o[i] = IF i \in 2..(2 + n - 1) THEN 2 ELSE m[i]
        /\ \A i \in 1..b.len : w[i] = IF i \in 2..(2 + n - 1) THEN 2 ELSE b.want[i]
    BY <1>4, <2>3, <2>4, OverwrittenIs
  <2>6. o # <<>> /\ Stores(heap, heap', r, o, heap.fill[r]) /\ heap.fill[r] \in Nat
    <3>1. heap \in Heaps /\ heap' = [heap EXCEPT !.mem[r] = o]
      BY <1>4, <2>2, <2>4 DEF HeapOK
    <3>2. o # <<>>
      BY <1>4, <2>5
    <3>3. Stores(heap, heap', r, o, heap.fill[r]) /\ heap.fill[r] \in Nat
      BY <1>4, <2>5, <3>1 DEF Stores, Heaps
    <3> QED BY <3>2, <3>3
  <2>7. /\ HeapOK(heap') /\ ~IdleIn(heap', r) /\ heap'.mem[r] = o /\ heap'.fill[r] = heap.fill[r]
        /\ \A q \in Regions \ {r} : SameAt(heap, heap', q)
    <3>1. ~IdleIn(heap, r)
      BY <1>3, <1>4 DEF Good
    <3> QED BY <1>4, <2>5, <2>6, <3>1, StoreKeepsHeap
  <2>8. PICK x : x = [b EXCEPT !.want = w]
    OBVIOUS
  <2>9. /\ x \in HeldRecs /\ x.kind = "slice" /\ x.region = r /\ x.len = b.len /\ ~x.donated
        /\ x.want = w
    BY <1>2, <1>3, <2>3, <2>5, <2>8 DEF HeldRecs
  <2>10. \A i \in 1..b.len : o[i] = w[i]
    <3>1. Len(m) >= b.len /\ \A i \in 1..b.len : m[i] = b.want[i]
      BY <1>3, <1>4 DEF Good
    <3> QED BY <1>4, <2>3, <2>5, <3>1
  <2>11. Good(heap', x)
    BY <1>2, <1>3, <1>4, <2>5, <2>7, <2>9, <2>10 DEF Good
  <2>12. held' = [held EXCEPT ![h] = x]
    BY <2>2, <2>4, <2>8
  <2> QED BY <1>2, <1>3, <2>7, <2>9, <2>11, <2>12, OwnStep
<1>6. CASE PutSlice(h)
  <2>1. heap' = Put(heap, r) /\ held' = [held EXCEPT ![h] = Nothing]
    BY <1>3, <1>6 DEF PutSlice
  <2>2. ~IdleIn(heap, r) /\ heap.fill[r] = 0
    BY <1>2, <1>3, <1>4 DEF Good
  <2>3. HeapOK(heap') /\ \A q \in Regions \ {r} : SameAt(heap, heap', q)
    BY <1>4, <2>1, <2>2, PutGives DEF Gave
  <2> QED BY <1>2, <1>3, <2>1, <2>3, OwnStep
<1> QED BY <1>5, <1>6

\* The user of a slice lends it to a new Buffer.
LEMMA NewBufferKeeps ==
  ASSUME PoolIInv, NEW h \in Handles, NEW d \in Handles, NewBuffer(h, d)
  PROVE  PoolIInv'
<1>1. held[h] = Nothing /\ Mine(d) /\ heap' = heap
  BY DEF NewBuffer
<1>2. Has(d) /\ held[d].kind = "slice" /\ d # h
  BY <1>1, MineIsSole DEF Has
<1>3. PICK x : x = Holding("buffer", held[d].region, held[d].len, TRUE, held[d].want)
  OBVIOUS
<1>4. held' = [held EXCEPT ![h] = x]
  BY <1>3 DEF NewBuffer
<1>5. Good(heap, held[d]) /\ held[d] \in HeldRecs
  BY <1>2 DEF PoolIInv, HeldOK, Good
<1>6. /\ x \in HeldRecs /\ x.kind = "buffer" /\ x.region = held[d].region /\ x.len = held[d].len
      /\ x.donated /\ x.want = held[d].want
  BY <1>3, <1>5 DEF Holding, HeldRecs
<1>7. Good(heap', x)
  BY <1>1, <1>2, <1>5, <1>6 DEF Good
<1>8. HeapOK(heap') /\ Undisturbed(h, heap') /\ OwnedAlone(h, x)
  BY <1>1, <1>6 DEF PoolIInv, Undisturbed, SameAt, OwnedAlone
<1>9. Backed(h, x) /\ LendsOn(h, x)
  BY <1>1, <1>2, <1>6 DEF Backed, LendsOn, Lends, Has
<1> QED BY <1>4, <1>7, <1>8, <1>9, HandleStep

\* GetBuffer and PutBuffer.
LEMMA BytesKeeps ==
  ASSUME PoolIInv, NEW h \in Handles, (\E size \in Sizes : TakeBytes(h, size)) \/ PutBytes(h)
  PROVE  PoolIInv'
<1>1. ASSUME NEW size \in Sizes, TakeBytes(h, size) PROVE PoolIInv'
  <2>1. PICK g \in GetBuffer(heap, size) :
          heap' = g.heap /\ held' = [held EXCEPT ![h] = Holding("bytes", g.region, heap.fill[g.region], FALSE, <<>>)]
    BY <1>1 DEF TakeBytes
  <2>2. size \in 1..MaxLen /\ HeapOK(heap) /\ held[h] = Nothing
    BY <1>1, SizesAssumption DEF PoolIInv, TakeBytes
  <2>3. Took(heap, heap', g.region, 0)
    BY <2>1, <2>2, GetBufferTakes
  <2>4. PICK x : x = Holding("bytes", g.region, 0, FALSE, <<>>)
    OBVIOUS
  <2>5. heap.fill[g.region] = 0 /\ 0 \in 0..MaxLen
    BY <2>2, <2>3, SizesAssumption DEF Took, HeapOK
  <2>6. held' = [held EXCEPT ![h] = x]
    BY <2>1, <2>4, <2>5
  <2>7. <<>> \in Seq(PoolBytes) /\ Len(<<>>) = 0
    OBVIOUS
  <2>8. /\ x \in HeldRecs /\ x.kind = "bytes" /\ x.region = g.region /\ x.len = 0 /\ ~x.donated
        /\ x.want = <<>>
    BY <2>3, <2>4, <2>5, <2>7 DEF Holding, HeldRecs, Took
  <2>9. Good(heap', x)
    BY <2>3, <2>7, <2>8 DEF Good, Took
  <2>10. Took(heap, heap', x.region, 0)
    BY <2>3, <2>8
  <2> QED BY <2>2, <2>6, <2>8, <2>9, <2>10, TakeStep
<1>2. CASE PutBytes(h)
  <2>1. PICK r : r = held[h].region
    OBVIOUS
  <2>2. held[h].kind = "bytes" /\ heap' = PutBuffer(heap, r) /\ held' = [held EXCEPT ![h] = Nothing]
    BY <1>2, <2>1 DEF PutBytes
  <2>3. Has(h)
    BY <2>2 DEF Has, Nothing
  <2>4. HeapOK(heap) /\ r \in Regions /\ ~IdleIn(heap, r) /\ ~held[h].donated
    BY <2>1, <2>2, <2>3 DEF PoolIInv, HeldOK, Good, HeldRecs
  <2>5. Sole(h)
    BY <2>2, <2>3, <2>4, OwnerIsSole
  <2>6. HeapOK(heap') /\ \A q \in Regions \ {r} : SameAt(heap, heap', q)
    BY <2>2, <2>4, PutBufferGives DEF Gave
  <2> QED BY <2>1, <2>2, <2>5, <2>6, OwnStep
<1> QED BY <1>1, <1>2

\* What a bytes.Buffer holds after one more byte.
OneMore(b, q, n) == [b EXCEPT !.region = q, !.len = n, !.want = Append(b.want, 2)]
LEMMA AppendedByte ==
  ASSUME NEW b \in HeldRecs, b.kind = "bytes", ~b.donated, Len(b.want) = b.len,
         \A i \in 1..b.len : b.want[i] = 2, NEW n, n = b.len + 1, n <= MaxLen,
         NEW q \in Regions, NEW z, ~IdleIn(z, q), NEW m \in Seq(PoolBytes), Len(m) >= n,
         z.mem[q] = Overwritten(m, 1, n),
         NEW x, x = OneMore(b, q, n)
  PROVE  Good(z, x) /\ x.region = q /\ ~x.donated
<1>1. b.len \in Nat /\ n \in Nat /\ n \in 0..MaxLen /\ b.want \in Seq(PoolBytes) /\ MaxLen \in Nat
  BY SizesAssumption DEF HeldRecs
<1>2. PICK w : w = Append(b.want, 2)
  OBVIOUS
<1>3. 2 \in PoolBytes
  BY DEF PoolBytes
<1>4. w \in Seq(PoolBytes) /\ Len(w) = n /\ \A i \in 1..n : w[i] = 2
  BY <1>1, <1>2, <1>3
<1>5. /\ x \in HeldRecs /\ x.kind = "bytes" /\ x.region = q /\ x.len = n /\ ~x.donated
      /\ x.want = w
  BY <1>1, <1>2, <1>4 DEF HeldRecs, OneMore
<1>6. /\ Len(z.mem[q]) = Len(m)
      /\ \A i \in 1..Len(m) : z.mem[q][i] = IF i \in 1..(1 + n - 1) THEN 2 ELSE m[i]
  <2>1. 1 \in Int /\ n \in Int
    BY <1>1
  <2>2. PICK o : o = Overwritten(m, 1, n)
    OBVIOUS
  <2>3. Len(o) = Len(m) /\ \A i \in 1..Len(m) : o[i] = IF i \in 1..(1 + n - 1) THEN 2 ELSE m[i]
    BY <2>1, <2>2, OverwrittenIs
  <2> QED BY <2>2, <2>3
<1>7. \A i \in 1..n : z.mem[q][i] = w[i]
  <2>1. \A i \in 1..n : i \in 1..Len(m) /\ i \in 1..(1 + n - 1)
    BY <1>1
  <2> QED BY <1>4, <1>6, <2>1
<1> QED BY <1>1, <1>4, <1>5, <1>6, <1>7 DEF Good

\* bytes.Buffer.Write, in place or with new memory.
LEMMA WriteBytesKeeps ==
  ASSUME PoolIInv, NEW h \in Handles, WriteBytes(h)
  PROVE  PoolIInv'
<1>1. PICK b, r, m, n : b = held[h] /\ r = b.region /\ m = heap.mem[r] /\ n = b.len + 1
  OBVIOUS
<1>2. b.kind = "bytes" /\ b.len < MaxLen
  BY <1>1 DEF WriteBytes
<1>3. Has(h)
  BY <1>1, <1>2 DEF Has, Nothing
<1>4. /\ HeapOK(heap) /\ heap \in Heaps /\ Good(heap, b) /\ b \in HeldRecs /\ r \in Regions /\ ~b.donated
      /\ ~IdleIn(heap, r) /\ m \in Seq(PoolBytes) /\ Len(m) \in Nat \ {0} /\ Len(m) >= b.len
      /\ Len(b.want) = b.len /\ \A i \in 1..b.len : b.want[i] = 2
  BY <1>1, <1>2, <1>3 DEF PoolIInv, HeldOK, HeapOK, Heaps, Good, HeldRecs, IdleIn
<1>5. n \in Nat \ {0} /\ n <= MaxLen /\ b.len \in Nat
  BY <1>1, <1>2, <1>4, SizesAssumption DEF HeldRecs
<1>6. Sole(h) /\ held[h].kind # "slice"
  BY <1>1, <1>2, <1>3, <1>4, OwnerIsSole
<1> DEFINE Stored(s, q) == [s EXCEPT !.mem[q] = Overwritten(@, 1, n), !.fill[q] = n]
           Hold(q) == OneMore(b, q, n)
<1>7. ASSUME NEW s, HeapOK(s), NEW q \in Regions, ~IdleIn(s, q), Len(s.mem[q]) >= n
      PROVE  /\ HeapOK(Stored(s, q)) /\ ~IdleIn(Stored(s, q), q)
             /\ Stored(s, q).mem[q] = Overwritten(s.mem[q], 1, n) /\ s.mem[q] \in Seq(PoolBytes)
             /\ \A p \in Regions \ {q} : SameAt(s, Stored(s, q), p)
  <2>1. s \in Heaps /\ s.mem[q] \in Seq(PoolBytes)
    BY <1>7 DEF HeapOK, Heaps
  <2>2. PICK o : o = Overwritten(s.mem[q], 1, n)
    OBVIOUS
  <2>3. 1 \in Int /\ n \in Int
    BY <1>5
  <2>4. o \in Seq(PoolBytes) /\ Len(o) = Len(s.mem[q])
    BY <2>1, <2>2, <2>3, OverwrittenIs
  <2>5. o # <<>>
    BY <1>5, <1>7, <2>1, <2>4
  <2>6. PICK z : z = Stored(s, q)
    OBVIOUS
  <2>7. z = [s EXCEPT !.mem[q] = o, !.fill[q] = n]
    BY <2>2, <2>6
  <2>8. Stores(s, z, q, o, n)
    BY <1>5, <2>1, <2>4, <2>7 DEF Stores, Heaps
  <2>9. HeapOK(z) /\ ~IdleIn(z, q) /\ z.mem[q] = o /\ \A p \in Regions \ {q} : SameAt(s, z, p)
    BY <1>5, <1>7, <2>4, <2>5, <2>8, StoreKeepsHeap
  <2> QED BY <2>1, <2>2, <2>6, <2>9
<1>8. \/ n <= Len(m) /\ heap' = Stored(heap, r) /\ held' = [held EXCEPT ![h] = Hold(r)]
      \/ \E g \in Make(heap, n) \union Make(heap, 2 * Len(m)) :
           /\ n > Len(m)
           /\ heap' = [Stored(g.heap, g.region) EXCEPT !.mem[r] = <<>>, !.fill[r] = 0]
           /\ held' = [held EXCEPT ![h] = Hold(g.region)]
  <2>1. ASSUME NEW q
        PROVE  [held EXCEPT ![h].region = q, ![h].len = n, ![h].want = Append(@, 2)] =
                 [held EXCEPT ![h] = Hold(q)]
    BY <1>1 DEF OneMore
  <2>2. CASE n <= Capacity(r)
    <3>0. ~(n > Capacity(r))
      BY <1>1, <1>4, <1>5, <2>2 DEF Capacity
    <3>1. heap' = Stored(heap, r)
      BY <1>1, <3>0 DEF WriteBytes
    <3>2. held' = [held EXCEPT ![h].region = r, ![h].len = n, ![h].want = Append(@, 2)]
      BY <1>1, <3>0 DEF WriteBytes
    <3>3. n <= Len(m)
      BY <1>1, <2>2 DEF Capacity
    <3> QED BY <2>1, <3>1, <3>2, <3>3
  <2>3. CASE ~(n <= Capacity(r))
    <3>1. PICK g \in Make(heap, n) \union Make(heap, 2 * Capacity(r)) :
            /\ heap' = [Stored(g.heap, g.region) EXCEPT !.mem[r] = <<>>, !.fill[r] = 0]
            /\ held' = [held EXCEPT ![h].region = g.region, ![h].len = n, ![h].want = Append(@, 2)]
      BY <1>1, <2>3 DEF WriteBytes
    <3>2. held' = [held EXCEPT ![h] = Hold(g.region)] /\ Capacity(r) = Len(m)
      BY <1>1, <2>1, <3>1 DEF Capacity
    <3>3. n > Len(m)
      BY <1>4, <1>5, <2>3, <3>2
    <3> QED BY <3>1, <3>2, <3>3
  <2> QED BY <2>2, <2>3
<1> HIDE DEF Stored
<1>9. ASSUME NEW z, NEW q \in Regions, ~IdleIn(z, q), NEW o \in Seq(PoolBytes), Len(o) >= n,
             z.mem[q] = Overwritten(o, 1, n)
      PROVE  Good(z, Hold(q)) /\ Hold(q).region = q /\ ~Hold(q).donated
  BY <1>1, <1>2, <1>4, <1>5, <1>9, AppendedByte
<1> HIDE DEF Hold
<1>10. CASE n <= Len(m) /\ heap' = Stored(heap, r) /\ held' = [held EXCEPT ![h] = Hold(r)]
  <2>1. /\ HeapOK(heap') /\ ~IdleIn(heap', r) /\ heap'.mem[r] = Overwritten(m, 1, n)
        /\ \A p \in Regions \ {r} : SameAt(heap, heap', p)
    BY <1>1, <1>4, <1>5, <1>7, <1>10
  <2>2. Good(heap', Hold(r)) /\ Hold(r).region = r /\ ~Hold(r).donated
    BY <1>4, <1>5, <1>9, <1>10, <2>1
  <2> QED BY <1>1, <1>6, <1>10, <2>1, <2>2, OwnStep
<1>11. ASSUME NEW g \in Make(heap, n) \union Make(heap, 2 * Len(m)), n > Len(m),
              heap' = [Stored(g.heap, g.region) EXCEPT !.mem[r] = <<>>, !.fill[r] = 0],
              held' = [held EXCEPT ![h] = Hold(g.region)]
       PROVE  PoolIInv'
  <2>1. PICK y, q : y = g.heap /\ q = g.region
    OBVIOUS
  <2>2. 2 * Len(m) \in Nat \ {0} /\ 2 * Len(m) >= n
    BY <1>1, <1>4, <1>5, <1>11
  <2>3. Took(heap, y, q, n)
    <3>1. CASE g \in Make(heap, n)
      BY <1>4, <1>5, <2>1, <3>1, MakeTakes
    <3>2. CASE g \in Make(heap, 2 * Len(m))
      <4>1. PICK k \in Nat \ {0} : k = 2 * Len(m)
        BY <2>2
      <4>2. Took(heap, y, q, k)
        BY <1>4, <2>1, <3>2, <4>1, MakeTakes
      <4>3. y.mem[q] \in Seq(PoolBytes)
        BY <4>2 DEF Took, HeapOK, Heaps
      <4>4. Len(y.mem[q]) >= n
        BY <1>5, <2>2, <4>1, <4>2, <4>3 DEF Took
      <4> QED BY <4>2, <4>4 DEF Took
    <3> QED BY <1>11, <3>1, <3>2
  <2>4. /\ HeapOK(y) /\ q \in Regions /\ ~IdleIn(y, q) /\ Len(y.mem[q]) >= n /\ r # q
        /\ \A p \in Regions \ {q} : SameAt(heap, y, p)
    BY <1>4, <2>3 DEF Took
  <2>5. PICK s : s = Stored(y, q)
    OBVIOUS
  <2>6. /\ HeapOK(s) /\ ~IdleIn(s, q) /\ s.mem[q] = Overwritten(y.mem[q], 1, n) /\ y.mem[q] \in Seq(PoolBytes)
        /\ \A p \in Regions \ {q} : SameAt(y, s, p)
    BY <1>7, <2>4, <2>5
  <2>7. ~IdleIn(s, r)
    BY <1>4, <2>4, <2>6 DEF SameAt, IdleIn
  <2>8. Frees(s, heap', r)
    <3>1. <<>> \in Seq(PoolBytes)
      OBVIOUS
    <3>2. PICK e \in Seq(PoolBytes) : e = <<>>
      BY <3>1
    <3>3. s \in Heaps /\ heap' = [s EXCEPT !.mem[r] = e, !.fill[r] = 0]
      BY <1>11, <2>1, <2>5, <2>6, <3>2 DEF HeapOK
    <3> QED BY <1>4, <3>2, <3>3 DEF Heaps, Frees
  <2>9. HeapOK(heap') /\ \A p \in Regions \ {r} : SameAt(s, heap', p)
    BY <1>4, <2>6, <2>7, <2>8, FreesGives DEF Gave
  <2>10. ~IdleIn(heap', q) /\ heap'.mem[q] = Overwritten(y.mem[q], 1, n)
    BY <2>4, <2>6, <2>9 DEF SameAt, IdleIn
  <2>11. Good(heap', Hold(q)) /\ Hold(q).region = q /\ ~Hold(q).donated
    BY <1>9, <2>4, <2>6, <2>10
  <2>12. \A p \in Regions \ {q, r} : SameAt(heap, heap', p)
    BY <2>4, <2>6, <2>9 DEF SameAt
  <2>13. PICK x : x = Hold(q)
    OBVIOUS
  <2>14. held' = [held EXCEPT ![h] = x] /\ Good(heap', x) /\ x.region = q /\ ~x.donated
    BY <1>11, <2>1, <2>11, <2>13
  <2> QED BY <1>1, <1>6, <2>3, <2>9, <2>12, <2>14, MoveStep
<1> QED BY <1>8, <1>10, <1>11

\* What a Buffer holds after n more bytes.
Appended(b, r, n) == Holding("buffer", r, b.len + n, FALSE, b.want \o [i \in 1..n |-> 2])

LEMMA AppendedBytes ==
  ASSUME NEW b \in HeldRecs, Len(b.want) = b.len, NEW n \in Nat, b.len + n <= MaxLen,
         NEW q \in Regions, NEW z, ~IdleIn(z, q), z.fill[q] = 0,
         NEW m \in Seq(PoolBytes), Len(m) >= b.len + n, \A i \in 1..b.len : m[i] = b.want[i],
         z.mem[q] = Overwritten(m, b.len + 1, n)
  PROVE  Good(z, Appended(b, q, n)) /\ Appended(b, q, n).region = q /\ ~Appended(b, q, n).donated
<1>1. b.len \in Nat /\ MaxLen \in Nat /\ b.want \in Seq(PoolBytes) /\ b.len + n \in 0..MaxLen
  BY SizesAssumption DEF HeldRecs
<1>2. PICK t : t = [i \in 1..n |-> 2]
  OBVIOUS
<1>3. t \in Seq(PoolBytes) /\ Len(t) = n /\ \A i \in 1..n : t[i] = 2
  BY <1>2 DEF PoolBytes
<1>4. PICK w : w = b.want \o t
  OBVIOUS
<1>5. /\ w \in Seq(PoolBytes) /\ Len(w) = b.len + n
      /\ \A i \in 1..(b.len + n) : w[i] = IF i <= b.len THEN b.want[i] ELSE t[i - b.len]
  <2>1. PICK a : a = b.want
    OBVIOUS
  <2>2. a \in Seq(PoolBytes) /\ Len(a) = b.len
    BY <1>1, <2>1
  <2>3. /\ a \o t \in Seq(PoolBytes) /\ Len(a \o t) = Len(a) + Len(t)
        /\ \A i \in 1..(Len(a) + Len(t)) : (a \o t)[i] = IF i <= Len(a) THEN a[i] ELSE t[i - Len(a)]
    BY <1>3, <2>2, ConcatProperties
  <2> QED BY <1>3, <1>4, <2>1, <2>2, <2>3
<1>6. PICK x : x = Appended(b, q, n)
  OBVIOUS
<1>7. /\ x \in HeldRecs /\ x.kind = "buffer" /\ x.region = q /\ x.len = b.len + n /\ ~x.donated
      /\ x.want = w
  BY <1>1, <1>2, <1>4, <1>5, <1>6 DEF Appended, Holding, HeldRecs
<1>8. PICK o : o = Overwritten(m, b.len + 1, n)
  OBVIOUS
<1>9. PICK from \in Int : from = b.len + 1
  BY <1>1
<1>10. Len(o) = Len(m) /\ \A i \in 1..Len(m) : o[i] = IF i \in from..(from + n - 1) THEN 2 ELSE m[i]
  <2>1. n \in Int
    OBVIOUS
  <2> QED BY <1>8, <1>9, <2>1, OverwrittenIs
<1>11. ASSUME NEW i \in 1..(b.len + n) PROVE o[i] = w[i]
  <2>0. i \in 1..Len(m)
    BY <1>1
  <2>1. CASE i <= b.len
    <3>1. i \notin from..(from + n - 1) /\ i \in 1..b.len
      BY <1>1, <1>9, <2>1
    <3> QED BY <1>5, <1>10, <2>0, <2>1, <3>1
  <2>2. CASE ~(i <= b.len)
    <3>1. i \in from..(from + n - 1) /\ i - b.len \in 1..n
      BY <1>1, <1>9, <2>2
    <3> QED BY <1>3, <1>5, <1>10, <2>0, <2>2, <3>1
  <2> QED BY <2>1, <2>2
<1>12. Good(z, x)
  BY <1>1, <1>5, <1>7, <1>8, <1>10, <1>11 DEF Good
<1> QED BY <1>6, <1>7, <1>12

\* Buffer.Write: in place, or with new memory and the old one put to its pool if it
\* was not donated.
LEMMA WriteBufferKeeps ==
  ASSUME PoolIInv, NEW h \in Handles, NEW n \in {1, 2}, WriteBuffer(h, n)
  PROVE  PoolIInv'
<1>1. PICK b, r, m : b = held[h] /\ r = b.region /\ m = heap.mem[r]
  OBVIOUS
<1>2. b.kind = "buffer" /\ b.len + n <= MaxLen
  BY <1>1 DEF WriteBuffer
<1>3. Has(h)
  BY <1>1, <1>2 DEF Has, Nothing
<1>4. /\ HeapOK(heap) /\ heap \in Heaps /\ Good(heap, b) /\ b \in HeldRecs /\ r \in Regions
      /\ ~IdleIn(heap, r) /\ m \in Seq(PoolBytes) /\ Len(m) \in Nat \ {0} /\ Len(m) >= b.len
      /\ Len(b.want) = b.len /\ (\A i \in 1..b.len : m[i] = b.want[i]) /\ heap.fill[r] = 0
  BY <1>1, <1>2, <1>3 DEF PoolIInv, HeldOK, HeapOK, Heaps, Good, HeldRecs, IdleIn
<1>5. n \in Nat \ {0} /\ b.len \in Nat /\ b.len + n \in 1..MaxLen /\ b.len + 1 \in Int
  BY <1>2, <1>4, SizesAssumption DEF HeldRecs
<1>6. ~b.donated => Sole(h)
  BY <1>1, <1>2, <1>3, OwnerIsSole
<1> DEFINE Stored(s, q) == [s EXCEPT !.mem[q] = Overwritten(@, b.len + 1, n)]
           Copied(g) == [g.heap EXCEPT !.mem[g.region] =
                           [i \in DOMAIN @ |-> IF i <= b.len THEN m[i] ELSE @[i]]]
<1>7. ASSUME NEW s, HeapOK(s), NEW q \in Regions, ~IdleIn(s, q), s.fill[q] = 0,
             Len(s.mem[q]) >= b.len + n, \A i \in 1..b.len : s.mem[q][i] = b.want[i]
      PROVE  /\ HeapOK(Stored(s, q)) /\ ~IdleIn(Stored(s, q), q)
             /\ \A p \in Regions \ {q} : SameAt(s, Stored(s, q), p)
             /\ Good(Stored(s, q), Appended(b, q, n)) /\ Appended(b, q, n).region = q
             /\ ~Appended(b, q, n).donated
  <2>1. s \in Heaps /\ s.mem[q] \in Seq(PoolBytes)
    BY <1>7 DEF HeapOK, Heaps
  <2>2. PICK o : o = Overwritten(s.mem[q], b.len + 1, n)
    OBVIOUS
  <2>3. PICK from \in Int : from = b.len + 1
    BY <1>5
  <2>4. o \in Seq(PoolBytes) /\ Len(o) = Len(s.mem[q])
    <3>1. n \in Int
      BY <1>5
    <3> QED BY <2>1, <2>2, <2>3, <3>1, OverwrittenIs
  <2>5. o # <<>>
    BY <1>5, <1>7, <2>1, <2>4
  <2>6. PICK z : z = Stored(s, q)
    OBVIOUS
  <2>7. z = [s EXCEPT !.mem[q] = o]
    BY <2>2, <2>6
  <2>8. Stores(s, z, q, o, 0)
    BY <1>7, <2>1, <2>4, <2>7 DEF Stores, Heaps
  <2>9. HeapOK(z) /\ ~IdleIn(z, q) /\ z.mem[q] = o /\ z.fill[q] = 0 /\ \A p \in Regions \ {q} : SameAt(s, z, p)
    <3>1. 0 \in Nat
      OBVIOUS
    <3> QED BY <1>7, <2>4, <2>5, <2>8, <3>1, StoreKeepsHeap
  <2>10. PICK k : k = s.mem[q]
    OBVIOUS
  <2>11. /\ k \in Seq(PoolBytes) /\ Len(k) >= b.len + n /\ (\A i \in 1..b.len : k[i] = b.want[i])
         /\ z.mem[q] = Overwritten(k, b.len + 1, n)
    BY <1>7, <2>1, <2>2, <2>9, <2>10
  <2>12. n \in Nat
    BY <1>5
  <2>13. Good(z, Appended(b, q, n)) /\ Appended(b, q, n).region = q /\ ~Appended(b, q, n).donated
    BY <1>2, <1>4, <1>7, <2>9, <2>11, <2>12, AppendedBytes
  <2> QED BY <2>6, <2>9, <2>13
<1>8. \/ /\ ~b.donated /\ b.len + n <= Len(m)
         /\ heap' = Stored(heap, r) /\ held' = [held EXCEPT ![h] = Appended(b, r, n)]
      \/ \E g \in Get(heap, b.len + n) :
           /\ heap' = Stored(Released(Copied(g), b), g.region)
           /\ held' = [held EXCEPT ![h] = Appended(b, g.region, n)]
  <2>1. /\ Len(m) = Capacity(held[h].region) /\ held[h] = b /\ held[h].region = r /\ m = heap.mem[held[h].region]
    BY <1>1 DEF Capacity
  <2>2. \A q : Appended(held[h], q, n) =
                Holding("buffer", q, held[h].len + n, FALSE, held[h].want \o [i \in 1..n |-> 2])
    BY DEF Appended
  <2>3. \/ /\ ~held[h].donated /\ held[h].len + n <= Capacity(held[h].region)
           /\ heap' = [heap EXCEPT !.mem[held[h].region] = Overwritten(@, held[h].len + 1, n)]
           /\ held' = [held EXCEPT ![h] = Appended(held[h], held[h].region, n)]
        \/ \E g \in Get(heap, held[h].len + n) :
             /\ heap' = Stored(Released(Copied(g), held[h]), g.region)
             /\ held' = [held EXCEPT ![h] = Appended(held[h], g.region, n)]
    BY <2>1, <2>2, Zenon DEF WriteBuffer
  <2> QED BY <2>1, <2>3
<1> HIDE DEF Stored
<1>9. CASE /\ ~b.donated /\ b.len + n <= Len(m)
           /\ heap' = Stored(heap, r) /\ held' = [held EXCEPT ![h] = Appended(b, r, n)]
  <2>1. PICK x : x = Appended(b, r, n)
    OBVIOUS
  <2>2. Len(heap.mem[r]) >= b.len + n
    BY <1>1, <1>4, <1>5, <1>9
  <2>3. /\ HeapOK(heap') /\ \A p \in Regions \ {r} : SameAt(heap, heap', p)
        /\ Good(heap', x) /\ x.region = r /\ ~x.donated
    BY <1>1, <1>4, <1>7, <1>9, <2>1, <2>2
  <2>4. held' = [held EXCEPT ![h] = x] /\ r = held[h].region
    BY <1>1, <1>9, <2>1
  <2> QED BY <1>6, <1>9, <2>3, <2>4, OwnStep
<1>10. ASSUME NEW g \in Get(heap, b.len + n), heap' = Stored(Released(Copied(g), b), g.region),
              held' = [held EXCEPT ![h] = Appended(b, g.region, n)]
       PROVE  PoolIInv'
  <2>1. PICK y, q, size : y = g.heap /\ q = g.region /\ size = b.len + n
    OBVIOUS
  <2>2. Took(heap, y, q, size)
    BY <1>4, <1>5, <1>10, <2>1, GetTakes
  <2>3. /\ HeapOK(y) /\ y \in Heaps /\ q \in Regions /\ ~IdleIn(y, q) /\ y.fill[q] = 0 /\ r # q
        /\ y.mem[q] \in Seq(PoolBytes) /\ Len(y.mem[q]) >= b.len + n
        /\ \A p \in Regions \ {q} : SameAt(heap, y, p)
    BY <1>4, <2>1, <2>2 DEF Took, HeapOK, Heaps
  <2>4. PICK o : o = [i \in DOMAIN y.mem[q] |-> IF i <= b.len THEN m[i] ELSE y.mem[q][i]]
    OBVIOUS
  <2>5. o \in Seq(PoolBytes) /\ Len(o) = Len(y.mem[q]) /\ \A i \in 1..b.len : o[i] = b.want[i]
    <3>1. PICK k : k = y.mem[q]
      OBVIOUS
    <3>2. /\ k \in Seq(PoolBytes) /\ Len(k) >= b.len /\ DOMAIN k = 1..Len(k)
          /\ \A i \in 1..Len(k) : k[i] \in PoolBytes
      BY <1>5, <2>3, <3>1
    <3>3. \A i \in 1..b.len : m[i] \in PoolBytes /\ i \in 1..Len(k)
      BY <1>4, <1>5, <3>2
    <3>4. \A i \in 1..Len(k) : (IF i <= b.len THEN m[i] ELSE k[i]) \in PoolBytes
      BY <1>5, <3>2, <3>3
    <3>5. o \in Seq(PoolBytes) /\ Len(o) = Len(k)
      BY <2>4, <3>1, <3>2, <3>4
    <3>6. \A i \in 1..b.len : o[i] = m[i]
      <4> SUFFICES ASSUME NEW i \in 1..b.len PROVE o[i] = m[i]
        OBVIOUS
      <4>1. i \in 1..Len(k) /\ i <= b.len
        BY <1>5, <3>3
      <4> QED BY <2>4, <3>1, <3>2, <4>1
    <3> QED BY <1>4, <3>1, <3>5, <3>6
  <2>6. o # <<>>
    BY <1>5, <2>3, <2>5
  <2>7. PICK c : c = Copied(g)
    OBVIOUS
  <2>8. Stores(y, c, q, o, 0)
    <3>1. c = [y EXCEPT !.mem[q] = o]
      BY <2>1, <2>4, <2>7
    <3> QED BY <2>3, <2>5, <3>1 DEF Stores, Heaps
  <2>9. /\ HeapOK(c) /\ ~IdleIn(c, q) /\ c.mem[q] = o /\ c.fill[q] = 0
        /\ \A p \in Regions \ {q} : SameAt(y, c, p)
    <3>1. 0 \in Nat
      OBVIOUS
    <3> QED BY <2>3, <2>5, <2>6, <2>8, <3>1, StoreKeepsHeap
  <2>10. ~IdleIn(c, r) /\ c.fill[r] = 0 /\ \A p \in Regions \ {q} : SameAt(heap, c, p)
    BY <1>4, <2>3, <2>9 DEF SameAt, IdleIn
  <2>11. PICK s : s = Released(c, b)
    OBVIOUS
  <2>12. /\ HeapOK(s) /\ SameAt(c, s, q) /\ (\A p \in Regions \ {q, r} : SameAt(c, s, p))
         /\ b.donated => SameAt(c, s, r)
    <3>1. CASE b.donated
      <4>1. s = c
        BY <2>11, <3>1 DEF Released
      <4> QED BY <2>9, <4>1 DEF SameAt
    <3>2. CASE ~b.donated
      <4>1. s = Put(c, r)
        BY <1>1, <2>11, <3>2 DEF Released
      <4>2. HeapOK(s) /\ \A p \in Regions \ {r} : SameAt(c, s, p)
        BY <1>4, <2>9, <2>10, <4>1, PutGives DEF Gave
      <4> QED BY <2>3, <3>2, <4>2
    <3> QED BY <3>1, <3>2
  <2>13. ~IdleIn(s, q) /\ s.fill[q] = 0 /\ Len(s.mem[q]) >= b.len + n /\ \A i \in 1..b.len : s.mem[q][i] = b.want[i]
    BY <2>3, <2>5, <2>9, <2>12 DEF SameAt, IdleIn
  <2>14. PICK x : x = Appended(b, q, n)
    OBVIOUS
  <2>15. heap' = Stored(s, q) /\ held' = [held EXCEPT ![h] = x]
    BY <1>10, <2>1, <2>7, <2>11, <2>14
  <2>16. /\ HeapOK(heap') /\ (\A p \in Regions \ {q} : SameAt(s, heap', p))
         /\ Good(heap', x) /\ x.region = q /\ ~x.donated
    BY <1>7, <2>3, <2>12, <2>13, <2>14, <2>15
  <2>17. /\ \A p \in Regions \ {q, r} : SameAt(heap, heap', p)
         /\ b.donated => SameAt(heap, heap', r)
    BY <1>4, <2>3, <2>10, <2>12, <2>16 DEF SameAt
  <2>18. Sole(h) \/ SameAt(heap, heap', held[h].region)
    BY <1>1, <1>6, <2>17
  <2>19. held[h].kind # "slice" /\ \A p \in Regions \ {q, held[h].region} : SameAt(heap, heap', p)
    BY <1>1, <1>2, <2>17
  <2> QED BY <2>2, <2>15, <2>16, <2>18, <2>19, MoveStep
<1> QED BY <1>8, <1>9, <1>10

\* Buffer.Reset.
LEMMA ResetKeeps ==
  ASSUME PoolIInv, NEW h \in Handles, Reset(h)
  PROVE  PoolIInv'
<1>1. PICK b : b = held[h]
  OBVIOUS
<1>2. b.kind = "buffer" /\ heap' = Released(heap, b) /\ held' = [held EXCEPT ![h] = Nothing]
  BY <1>1 DEF Reset
<1>3. Has(h)
  BY <1>1, <1>2 DEF Has, Nothing
<1>4. HeapOK(heap) /\ b.region \in Regions /\ ~IdleIn(heap, b.region) /\ heap.fill[b.region] = 0
  BY <1>1, <1>2, <1>3 DEF PoolIInv, HeldOK, Good, HeldRecs
<1>5. CASE b.donated
  <2>1. heap' = heap
    BY <1>2, <1>5 DEF Released
  <2>2. HeapOK(heap') /\ Undisturbed(h, heap') /\ OwnedAlone(h, Nothing) /\ Backed(h, Nothing)
    BY <1>4, <2>1 DEF Undisturbed, SameAt, OwnedAlone, Backed
  <2>3. LendsOn(h, Nothing)
    BY <1>1, <1>2 DEF LendsOn, Lends
  <2> QED BY <1>2, <2>2, <2>3, HandleStep
<1>6. CASE ~b.donated
  <2>1. heap' = Put(heap, b.region)
    BY <1>2, <1>6 DEF Released
  <2>2. HeapOK(heap') /\ \A q \in Regions \ {b.region} : SameAt(heap, heap', q)
    BY <1>4, <2>1, PutGives DEF Gave
  <2>3. Sole(h)
    BY <1>1, <1>2, <1>3, <1>6, OwnerIsSole
  <2> QED BY <1>1, <1>2, <2>2, <2>3, OwnStep
<1> QED BY <1>5, <1>6

\* The invariant holds in every reachable state.
LEMMA PoolInvariance == PoolSpec => []PoolIInv
<1>1. PoolInit => PoolIInv
  <2> SUFFICES ASSUME PoolInit PROVE PoolIInv
    OBVIOUS
  <2>1. /\ heap = [mem |-> [r \in Regions |-> <<>>], fill |-> [r \in Regions |-> 0],
                   pools |-> [k \in Kinds |-> [bits \in Classes |-> {}]]]
        /\ held = [h \in Handles |-> Nothing]
    BY DEF PoolInit
  <2>2. <<>> \in Seq(PoolBytes)
    OBVIOUS
  <2>3. [r \in Regions |-> <<>>] \in [Regions -> Seq(PoolBytes)]
    BY <2>2
  <2>4. heap \in Heaps
    BY <2>1, <2>3 DEF Heaps
  <2>5. HeapOK(heap)
    BY <2>1, <2>4 DEF HeapOK
  <2>6. \A h \in Handles : ~Has(h)
    BY <2>1 DEF Has
  <2> QED BY <2>1, <2>5, <2>6 DEF PoolIInv, HeldOK, Exclusive, Lent
<1>2. PoolIInv /\ [PoolNext]_poolVars => PoolIInv'
  <2> SUFFICES ASSUME PoolIInv, [PoolNext]_poolVars PROVE PoolIInv'
    OBVIOUS
  <2>1. CASE UNCHANGED poolVars
    BY <2>1 DEF poolVars, PoolIInv, HeldOK, Exclusive, Lent, Lends, Has
  <2>2. CASE PoolNext
    BY <2>2, DropKeeps, TakeSliceKeeps, SliceKeeps, BytesKeeps, WriteBytesKeeps, NewBufferKeeps,
       WriteBufferKeeps, ResetKeeps DEF PoolNext
  <2> QED BY <2>1, <2>2
<1> QED BY <1>1, <1>2, PTL DEF PoolSpec

\* For any handles, memory and classes of sizes: pooled memory is never shared, a
\* region has one owner or is in the one pool of its capacity, and whoever holds
\* a slice or a buffer finds in it what was written, or zeros after Get, however
\* memory was reused, grown and donated before.
THEOREM PoolsAreSafe == PoolSpec => []PoolInv
<1>1. PoolIInv => PoolInv
  <2> SUFFICES ASSUME PoolIInv PROVE PoolInv
    OBVIOUS
  <2>1. \A h \in Handles : held[h].kind # "none" => Has(h) /\ Good(heap, held[h])
    BY DEF PoolIInv, HeldOK, Has, Nothing
  <2>2. \A h \in Handles : held[h].kind # "none" => Capacity(held[h].region) >= held[h].len
    BY <2>1 DEF Good, Capacity
  <2>3. ASSUME NEW r \in Regions
        PROVE  Cardinality(Owners(r)) <= (IF r \in Pooled THEN 0 ELSE 1)
    <3>1. Owners(r) = {h \in Handles : held[h].kind # "none" /\ held[h].region = r /\ ~held[h].donated}
      BY DEF Owners, Holders
    <3>2. CASE r \in Pooled
      <4>1. IdleIn(heap, r)
        BY <3>2 DEF Pooled, IdleIn, InPool
      <4>2. Owners(r) = {}
        BY <2>1, <3>1, <4>1 DEF Good
      <4> QED BY <3>2, <4>2, FS_EmptySet
    <3>3. CASE r \notin Pooled
      <4>1. \A g, h \in Owners(r) : g = h
        BY <2>1, <3>1 DEF PoolIInv, Exclusive
      <4>2. CASE Owners(r) = {}
        <5>1. Cardinality(Owners(r)) = 0
          BY <4>2, FS_EmptySet
        <5> QED BY <3>3, <5>1
      <4>3. CASE Owners(r) # {}
        <5>1. PICK h : Owners(r) = {h}
          BY <4>1, <4>3
        <5>2. Cardinality(Owners(r)) = 1
          BY <5>1, FS_Singleton
        <5> QED BY <3>3, <5>2
      <4> QED BY <4>2, <4>3
    <3> QED BY <3>2, <3>3
  <2>4. OwnedOnce
    BY <2>2, <2>3 DEF OwnedOnce, PoolIInv, HeapOK, Capacity
  <2>5. ContentsKept
    <3> SUFFICES ASSUME NEW h \in Handles, held[h].kind # "none"
                 PROVE  SubSeq(heap.mem[held[h].region], 1, held[h].len) = held[h].want
      BY DEF ContentsKept
    <3>1. PICK x, m : x = held[h] /\ m = heap.mem[x.region]
      OBVIOUS
    <3>2. /\ m \in Seq(PoolBytes) /\ Len(m) >= x.len /\ x.want \in Seq(PoolBytes) /\ Len(x.want) = x.len
          /\ x.len \in Nat /\ \A i \in 1..x.len : m[i] = x.want[i]
      BY <2>1, <3>1, SizesAssumption DEF PoolIInv, HeapOK, Heaps, Good, HeldRecs
    <3>3. PICK w : w = SubSeq(m, 1, x.len)
      OBVIOUS
    <3>4. w \in Seq(PoolBytes) /\ Len(w) = x.len /\ \A i \in 1..x.len : w[i] = m[i]
      BY <3>2, <3>3
    <3>5. w = x.want
      BY <3>2, <3>4
    <3> QED BY <3>1, <3>3, <3>5
  <2> QED BY <2>4, <2>5 DEF PoolInv
<1> QED BY <1>1, PoolInvariance, PTL

-----------------------------------------------------------------------------
\* Failover, whose specification is Spec.  The options before next, and no others, have an attempt.
Started == \A i \in Options : att[i] = "none" <=> i >= next

\* Until Do leaves, its context ends only with the caller's; DoSlice's context,
\* until Do has returned.
CtxInv ==
  /\ sliceCtx = "done" /\ mpc \in {"start", "receive", "leave", "join"} => cancelled
  /\ doCtx = "done" /\ mpc \in {"start", "receive", "leave"} => cancelled
  /\ mpc \in {"join", "cleanup", "returned"} => doCtx = "done"

\* Producer and dispatcher stop early only when a context has ended.
StopInv ==
  /\ ppc = "exited" => next > NumOptions \/ sliceCtx = "done"
  /\ dpc \in {"wait", "exited"} => next > NumOptions \/ sliceCtx = "done" \/ doCtx = "done"
  /\ mpc \in {"cleanup", "returned"} => dpc = "exited"
  /\ mpc = "returned" => ppc = "exited"

\* Where the value of each attempt is.
ValueInv ==
  /\ \A i \in Options : att[i] \in {"none", "running", "failed"} => value[i] = "none"
  /\ \A i \in Options : att[i] \in {"offer", "block"} => value[i] \in {"value", "error"}
  /\ \A i \in Options : att[i] = "discarded" => value[i] # "value" /\ doCtx = "done"
  /\ \A i \in Options : att[i] = "delivered" => got = i /\ result = value[i]

\* The caller has a result only after the receive, and a missing one is due to
\* a cancellation or to attempts that all gave up.
ResultInv ==
  /\ mpc \in {"start", "receive"} => got = 0 /\ \A i \in Options : att[i] # "delivered"
  /\ mpc \notin {"start", "receive"} /\ got = 0 /\ ~cancelled =>
       result = "noresult" /\ \A i \in Options : att[i] = "failed"

FailoverIInv == TypeOK /\ Started /\ CtxInv /\ StopInv /\ ValueInv /\ ResultInv

-----------------------------------------------------------------------------
\* The steps of the contexts and of the producer keep the invariant.
LEMMA ContextKeeps ==
  ASSUME FailoverIInv, CallerCancels \/ Propagate \/ ProducerExit
  PROVE  FailoverIInv'
<1> USE DEF FailoverIInv, TypeOK, Started, CtxInv, StopInv, ValueInv, ResultInv, CallerPCs, DispatcherPCs
<1>1. CASE CallerCancels
  BY <1>1 DEF CallerCancels
<1>2. CASE Propagate
  BY <1>2 DEF Propagate
<1>3. CASE ProducerExit
  BY <1>3 DEF ProducerExit
<1> QED BY <1>1, <1>2, <1>3

\* The dispatcher keeps it: it starts each option's attempt once, and waits for
\* all of them before it closes the channels.
LEMMA DispatcherKeeps ==
  ASSUME FailoverIInv, DispatcherStep
  PROVE  FailoverIInv'
<1> USE DEF FailoverIInv, TypeOK, Started, CtxInv, StopInv, ValueInv, ResultInv, CallerPCs, DispatcherPCs
<1>1. CASE Dispatch
  <2>1. next \in Options /\ att' = [att EXCEPT ![next] = "running"] /\ next' = next + 1
    BY <1>1, OptionsAssumption DEF Dispatch, Options
  <2>2. \A i \in Options : i \in Nat
    BY DEF Options
  <2>3. att[next] = "none"
    BY <2>1, <2>2
  <2>4. UNCHANGED <<mpc, ppc, value, token, sliceCtx, doCtx, got, result, cancelled>>
        /\ dpc = "pick" /\ dpc' = "pause"
    BY <1>1 DEF Dispatch
  <2>5. TypeOK'
    BY <2>1, <2>4, OptionsAssumption DEF AttemptPCs, Options
  <2>6. Started'
    BY <2>1, <2>2, <2>3
  <2>7. CtxInv' /\ StopInv'
    BY <2>1, <2>4, OptionsAssumption
  <2>8. ValueInv' /\ ResultInv'
    BY <2>1, <2>3, <2>4
  <2> QED BY <2>5, <2>6, <2>7, <2>8
<1>2. CASE Timeout
  BY <1>2 DEF Timeout
<1>3. CASE FastFailover
  BY <1>3 DEF FastFailover
<1>4. CASE DispatcherStop
  BY <1>4 DEF DispatcherStop
<1>5. CASE DispatcherExit
  BY <1>5 DEF DispatcherExit, AttemptsEnded
<1> QED BY <1>1, <1>2, <1>3, <1>4, <1>5 DEF DispatcherStep

\* The attempts keep it: a value is delivered, or closed after the context ended.
LEMMA AttemptKeeps ==
  ASSUME FailoverIInv, NEW i \in Options, AttemptStep(i)
  PROVE  FailoverIInv'
<1> USE DEF FailoverIInv, TypeOK, Started, CtxInv, StopInv, ValueInv, ResultInv, CallerPCs, DispatcherPCs, Ended, AttemptPCs
<1>1. CASE AttemptFails(i)
  BY <1>1 DEF AttemptFails
<1>2. CASE \E v \in {"value", "error"} : AttemptEnds(i, v)
  BY <1>2 DEF AttemptEnds
<1>3. CASE Deliver(i)
  BY <1>3, OptionsAssumption DEF Deliver, Options
<1>4. CASE Postpone(i)
  BY <1>4 DEF Postpone, NotReceived
<1>5. CASE Discard(i)
  BY <1>5 DEF Discard, GivesUp, Close
<1> QED BY <1>1, <1>2, <1>3, <1>4, <1>5 DEF AttemptStep

\* The caller keeps it: it finds resultCh closed only when all attempts ended.
LEMMA CallerKeeps ==
  ASSUME FailoverIInv, CallerStep
  PROVE  FailoverIInv'
<1> USE DEF FailoverIInv, TypeOK, Started, CtxInv, StopInv, ValueInv, ResultInv, CallerPCs, DispatcherPCs
<1>1. CASE Receive
  BY <1>1 DEF Receive
<1>2. CASE ReceiveClosed
  <2>1. ~cancelled => \A i \in Options : att[i] = "failed"
    BY <1>2, OptionsAssumption DEF ReceiveClosed, Ended, Options
  <2> QED BY <1>2, <2>1 DEF ReceiveClosed
<1>3. CASE LeaveDo
  BY <1>3 DEF LeaveDo
<1>4. CASE JoinDispatcher
  BY <1>4 DEF JoinDispatcher
<1>5. CASE JoinProducer
  BY <1>5 DEF JoinProducer
<1> QED BY <1>1, <1>2, <1>3, <1>4, <1>5 DEF CallerStep

\* The invariant holds in every reachable state.
LEMMA FailoverInvariance == Spec => []FailoverIInv
<1>1. Init => FailoverIInv
  <2> SUFFICES ASSUME Init PROVE FailoverIInv
    OBVIOUS
  <2>1. cancelled \in BOOLEAN
    BY Zenon DEF Init
  <2>2. next \in 1..(NumOptions + 1) /\ got \in 0..NumOptions /\ token \in {0, 1}
    BY OptionsAssumption DEF Init
  <2>3. att \in [Options -> AttemptPCs] /\ value \in [Options -> {"none", "value", "error", "closed"}]
    BY DEF Init, AttemptPCs
  <2>4. TypeOK
    BY <2>1, <2>2, <2>3 DEF Init, TypeOK, CallerPCs, DispatcherPCs
  <2>5. Started
    BY DEF Init, Started, Options
  <2>6. CtxInv /\ StopInv /\ ValueInv /\ ResultInv
    BY DEF Init, CtxInv, StopInv, ValueInv, ResultInv
  <2> QED BY <2>4, <2>5, <2>6 DEF FailoverIInv
<1>2. FailoverIInv /\ [Next]_vars => FailoverIInv'
  <2> SUFFICES ASSUME FailoverIInv, [Next]_vars PROVE FailoverIInv'
    OBVIOUS
  <2>1. CASE UNCHANGED vars
    BY <2>1 DEF vars, FailoverIInv, TypeOK, Started, CtxInv, StopInv, ValueInv, ResultInv
  <2>2. CASE Returned
    BY <2>1, <2>2 DEF Returned
  <2> QED BY <2>1, <2>2, ContextKeeps, DispatcherKeeps, AttemptKeeps, CallerKeeps DEF Next
<1> QED BY <1>1, <1>2, PTL DEF Spec

\* When DoSlice returns, the producer, the dispatcher and all attempts have
\* ended, none of them met a closed channel, and every value that was produced
\* is the caller's or was closed: for any number of options.
THEOREM FailoverCorrect == Spec => []FailoverInv
<1>1. FailoverIInv => FailoverInv
  BY DEF FailoverIInv, FailoverInv, TypeOK, NothingLeaks, StopInv, ValueInv, Ended, AttemptPCs
<1> QED BY <1>1, FailoverInvariance, PTL

\* Unless the caller cancels, a result is only missing when every option was
\* tried and gave up.
THEOREM NoResultHonest == Spec => []NoResultIsHonest
<1>1. FailoverIInv => NoResultIsHonest
  BY DEF FailoverIInv, NoResultIsHonest, ResultInv
<1> QED BY <1>1, FailoverInvariance, PTL

=============================================================================
