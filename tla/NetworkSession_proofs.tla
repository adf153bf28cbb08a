----------------------- MODULE NetworkSession_proofs -----------------------
(***************************************************************************)
(* Proofs about NetworkSession, for any prefix, message lengths, number of *)
(* pieces, operations and connections.  The properties hold until Session  *)
(* loses step with the stream; what makes them inductive is that until     *)
(* then at most one request is under way, and that what lies ahead of the  *)
(* reader is the rest of one frame, from the place m_bytesReaded says.     *)
(***************************************************************************)
EXTENDS NetworkSession, SequenceTheorems, TLAPS

\* The unit at place p of a frame, and a frame without its first p units.
Place(job, kind, m, p) == [job |-> job, kind |-> kind, size |-> m, at |-> p]
RestOfFrame(s, p, job, kind, m) ==
  /\ Len(s) = PrefixSize + m - p
  /\ \A i \in 1..Len(s) : s[i] = Place(job, kind, m, p + i)

\* The units Session has not read yet.
Ahead == inbuf \o wire

Idle ==
  /\ availible
  /\ asked = <<>> /\ wire = <<>> /\ inbuf = <<>>
  /\ bytesReaded = 0

RequestUnderWay ==
  /\ ~availible /\ conn = "up"
  /\ Len(asked) = 1 /\ asked[1].job = callback
  /\ wire = <<>> /\ inbuf = <<>>
  /\ bytesReaded = 0

\* Some of the response is still to come: a complete one is read at once.
ResponseUnderWay ==
  /\ ~availible /\ conn = "up"
  /\ asked = <<>> /\ wire # <<>>
  /\ \E m \in BodySizes, kind \in Kinds :
       /\ RestOfFrame(Ahead, bytesReaded, callback, kind, m)
       /\ bytesReaded = PrefixSize => messageSize = m

StreamInv ==
  /\ called[1] = called[2]
  /\ Idle \/ RequestUnderWay \/ ResponseUnderWay

\* What holds of the stream even when step is lost: a piece is left for the
\* units still to arrive.
CutsInv == wire # <<>> => cuts < Pieces

\* The inductive invariant.
IInv == TypeOK /\ CutsInv /\ (~lost => StreamInv)

-----------------------------------------------------------------------------
(* Sequences of units. *)

\* Drop leaves the elements after the first n.
LEMMA DropProperties ==
  ASSUME NEW S, NEW s \in Seq(S), NEW n \in 0..Len(s)
  PROVE  /\ Drop(s, n) \in Seq(S)
         /\ Len(Drop(s, n)) = Len(s) - n
         /\ \A i \in 1..(Len(s) - n) : Drop(s, n)[i] = s[n + i]
<1>1. Len(s) \in Nat /\ \A i \in 1..Len(s) : s[i] \in S
  BY LenProperties, ElementOfSeq
<1>2. PICK a \in Int : a = n + 1
  BY <1>1
<1>3. PICK b \in Nat : b = Len(s)
  BY <1>1
<1>4. \A i \in a..b : s[i] \in S
  BY <1>1, <1>2, <1>3
<1>5. /\ SubSeq(s, a, b) \in Seq(S)
      /\ Len(SubSeq(s, a, b)) = IF a <= b THEN b - a + 1 ELSE 0
      /\ \A i \in 1..(b - a + 1) : SubSeq(s, a, b)[i] = s[a + i - 1]
  BY <1>4, SubSeqProperties
<1>6. Drop(s, n) = SubSeq(s, a, b)
  BY <1>2, <1>3 DEF Drop
<1>7. \A i \in 1..(Len(s) - n) : a + i - 1 = n + i /\ i \in 1..(b - a + 1)
  BY <1>1, <1>2, <1>3
<1> QED
  BY <1>1, <1>2, <1>3, <1>5, <1>6, <1>7

\* A sequence of length 0 is the empty one.
LEMMA NoUnits ==
  ASSUME NEW S, NEW s \in Seq(S)
  PROVE  Len(s) = 0 <=> s = <<>>
BY EmptySeq

\* What Session holds after k units arrived (u) is the beginning of what was
\* ahead of it (a); dropping n units of it (d) and counting on with the units
\* still on the wire (r) gives what was ahead, without its first n units.
Arrives(b, w, k, n) ==
  LET u == b \o SubSeq(w, 1, k)
      a == b \o w
      d == Drop(u, n)
      t == Drop(w, k)
      r == d \o t
  IN  /\ u \in Seq(Unit) /\ Len(u) = Len(b) + k
      /\ \A i \in 1..Len(u) : u[i] = a[i]
      /\ t \in Seq(Unit) /\ Len(t) = Len(w) - k
      /\ a \in Seq(Unit) /\ Len(a) = Len(b) + Len(w)
      /\ d \in Seq(Unit) /\ Len(d) = Len(b) + k - n
      /\ \A i \in 1..Len(d) : d[i] = a[n + i]
      /\ r \in Seq(Unit) /\ Len(r) = Len(a) - n
      /\ \A i \in 1..Len(r) : r[i] = a[n + i]

\* That is what the arrival of k units does, for any buffer and any wire.
LEMMA Arrival ==
  ASSUME NEW b \in Seq(Unit), NEW w \in Seq(Unit), NEW k \in 1..Len(w),
         NEW n \in 0..(Len(b) + k)
  PROVE  Arrives(b, w, k, n)
<1> DEFINE h == SubSeq(w, 1, k)
           u == b \o h
           a == b \o w
           d == Drop(u, n)
           t == Drop(w, k)
           r == d \o t
<1>1. Len(b) \in Nat /\ Len(w) \in Nat /\ k \in Nat /\ n \in Nat /\ k <= Len(w)
  BY LenProperties
<1>2. \A i \in 1..k : w[i] \in Unit
  BY <1>1, ElementOfSeq
<1>3. h \in Seq(Unit) /\ Len(h) = k /\ \A i \in 1..k : h[i] = w[i]
  <2>1. /\ h \in Seq(Unit)
        /\ Len(h) = IF 1 <= k THEN k - 1 + 1 ELSE 0
        /\ \A i \in 1..(k - 1 + 1) : h[i] = w[1 + i - 1]
    BY <1>1, <1>2, SubSeqProperties
  <2>2. \A i \in 1..k : i \in 1..(k - 1 + 1) /\ 1 + i - 1 = i
    BY <1>1
  <2> QED
    BY <1>1, <2>1, <2>2
<1> HIDE DEF h
<1>4. /\ u \in Seq(Unit) /\ Len(u) = Len(b) + k
      /\ \A i \in 1..(Len(b) + k) : u[i] = IF i <= Len(b) THEN b[i] ELSE h[i - Len(b)]
  BY <1>3, ConcatProperties
<1>5. /\ a \in Seq(Unit) /\ Len(a) = Len(b) + Len(w)
      /\ \A i \in 1..(Len(b) + Len(w)) : a[i] = IF i <= Len(b) THEN b[i] ELSE w[i - Len(b)]
  BY ConcatProperties
<1> HIDE DEF u, a
<1>6. \A i \in 1..Len(u) : u[i] = a[i]
  <2> SUFFICES ASSUME NEW i \in 1..Len(u) PROVE u[i] = a[i]
    OBVIOUS
  <2>1. i \in 1..(Len(b) + k) /\ i \in 1..(Len(b) + Len(w))
    BY <1>1, <1>4
  <2>2. CASE i <= Len(b)
    BY <2>1, <2>2, <1>4, <1>5
  <2>3. CASE ~(i <= Len(b))
    <3>1. i - Len(b) \in 1..k
      BY <2>1, <2>3, <1>1
    <3> QED
      BY <2>1, <2>3, <3>1, <1>3, <1>4, <1>5
  <2> QED
    BY <2>2, <2>3
<1>7. /\ d \in Seq(Unit) /\ Len(d) = Len(b) + k - n /\ Len(d) \in Nat
      /\ \A i \in 1..(Len(b) + k - n) : d[i] = u[n + i]
  <2>1. n \in 0..Len(u)
    BY <1>4
  <2>2. /\ d \in Seq(Unit) /\ Len(d) = Len(u) - n
        /\ \A i \in 1..(Len(u) - n) : d[i] = u[n + i]
    BY <2>1, <1>4, DropProperties
  <2>3. Len(d) \in Nat
    BY <2>2, LenProperties
  <2> QED
    BY <2>2, <2>3, <1>4
<1>8. /\ t \in Seq(Unit) /\ Len(t) = Len(w) - k /\ Len(t) \in Nat
      /\ \A i \in 1..(Len(w) - k) : t[i] = w[k + i]
  <2>1. k \in 0..Len(w)
    BY <1>1
  <2>2. /\ t \in Seq(Unit) /\ Len(t) = Len(w) - k
        /\ \A i \in 1..(Len(w) - k) : t[i] = w[k + i]
    BY <2>1, DropProperties
  <2>3. Len(t) \in Nat
    BY <2>2, LenProperties
  <2> QED
    BY <2>2, <2>3
<1> HIDE DEF d, t
<1>9. /\ r \in Seq(Unit) /\ Len(r) = Len(d) + Len(t)
      /\ \A i \in 1..(Len(d) + Len(t)) : r[i] = IF i <= Len(d) THEN d[i] ELSE t[i - Len(d)]
  BY <1>7, <1>8, ConcatProperties
<1>10. \A i \in 1..Len(d) : d[i] = a[n + i]
  <2> SUFFICES ASSUME NEW i \in 1..Len(d) PROVE d[i] = a[n + i]
    OBVIOUS
  <2>1. i \in 1..(Len(b) + k - n) /\ n + i \in 1..Len(u)
    BY <1>1, <1>4, <1>7
  <2> QED
    BY <2>1, <1>6, <1>7
<1> HIDE DEF r
<1>11. \A i \in 1..Len(r) : r[i] = a[n + i]
  <2> SUFFICES ASSUME NEW i \in 1..Len(r) PROVE r[i] = a[n + i]
    OBVIOUS
  <2>1. i \in 1..(Len(d) + Len(t)) /\ i \in Nat /\ i >= 1
    BY <1>1, <1>7, <1>8, <1>9
  <2>2. CASE i <= Len(d)
    <3>1. i \in 1..Len(d)
      BY <2>1, <2>2, <1>1, <1>7
    <3> QED
      BY <2>1, <2>2, <3>1, <1>9, <1>10
  <2>3. CASE ~(i <= Len(d))
    <3>1. PICK j \in Int : j = i - Len(d)
      <4>1. i - Len(d) \in Int
        BY <2>1, <1>7
      <4> QED
        BY <4>1, Zenon
    <3>2. j \in 1..(Len(w) - k)
      BY <2>1, <2>3, <3>1, <1>1, <1>7, <1>8
    <3>3. r[i] = w[k + j]
      BY <2>1, <2>3, <3>1, <3>2, <1>8, <1>9
    <3>4. /\ n + i \in 1..(Len(b) + Len(w))
          /\ ~(n + i <= Len(b))
          /\ n + i - Len(b) = k + j
      BY <2>1, <2>3, <3>1, <3>2, <1>1, <1>7
    <3> QED
      BY <3>3, <3>4, <1>5
  <2> QED
    BY <2>2, <2>3
<1>12. Len(r) = Len(a) - n
  BY <1>1, <1>5, <1>7, <1>8, <1>9
<1> QED
  BY <1>4, <1>5, <1>6, <1>7, <1>8, <1>9, <1>10, <1>11, <1>12 DEF Arrives, h, u, a, d, t, r

\* What a unit at a place of a frame says of itself.
LEMMA PlaceFields ==
  \A job, kind, m, p : LET u == Place(job, kind, m, p)
                       IN  u.job = job /\ u.kind = kind /\ u.size = m /\ u.at = p
BY DEF Place

\* A frame is the rest of a frame none of which was read.
LEMMA FrameProperties ==
  ASSUME NEW job \in Jobs, NEW kind \in Kinds, NEW m \in BodySizes
  PROVE  /\ Frame(job, kind, m) \in Seq(Unit)
         /\ Frame(job, kind, m) # <<>>
         /\ RestOfFrame(Frame(job, kind, m), 0, job, kind, m)
<1> DEFINE f == Frame(job, kind, m)
<1>1. PICK n \in Nat : n = PrefixSize + m /\ n > 0
  BY PrefixAssumption, SizesAssumption
<1>2. f = [i \in 1..n |-> [job |-> job, kind |-> kind, size |-> m, at |-> i]]
  BY <1>1 DEF Frame
<1>3. \A i \in 1..n : [job |-> job, kind |-> kind, size |-> m, at |-> i] \in Unit
  BY <1>1, SizesAssumption DEF Unit
<1>4. f \in [1..n -> Unit]
  BY <1>2, <1>3
<1>5. f \in Seq(Unit) /\ Len(f) = n
  BY <1>1, <1>4
<1>6. f # <<>>
  BY <1>1, <1>5
<1>7. \A i \in 1..Len(f) : f[i] = Place(job, kind, m, 0 + i)
  BY <1>1, <1>2, <1>5 DEF Place
<1>8. Len(f) = PrefixSize + m - 0
  BY <1>1, <1>5, PrefixAssumption, SizesAssumption
<1> QED
  BY <1>5, <1>6, <1>7, <1>8 DEF RestOfFrame

-----------------------------------------------------------------------------
(* Types, in step with the stream or not. *)

\* The client starts idle.
LEMMA InitInvariant == Init => IInv
<1> SUFFICES ASSUME Init PROVE IInv
  OBVIOUS
<1>1. TypeOK
  <2>1. 0 \in Jobs /\ 1 \in 1..MaxConnects /\ 0 \in 0..Pieces
    BY BoundsAssumption DEF Jobs
  <2>2. <<>> \in Seq(Asked) /\ <<>> \in Seq(Unit)
    BY EmptySeq
  <2>3. called \in Jobs \X Jobs
    BY <2>1 DEF Init
  <2>4. messageSize \in Int
    BY DEF Init
  <2> QED
    BY <2>1, <2>2, <2>3, <2>4 DEF Init, TypeOK
<1>2. CutsInv
  BY PrefixAssumption DEF Init, CutsInv
<1>3. StreamInv
  BY DEF Init, StreamInv, Idle
<1> QED
  BY <1>1, <1>2, <1>3 DEF IInv

\* The last piece TCP may deliver empties the wire.
LEMMA ArriveTypes ==
  ASSUME TypeOK, CutsInv, NEW k \in 1..Len(wire), cuts = Pieces - 1 => k = Len(wire), Arrive(k)
  PROVE  wire' \in Seq(Unit) /\ cuts' \in 0..Pieces /\ CutsInv'
<1>1. wire \in Seq(Unit) /\ Len(wire) \in Nat /\ cuts \in 0..Pieces /\ Pieces \in Nat
  BY LenProperties, BoundsAssumption DEF TypeOK
<1>2. wire # <<>>
  BY <1>1, NoUnits
<1>3. k \in 0..Len(wire) /\ cuts < Pieces
  BY <1>1, <1>2 DEF CutsInv
<1>4. wire' \in Seq(Unit) /\ Len(wire') = Len(wire) - k
  BY <1>1, <1>3, DropProperties DEF Arrive
<1>5. cuts' = cuts + 1
  BY DEF Arrive
<1>6. CASE k = Len(wire)
  <2>1. wire' = <<>>
    BY <1>1, <1>4, <1>6, NoUnits
  <2> QED
    BY <1>1, <1>3, <1>4, <1>5, <2>1 DEF CutsInv
<1>7. CASE k # Len(wire)
  <2>1. cuts # Pieces - 1
    BY <1>7
  <2> QED
    BY <1>1, <1>3, <1>4, <1>5, <2>1 DEF CutsInv
<1> QED
  BY <1>6, <1>7

\* request() leaves Session and the facade with a job of the client.
LEMMA RequestTypes ==
  ASSUME TypeOK, NEW job \in Jobs, NEW what \in {"plain", "contacts", "chats"}, Request(job, what)
  PROVE  asked' \in Seq(Asked) /\ callback' \in Jobs /\ availible' \in BOOLEAN
<1>1. asked \in Seq(Asked) /\ callback \in Jobs
  BY DEF TypeOK
<1>2. CASE conn = "up"
  <2>1. [job |-> job, what |-> what] \in Asked
    BY DEF Asked
  <2>2. asked' = Append(asked, [job |-> job, what |-> what]) /\ callback' = job /\ availible' = FALSE
    BY <1>2 DEF Request
  <2> QED
    BY <1>1, <2>1, <2>2, AppendProperties
<1>3. CASE conn # "up"
  BY <1>1, <1>3 DEF Request
<1> QED
  BY <1>2, <1>3

\* A callback goes on with its job's next request or ends the job.
LEMMA ProcessTypes ==
  ASSUME TypeOK, NEW r, r.job \in Jobs, ProcessResponse(r)
  PROVE  /\ asked' \in Seq(Asked) /\ callback' \in Jobs /\ availible' \in BOOLEAN
         /\ called' \in Jobs \X Jobs /\ conn' = conn
<1>1. callback \in Jobs /\ asked \in Seq(Asked)
  BY DEF TypeOK
<1>2. called' \in Jobs \X Jobs /\ conn' = conn
  BY <1>1 DEF ProcessResponse
<1>3. CASE r.kind = "contacts"
  <2>1. Request(callback, "chats")
    BY <1>3 DEF ProcessResponse
  <2> QED
    BY <1>1, <1>2, <2>1, RequestTypes
<1>4. CASE r.kind # "contacts"
  BY <1>1, <1>2, <1>4 DEF ProcessResponse
<1> QED
  BY <1>3, <1>4

\* What load_mesg leaves has its type, whether it read a message, bytes that
\* are none, or gave the connection up.
LEMMA LoadTypes ==
  ASSUME TypeOK, CutsInv, NEW k \in 1..Len(wire), cuts = Pieces - 1 => k = Len(wire),
         NEW units \in Seq(Unit), NEW n \in Int, n <= Len(units), LoadMesg(k, units, n)
  PROVE  /\ conn' \in {"down", "connecting", "up"}
         /\ asked' \in Seq(Asked) /\ wire' \in Seq(Unit) /\ inbuf' \in Seq(Unit)
         /\ cuts' \in 0..Pieces /\ CutsInv'
         /\ callback' \in Jobs /\ availible' \in BOOLEAN /\ called' \in Jobs \X Jobs
<1>1. /\ conn \in {"down", "connecting", "up"} /\ asked \in Seq(Asked)
      /\ callback \in Jobs /\ availible \in BOOLEAN /\ called \in Jobs \X Jobs
  BY DEF TypeOK
<1>2. Unread(units, n) \in Seq(Unit)
  <2>1. Len(units) \in Nat /\ (n > 0 => n \in 0..Len(units))
    BY LenProperties
  <2> QED
    BY <2>1, DropProperties DEF Unread
<1>3. n > 0 => units[1] \in Unit /\ units[1].job \in Jobs
  <2>1. n > 0 => 1 \in 1..Len(units)
    BY LenProperties
  <2>2. n > 0 => units[1] \in Unit
    BY <2>1, ElementOfSeq
  <2> QED
    BY <2>2 DEF Unit
<1>4. CASE IsMessage(units, n) /\ Arrive(k) /\ inbuf' = Unread(units, n) /\ ProcessResponse(units[1])
  <2>1. n > 0
    BY <1>4 DEF IsMessage
  <2> QED
    BY <1>1, <1>2, <1>3, <1>4, <2>1, ArriveTypes, ProcessTypes
<1>5. CASE Arrive(k) /\ inbuf' = Unread(units, n) /\ Wait
  BY <1>1, <1>2, <1>5, ArriveTypes DEF Wait
<1>6. CASE /\ n > 0 /\ Arrive(k) /\ inbuf' = Unread(units, n)
           /\ \E r \in JunkResponses(units[1]) : ProcessResponse(r)
  <2>1. PICK r \in JunkResponses(units[1]) : ProcessResponse(r)
    BY <1>6
  <2>2. r.job \in Jobs
    BY <1>3, <1>6 DEF JunkResponses
  <2> QED
    BY <1>1, <1>2, <1>6, <2>1, <2>2, ArriveTypes, ProcessTypes
<1>7. CASE Abort
  <2>1. /\ conn' = "down" /\ asked' = <<>> /\ wire' = <<>> /\ cuts' = 0 /\ inbuf' = <<>>
        /\ availible' = TRUE /\ callback' = callback /\ called' = called
    BY <1>7 DEF Abort, OnDisconnection, StreamLost
  <2> QED
    BY <1>1, <2>1, EmptySeq, BoundsAssumption DEF CutsInv
<1> QED
  BY <1>4, <1>5, <1>6, <1>7 DEF LoadMesg

\* onReadyRead keeps the types of Session's members, however many units came
\* and whatever they are.
LEMMA ReadyReadTypes ==
  ASSUME IInv, NEW k \in 1..Len(wire), OnReadyRead(k)
  PROVE  TypeOK' /\ CutsInv'
<1> DEFINE units == Received(k)
<1>1. TypeOK /\ CutsInv
  BY DEF IInv
<1>2. /\ inbuf \in Seq(Unit) /\ wire \in Seq(Unit) /\ k \in Nat
      /\ Len(inbuf) \in Nat /\ Len(wire) \in Nat
  BY <1>1, LenProperties DEF TypeOK
<1>3. units \in Seq(Unit) /\ Len(units) = Len(inbuf) + k /\ Len(units) \in Nat
  <2>1. 0 \in 0..(Len(inbuf) + k)
    BY <1>2
  <2>2. Arrives(inbuf, wire, k, 0)
    BY <1>2, <2>1, Arrival
  <2> QED
    BY <2>2, LenProperties DEF Arrives, Received
<1> HIDE DEF units
<1>4. connects' \in 1..MaxConnects /\ jobs' \in Jobs
  BY <1>1 DEF TypeOK, OnReadyRead
<1>5. cuts = Pieces - 1 => k = Len(wire)
  BY DEF OnReadyRead
<1>6. PrefixSize \in Nat /\ PrefixSize > 0
  BY PrefixAssumption
<1>7. CASE ReadPrefix(k)
  <2> DEFINE rest == Drop(units, PrefixSize)
  <2>1. Len(units) >= PrefixSize /\ lost' = lost
    BY <1>7 DEF ReadPrefix, units
  <2>2. PrefixSize \in 0..Len(units)
    BY <1>3, <1>6, <2>1
  <2>3. rest \in Seq(Unit) /\ Len(rest) \in Nat
    BY <1>3, <2>2, DropProperties, LenProperties
  <2>4. PrefixLengths(units) \subseteq Int
    <3>1. 1 \in 1..Len(units)
      BY <1>3, <1>6, <2>1
    <3>2. units[1] \in Unit
      BY <1>3, <3>1, ElementOfSeq
    <3>3. ParseError \in Int /\ units[1].size \in Int /\ JunkLengths \subseteq Int
      BY <3>2, SizesAssumption DEF Unit, ParseError
    <3> QED
      BY <3>3 DEF PrefixLengths
  <2>5. PICK m \in PrefixLengths(units) :
          /\ messageSize' = m
          /\ \/ m = ParseError /\ bytesReaded' = 0 /\ Abort
             \/ m # ParseError /\ m = Len(rest) /\ bytesReaded' = 0 /\ LoadMesg(k, rest, m)
             \/ /\ m # ParseError /\ bytesReaded' = PrefixSize
                /\ Arrive(k) /\ inbuf' = rest /\ Wait
    BY <1>7 DEF ReadPrefix, units
  <2>6. messageSize' \in Int /\ lost' \in BOOLEAN
    BY <1>1, <2>1, <2>4, <2>5 DEF TypeOK
  <2>7. CASE m = ParseError /\ bytesReaded' = 0 /\ Abort
    <3>1. /\ conn' = "down" /\ asked' = <<>> /\ wire' = <<>> /\ cuts' = 0 /\ inbuf' = <<>>
          /\ availible' = TRUE /\ callback' = callback /\ called' = called
      BY <2>7 DEF Abort, OnDisconnection, StreamLost
    <3>2. TypeOK'
      BY <1>1, <1>4, <2>6, <2>7, <3>1, EmptySeq, BoundsAssumption DEF TypeOK
    <3> QED
      BY <1>6, <2>7, <3>1, <3>2 DEF CutsInv
  <2>8. CASE m # ParseError /\ m = Len(rest) /\ bytesReaded' = 0 /\ LoadMesg(k, rest, m)
    <3>1. m \in Int /\ m <= Len(rest)
      BY <2>3, <2>8
    <3>2. /\ conn' \in {"down", "connecting", "up"}
          /\ asked' \in Seq(Asked) /\ wire' \in Seq(Unit) /\ inbuf' \in Seq(Unit)
          /\ cuts' \in 0..Pieces /\ CutsInv'
          /\ callback' \in Jobs /\ availible' \in BOOLEAN /\ called' \in Jobs \X Jobs
      BY <1>1, <1>5, <2>3, <2>8, <3>1, LoadTypes
    <3>3. TypeOK'
      BY <1>4, <2>6, <2>8, <3>2 DEF TypeOK
    <3> QED
      BY <1>6, <2>8, <3>2, <3>3
  <2>9. CASE m # ParseError /\ bytesReaded' = PrefixSize /\ Arrive(k) /\ inbuf' = rest /\ Wait
    <3>1. wire' \in Seq(Unit) /\ cuts' \in 0..Pieces /\ CutsInv'
      BY <1>1, <1>5, <2>9, ArriveTypes
    <3>2. UNCHANGED <<conn, asked, callback, availible, called>>
      BY <2>9 DEF Wait
    <3>3. TypeOK'
      BY <1>1, <1>4, <2>3, <2>6, <2>9, <3>1, <3>2 DEF TypeOK
    <3> QED
      BY <2>5, <2>6, <2>9, <3>1, <3>3
  <2> QED
    BY <2>5, <2>7, <2>8, <2>9
<1>8. CASE ReadMessage(k)
  <2>1. /\ bytesReaded = PrefixSize /\ Len(units) >= messageSize
        /\ bytesReaded' = 0 /\ LoadMesg(k, units, messageSize)
        /\ messageSize' = messageSize /\ lost' = lost
    BY <1>8 DEF ReadMessage, units
  <2>2. messageSize \in Int
    BY <1>1, <1>3, <2>1 DEF TypeOK
  <2>3. PICK n \in Int : n = messageSize /\ n <= Len(units)
    BY <1>3, <2>1, <2>2
  <2>4. /\ conn' \in {"down", "connecting", "up"}
        /\ asked' \in Seq(Asked) /\ wire' \in Seq(Unit) /\ inbuf' \in Seq(Unit)
        /\ cuts' \in 0..Pieces /\ CutsInv'
        /\ callback' \in Jobs /\ availible' \in BOOLEAN /\ called' \in Jobs \X Jobs
    BY <1>1, <1>3, <1>5, <2>1, <2>3, LoadTypes
  <2>5. TypeOK'
    BY <1>1, <1>4, <2>1, <2>4 DEF TypeOK
  <2> QED
    BY <1>6, <2>1, <2>4, <2>5
<1>9. CASE NotEnough(k)
  <2>1. /\ bytesReaded' = 0 /\ Arrive(k) /\ inbuf' = units /\ messageSize' = messageSize
        /\ lost' = (lost \/ bytesReaded = PrefixSize)
        /\ UNCHANGED <<conn, asked, callback, availible, called>>
    BY <1>9 DEF NotEnough, units, Wait
  <2>2. wire' \in Seq(Unit) /\ cuts' \in 0..Pieces /\ CutsInv'
    BY <1>1, <1>5, <2>1, ArriveTypes
  <2>3. lost' \in BOOLEAN
    BY <2>1
  <2>4. TypeOK'
    BY <1>1, <1>3, <1>4, <2>1, <2>2, <2>3 DEF TypeOK
  <2> QED
    BY <1>6, <2>1, <2>2, <2>4
<1> QED
  BY <1>7, <1>8, <1>9 DEF OnReadyRead

-----------------------------------------------------------------------------
(* In step with the stream. *)

\* The last units of a response are its message, and they reach the callback
\* of the job that asked for it: the client is idle again, or LoadDataJob's
\* second request is the only one under way.
LEMMA WholeMessage ==
  ASSUME IInv, conn = "up", asked = <<>>,
         NEW k \in 1..Len(wire), k = Len(wire),
         NEW units \in Seq(Unit), NEW n \in Nat, n = Len(units),
         IsMessage(units, n), units[1].job = callback,
         LoadMesg(k, units, n), bytesReaded' = 0
  PROVE  StreamInv'
<1>1. wire \in Seq(Unit) /\ Len(wire) \in Nat /\ callback \in Jobs
  BY LenProperties DEF IInv, TypeOK
<1>2. Arrive(k) /\ inbuf' = Unread(units, n) /\ ProcessResponse(units[1])
  BY Zenon DEF LoadMesg
<1>3. inbuf' = Drop(units, n)
  BY <1>2 DEF Unread, IsMessage
<1>4. wire' = <<>>
  <2>1. k \in 0..Len(wire)
    BY <1>1
  <2>2. wire' \in Seq(Unit) /\ Len(wire') = Len(wire) - k
    BY <1>1, <1>2, <2>1, DropProperties DEF Arrive
  <2> QED
    BY <1>1, <2>2, NoUnits
<1>5. inbuf' = <<>>
  <2>1. n \in 0..Len(units)
    OBVIOUS
  <2>2. inbuf' \in Seq(Unit) /\ Len(inbuf') = Len(units) - n
    BY <1>3, <2>1, DropProperties
  <2> QED
    BY <2>2, NoUnits
<1>6. called' = <<callback, callback>> /\ conn' = "up"
  BY <1>2 DEF ProcessResponse
<1>7. CASE units[1].kind = "contacts"
  <2>1. Request(callback, "chats")
    BY <1>2, <1>7 DEF ProcessResponse
  <2>2. /\ callback' = callback /\ availible' = FALSE
        /\ asked' = Append(<<>>, [job |-> callback, what |-> "chats"])
    BY <2>1 DEF Request
  <2>3. Len(asked') = 1 /\ asked'[1].job = callback
    BY <2>2
  <2>4. RequestUnderWay'
    BY <1>4, <1>5, <1>6, <2>2, <2>3 DEF RequestUnderWay
  <2> QED
    BY <1>6, <2>4 DEF StreamInv
<1>8. CASE units[1].kind # "contacts"
  <2>1. availible' = TRUE /\ asked' = asked
    BY <1>2, <1>8 DEF ProcessResponse
  <2>2. Idle'
    BY <1>4, <1>5, <2>1 DEF Idle
  <2> QED
    BY <1>6, <2>2 DEF StreamInv
<1> QED
  BY <1>7, <1>8

\* While in step, onReadyRead reads a prefix where a frame begins and a message
\* where its prefix ended, or it gives up the count of a prefix and is lost.
LEMMA ReadyReadStream ==
  ASSUME IInv, ~lost, NEW k \in 1..Len(wire), OnReadyRead(k), ~lost'
  PROVE  StreamInv'
<1> DEFINE units == Received(k)
<1>1. /\ inbuf \in Seq(Unit) /\ wire \in Seq(Unit) /\ k \in Nat /\ k <= Len(wire)
      /\ Len(inbuf) \in Nat /\ Len(wire) \in Nat
      /\ bytesReaded \in {0, PrefixSize}
  BY LenProperties DEF IInv, TypeOK
<1>2. PrefixSize \in Nat /\ PrefixSize > 0
  BY PrefixAssumption
<1>3. StreamInv /\ wire # <<>>
  BY <1>1, NoUnits DEF IInv
<1>4. ResponseUnderWay /\ called[1] = called[2]
  BY <1>3 DEF StreamInv, Idle, RequestUnderWay
<1>5. PICK m \in BodySizes, kind \in Kinds :
        /\ RestOfFrame(Ahead, bytesReaded, callback, kind, m)
        /\ bytesReaded = PrefixSize => messageSize = m
  BY <1>4 DEF ResponseUnderWay
<1>6. m \in Nat /\ m > 0
  BY SizesAssumption
<1>7. ~availible /\ conn = "up" /\ asked = <<>>
  BY <1>4 DEF ResponseUnderWay
<1>8. \A n \in 0..(Len(inbuf) + k) :
        LET r == Drop(units, n) \o Drop(wire, k)
        IN  /\ units \in Seq(Unit) /\ Len(units) = Len(inbuf) + k
            /\ \A i \in 1..Len(units) : units[i] = Ahead[i]
            /\ Drop(wire, k) \in Seq(Unit) /\ Len(Drop(wire, k)) = Len(wire) - k
            /\ Ahead \in Seq(Unit) /\ Len(Ahead) = Len(inbuf) + Len(wire)
            /\ Drop(units, n) \in Seq(Unit) /\ Len(Drop(units, n)) = Len(inbuf) + k - n
            /\ \A i \in 1..Len(Drop(units, n)) : Drop(units, n)[i] = Ahead[n + i]
            /\ r \in Seq(Unit) /\ Len(r) = Len(Ahead) - n
            /\ \A i \in 1..Len(r) : r[i] = Ahead[n + i]
  <2> TAKE n \in 0..(Len(inbuf) + k)
  <2>1. units = inbuf \o SubSeq(wire, 1, k) /\ Ahead = inbuf \o wire
    BY DEF Received, Ahead
  <2>2. Arrives(inbuf, wire, k, n)
    BY <1>1, Arrival
  <2> HIDE DEF units
  <2> QED
    BY <2>1, <2>2, Zenon DEF Arrives
<1>9. 0 \in 0..(Len(inbuf) + k)
  BY <1>1
<1>10. /\ units \in Seq(Unit) /\ Len(units) = Len(inbuf) + k /\ Len(units) \in Nat
       /\ \A i \in 1..Len(units) : units[i] = Ahead[i]
       /\ Drop(wire, k) \in Seq(Unit) /\ Len(Drop(wire, k)) = Len(wire) - k
       /\ Len(Ahead) = Len(inbuf) + Len(wire)
  BY <1>8, <1>9, LenProperties
<1>11. /\ Len(Ahead) = PrefixSize + m - bytesReaded
       /\ \A i \in 1..Len(Ahead) : Ahead[i] = Place(callback, kind, m, bytesReaded + i)
  BY <1>5 DEF RestOfFrame
<1>12. \A i \in 1..Len(units) : units[i] = Place(callback, kind, m, bytesReaded + i)
  <2>1. \A i \in 1..Len(units) : i \in 1..Len(Ahead)
    BY <1>1, <1>10
  <2> QED
    BY <2>1, <1>10, <1>11
<1> HIDE DEF units
<1>13. /\ Len(units) = Len(inbuf) + k /\ Len(units) \in Nat
       /\ Len(Drop(wire, k)) = Len(wire) - k
       /\ Len(Ahead) = Len(inbuf) + Len(wire)
  BY <1>10
<1>14. /\ k \in Nat /\ k <= Len(wire) /\ Len(inbuf) \in Nat /\ Len(wire) \in Nat
  BY <1>1
<1>15. CASE ReadPrefix(k)
  <2> DEFINE rest == Drop(units, PrefixSize)
  <2>1. bytesReaded = 0 /\ Len(units) >= PrefixSize
    BY <1>1, <1>2, <1>15 DEF ReadPrefix, units
  <2>2. PrefixSize \in 0..(Len(inbuf) + k)
    BY <1>1, <1>2, <1>10, <2>1
  <2>3. /\ rest \in Seq(Unit) /\ Len(rest) = Len(inbuf) + k - PrefixSize /\ Len(rest) \in Nat
        /\ \A i \in 1..Len(rest) : rest[i] = Ahead[PrefixSize + i]
        /\ rest \o Drop(wire, k) \in Seq(Unit)
        /\ Len(rest \o Drop(wire, k)) = Len(Ahead) - PrefixSize
        /\ \A i \in 1..Len(rest \o Drop(wire, k)) :
             (rest \o Drop(wire, k))[i] = Ahead[PrefixSize + i]
    BY <1>8, <2>2, LenProperties
  <2>4. Len(rest) = Len(inbuf) + k - PrefixSize /\ Len(rest) \in Nat
    BY <2>3
  <2>5. PrefixLengths(units) = {m}
    <3>1. \A i \in 1..PrefixSize : i \in 1..Len(units) /\ bytesReaded + i = i
      BY <1>1, <1>2, <1>10, <2>1
    <3>2. \A i \in 1..PrefixSize : units[i] = Place(callback, kind, m, i)
      BY <1>12, <3>1
    <3>3. \A i \in 1..PrefixSize : units[i].at = i /\ units[i].size = m
      BY <3>2, PlaceFields
    <3>4. 1 \in 1..PrefixSize
      BY <1>2
    <3> QED
      BY <3>3, <3>4 DEF PrefixLengths
  <2>6. /\ messageSize' = m
        /\ \/ m = Len(rest) /\ bytesReaded' = 0 /\ LoadMesg(k, rest, m)
           \/ /\ m # Len(rest) /\ bytesReaded' = PrefixSize
              /\ Arrive(k) /\ inbuf' = rest /\ Wait
    <3>1. PICK l \in PrefixLengths(units) :
            /\ messageSize' = l
            /\ \/ l = ParseError /\ bytesReaded' = 0 /\ Abort
               \/ l # ParseError /\ l = Len(rest) /\ bytesReaded' = 0 /\ LoadMesg(k, rest, l)
               \/ /\ l # ParseError /\ l # Len(rest) /\ bytesReaded' = PrefixSize
                  /\ Arrive(k) /\ inbuf' = rest /\ Wait
      BY <1>15 DEF ReadPrefix, units
    <3>2. l = m /\ m # ParseError
      BY <1>6, <2>5 DEF ParseError
    <3> QED
      BY <3>1, <3>2
  <2>7. \A i \in 1..Len(rest) : rest[i] = Place(callback, kind, m, PrefixSize + i)
    <3>1. \A i \in 1..Len(rest) :
            /\ PrefixSize + i \in 1..Len(Ahead)
            /\ bytesReaded + (PrefixSize + i) = PrefixSize + i
      BY <1>1, <1>2, <1>10, <2>1, <2>3
    <3> QED
      BY <1>11, <2>3, <3>1
  <2>8. Len(Ahead) = PrefixSize + m
    BY <1>2, <1>6, <1>11, <2>1
  <2>9. CASE m = Len(rest) /\ bytesReaded' = 0 /\ LoadMesg(k, rest, m)
    <3>1. k = Len(wire)
      BY <1>2, <1>6, <1>13, <1>14, <2>4, <2>8, <2>9
    <3>2. IsMessage(rest, m)
      <4>1. \A i \in 1..m : rest[i].at = PrefixSize + i /\ rest[i].size = m
        BY <2>7, <2>9, PlaceFields
      <4> QED
        BY <1>6, <4>1 DEF IsMessage
    <3>3. 1 \in 1..Len(rest)
      BY <1>6, <2>9
    <3>4. rest[1].job = callback
      BY <2>7, <3>3, PlaceFields
    <3> HIDE DEF rest
    <3> QED
      BY <1>6, <1>7, <2>3, <2>9, <3>1, <3>2, <3>4, WholeMessage
  <2>10. CASE /\ m # Len(rest) /\ bytesReaded' = PrefixSize
             /\ Arrive(k) /\ inbuf' = rest /\ Wait
    <3>1. wire' = Drop(wire, k) /\ UNCHANGED <<conn, asked, callback, availible, called>>
      BY <2>10 DEF Arrive, Wait
    <3>2. Ahead' = rest \o Drop(wire, k)
      BY <2>10, <3>1 DEF Ahead
    <3>3. Len(Drop(wire, k)) # 0
      BY <1>2, <1>6, <1>13, <1>14, <2>4, <2>8, <2>10
    <3>4. wire' # <<>>
      BY <1>10, <3>1, <3>3, NoUnits
    <3>5. Len(Ahead') = PrefixSize + m - PrefixSize
      BY <1>2, <1>6, <2>3, <2>8, <3>2
    <3>6. \A i \in 1..Len(Ahead') : Ahead'[i] = Place(callback, kind, m, PrefixSize + i)
      <4>1. \A i \in 1..Len(Ahead') :
              /\ PrefixSize + i \in 1..Len(Ahead)
              /\ bytesReaded + (PrefixSize + i) = PrefixSize + i
        BY <1>2, <1>6, <2>1, <2>8, <3>5
      <4>2. \A i \in 1..Len(Ahead') : Ahead'[i] = Ahead[PrefixSize + i]
        BY <2>3, <3>2
      <4> QED
        BY <1>11, <4>1, <4>2
    <3>7. RestOfFrame(Ahead', PrefixSize, callback, kind, m)
      BY <3>5, <3>6 DEF RestOfFrame
    <3>8. ResponseUnderWay'
      BY <1>7, <2>6, <2>10, <3>1, <3>4, <3>7 DEF ResponseUnderWay
    <3> QED
      BY <1>4, <3>1, <3>8 DEF StreamInv
  <2> QED
    BY <2>6, <2>9, <2>10
<1>16. CASE ReadMessage(k)
  <2>1. /\ bytesReaded = PrefixSize /\ Len(units) >= messageSize
        /\ bytesReaded' = 0 /\ LoadMesg(k, units, messageSize)
    BY <1>16 DEF ReadMessage, units
  <2>2. messageSize = m
    BY <1>5, <2>1
  <2>3. Len(Ahead) = m
    BY <1>2, <1>6, <1>11, <2>1
  <2>4. Len(units) = m /\ k = Len(wire)
    BY <1>6, <1>13, <1>14, <2>1, <2>2, <2>3
  <2>5. IsMessage(units, m)
    <3>1. \A i \in 1..m : units[i].at = bytesReaded + i /\ units[i].size = m
      BY <1>12, <2>4, PlaceFields
    <3> QED
      BY <1>6, <2>1, <3>1 DEF IsMessage
  <2>6. units[1].job = callback
    <3>1. 1 \in 1..Len(units)
      BY <1>6, <2>4
    <3> QED
      BY <1>12, <3>1, PlaceFields
  <2> QED
    BY <1>6, <1>7, <1>10, <2>1, <2>2, <2>4, <2>5, <2>6, WholeMessage
<1>17. CASE NotEnough(k)
  <2>1. /\ ~(bytesReaded < PrefixSize /\ Len(units) >= PrefixSize)
        /\ bytesReaded' = 0 /\ wire' = Drop(wire, k) /\ inbuf' = units
        /\ bytesReaded # PrefixSize
        /\ UNCHANGED <<conn, asked, callback, availible, called>>
    BY <1>17 DEF NotEnough, units, Wait, Arrive
  <2>2. bytesReaded = 0 /\ Len(units) < PrefixSize
    BY <1>1, <1>2, <1>10, <2>1
  <2>3. Drop(units, 0) = units
    <3>1. 0 \in 0..Len(units) /\ Len(units) \in Nat
      BY <1>1, <1>10
    <3>2. /\ Drop(units, 0) \in Seq(Unit) /\ Len(Drop(units, 0)) = Len(units) - 0
          /\ \A i \in 1..(Len(units) - 0) : Drop(units, 0)[i] = units[0 + i]
      BY <1>10, <3>1, DropProperties
    <3>3. Len(Drop(units, 0)) = Len(units) /\ \A i \in 1..Len(units) : Drop(units, 0)[i] = units[i]
      BY <3>1, <3>2
    <3> QED
      BY <1>10, <3>2, <3>3, SeqEqual
  <2>4. /\ Len(units \o Drop(wire, k)) = Len(Ahead) - 0
        /\ \A i \in 1..Len(units \o Drop(wire, k)) : (units \o Drop(wire, k))[i] = Ahead[0 + i]
    BY <1>8, <1>9, <2>3
  <2>5. Ahead' = units \o Drop(wire, k)
    BY <2>1 DEF Ahead
  <2>6. Len(Ahead') = Len(Ahead) /\ \A i \in 1..Len(Ahead) : Ahead'[i] = Ahead[i]
    BY <1>1, <1>10, <2>4, <2>5
  <2>7. RestOfFrame(Ahead', 0, callback, kind, m)
    BY <1>11, <2>2, <2>6 DEF RestOfFrame
  <2>8. wire' # <<>>
    <3>1. Len(Drop(wire, k)) # 0
      BY <1>2, <1>6, <1>11, <1>13, <1>14, <2>2
    <3> QED
      BY <1>10, <2>1, <3>1, NoUnits
  <2>9. ResponseUnderWay'
    BY <1>2, <1>7, <2>1, <2>7, <2>8 DEF ResponseUnderWay
  <2> QED
    BY <1>4, <2>1, <2>9 DEF StreamInv
<1> QED
  BY <1>15, <1>16, <1>17 DEF OnReadyRead

\* The answer to the one request under way is the one response on the wire.
LEMMA ServerAnswersInv ==
  ASSUME IInv, ServerAnswers
  PROVE  IInv'
<1>1. /\ asked \in Seq(Asked) /\ wire \in Seq(Unit) /\ asked # <<>>
      /\ TypeOK
  BY DEF IInv, TypeOK, ServerAnswers
<1>2. Head(asked) \in Asked /\ Tail(asked) \in Seq(Asked) /\ Len(Tail(asked)) = Len(asked) - 1
  BY <1>1, HeadTailProperties
<1>3. PICK m \in BodySizes, kind \in {Head(asked).what, "empty"} :
        wire' = wire \o Frame(Head(asked).job, kind, m)
  BY DEF ServerAnswers
<1>4. PICK job \in Jobs : job = Head(asked).job /\ kind \in Kinds
  BY <1>2 DEF Asked, Kinds
<1> DEFINE f == Frame(job, kind, m)
<1>5. f \in Seq(Unit) /\ f # <<>> /\ RestOfFrame(f, 0, job, kind, m)
  BY <1>4, FrameProperties
<1> HIDE DEF f
<1>6. wire' = wire \o f
  BY <1>3, <1>4 DEF f
<1>7. /\ asked' = Tail(asked) /\ cuts' = 0
      /\ UNCHANGED <<conn, connects, inbuf, bytesReaded, messageSize, callback, availible, jobs, called, lost>>
  BY DEF ServerAnswers
<1>8. wire' \in Seq(Unit)
  BY <1>1, <1>5, <1>6, ConcatProperties
<1>9. TypeOK'
  BY <1>1, <1>2, <1>7, <1>8, BoundsAssumption DEF TypeOK
<1>10. CutsInv'
  BY <1>1, <1>7, BoundsAssumption DEF CutsInv
<1>11. ASSUME ~lost' PROVE StreamInv'
  <2>1. StreamInv
    BY <1>7, <1>11 DEF IInv
  <2>2. RequestUnderWay
    BY <1>1, <2>1 DEF StreamInv, Idle, ResponseUnderWay
  <2>3. Head(asked) = asked[1] /\ job = callback
    BY <1>1, <1>4, <2>2 DEF RequestUnderWay
  <2>4. wire' = f /\ Ahead' = f
    <3>1. wire' = f
      BY <1>5, <1>6, <2>2, ConcatEmptySeq DEF RequestUnderWay
    <3>2. inbuf' = <<>>
      BY <1>7, <2>2 DEF RequestUnderWay
    <3> QED
      BY <1>5, <3>1, <3>2, ConcatEmptySeq DEF Ahead
  <2>5. asked' = <<>>
    BY <1>2, <1>7, <2>2, NoUnits DEF RequestUnderWay
  <2>6. /\ bytesReaded' = 0 /\ bytesReaded' # PrefixSize /\ ~availible' /\ conn' = "up"
        /\ callback' = callback /\ called' = called
    BY <1>7, <2>2, PrefixAssumption DEF RequestUnderWay
  <2>7. RestOfFrame(Ahead', bytesReaded', callback', kind, m)
    BY <1>5, <2>3, <2>4, <2>6
  <2>8. ResponseUnderWay'
    BY <1>4, <1>5, <2>4, <2>5, <2>6, <2>7 DEF ResponseUnderWay
  <2> QED
    BY <2>1, <2>6, <2>8 DEF StreamInv
<1> QED
  BY <1>9, <1>10, <1>11 DEF IInv

\* An operation starts only on an idle client, so its request is the only one.
LEMMA StartJobInv ==
  ASSUME IInv, NEW what \in {"plain", "contacts"}, StartJob(what)
  PROVE  IInv'
<1>1. TypeOK /\ CutsInv /\ asked \in Seq(Asked)
  BY DEF IInv, TypeOK
<1>2. /\ availible /\ jobs < MaxJobs /\ jobs' = jobs + 1
      /\ UNCHANGED <<conn, connects, wire, cuts, inbuf, bytesReaded, messageSize, called, lost>>
  BY DEF StartJob
<1>3. PICK job \in Jobs : job = jobs'
  BY <1>1, <1>2, BoundsAssumption DEF TypeOK, Jobs
<1>4. Request(job, what)
  BY <1>3 DEF StartJob
<1>5. asked' \in Seq(Asked) /\ callback' \in Jobs /\ availible' \in BOOLEAN
  BY <1>1, <1>4, RequestTypes
<1>6. TypeOK'
  BY <1>1, <1>2, <1>3, <1>5 DEF TypeOK
<1>7. CutsInv'
  BY <1>1, <1>2 DEF CutsInv
<1>8. ASSUME ~lost' PROVE StreamInv'
  <2>1. StreamInv /\ Idle
    BY <1>2, <1>8 DEF IInv, StreamInv, RequestUnderWay, ResponseUnderWay
  <2>2. CASE conn = "up"
    <3>1. /\ callback' = job /\ availible' = FALSE
          /\ asked' = Append(<<>>, [job |-> job, what |-> what])
      BY <1>4, <2>1, <2>2 DEF Request, Idle
    <3>2. Len(asked') = 1 /\ asked'[1].job = job
      BY <3>1
    <3>3. RequestUnderWay'
      BY <1>2, <2>1, <2>2, <3>1, <3>2 DEF RequestUnderWay, Idle
    <3> QED
      BY <1>2, <2>1, <3>3 DEF StreamInv
  <2>3. CASE conn # "up"
    <3>1. availible' = TRUE /\ asked' = asked
      BY <1>4, <2>3 DEF Request
    <3>2. Idle'
      BY <1>2, <2>1, <3>1 DEF Idle
    <3> QED
      BY <1>2, <2>1, <3>2 DEF StreamInv
  <2> QED
    BY <2>2, <2>3
<1> QED
  BY <1>6, <1>7, <1>8 DEF IInv

\* The end of a connection, or a new one, takes everything under way with it;
\* in step is who had not read a prefix then.
LEMMA StreamLostInv ==
  ASSUME IInv, StreamLost, availible' = TRUE, connects' \in 1..MaxConnects,
         conn' \in {"down", "connecting"}, lost' = (lost \/ bytesReaded = PrefixSize),
         UNCHANGED <<bytesReaded, messageSize, callback, jobs, called>>
  PROVE  IInv'
<1>1. asked' = <<>> /\ wire' = <<>> /\ cuts' = 0 /\ inbuf' = <<>>
  BY DEF StreamLost
<1>2. TypeOK
  BY DEF IInv
<1>3. lost' \in BOOLEAN
  OBVIOUS
<1>4. TypeOK'
  BY <1>1, <1>2, <1>3, EmptySeq, BoundsAssumption DEF TypeOK
<1>5. CutsInv'
  BY <1>1, <1>2 DEF CutsInv
<1>6. ASSUME ~lost' PROVE StreamInv'
  <2>1. StreamInv
    BY <1>6 DEF IInv
  <2>2. bytesReaded = 0
    BY <1>2, <1>6 DEF TypeOK
  <2>3. Idle'
    BY <1>1, <2>2 DEF Idle
  <2> QED
    BY <2>1, <2>3 DEF StreamInv
<1> QED
  BY <1>4, <1>5, <1>6 DEF IInv

\* The inductive step.
LEMMA NextInvariant == IInv /\ [Next]_vars => IInv'
<1> SUFFICES ASSUME IInv, [Next]_vars PROVE IInv'
  OBVIOUS
<1>1. TypeOK
  BY DEF IInv
<1>2. CASE ServerAnswers
  BY <1>2, ServerAnswersInv
<1>3. ASSUME NEW k \in 1..Len(wire), OnReadyRead(k) PROVE IInv'
  <2>1. TypeOK' /\ CutsInv'
    BY <1>3, ReadyReadTypes
  <2>2. lost => lost'
    BY <1>3, <1>1 DEF OnReadyRead, ReadPrefix, ReadMessage, NotEnough, TypeOK
  <2>3. ~lost' => StreamInv'
    BY <1>3, <2>2, ReadyReadStream
  <2> QED
    BY <2>1, <2>3 DEF IInv
<1>4. CASE OnConnection
  <2>1. /\ conn = "connecting" /\ conn' = "up"
        /\ UNCHANGED <<connects, asked, wire, cuts, inbuf, bytesReaded, messageSize, callback,
                       availible, jobs, called, lost>>
    BY <1>4 DEF OnConnection
  <2>2. TypeOK' /\ CutsInv'
    BY <2>1 DEF IInv, TypeOK, CutsInv
  <2>3. ~lost => Idle /\ StreamInv
    BY <2>1 DEF IInv, StreamInv, RequestUnderWay, ResponseUnderWay
  <2>4. ~lost => StreamInv'
    BY <2>1, <2>3 DEF StreamInv, Idle
  <2> QED
    BY <2>1, <2>2, <2>4 DEF IInv
<1>5. CASE OnError
  <2>1. /\ conn = "connecting" /\ conn' = "down" /\ availible' = TRUE
        /\ UNCHANGED <<connects, asked, wire, cuts, inbuf, bytesReaded, messageSize, callback,
                       jobs, called, lost>>
    BY <1>5 DEF OnError
  <2>2. TypeOK' /\ CutsInv'
    BY <2>1 DEF IInv, TypeOK, CutsInv
  <2>3. ~lost => Idle /\ StreamInv
    BY <2>1 DEF IInv, StreamInv, RequestUnderWay, ResponseUnderWay
  <2>4. ~lost => StreamInv'
    BY <2>1, <2>3 DEF StreamInv, Idle
  <2> QED
    BY <2>1, <2>2, <2>4 DEF IInv
<1>6. CASE ConnectionEnds
  BY <1>1, <1>6, StreamLostInv DEF ConnectionEnds, OnDisconnection, TypeOK
<1>7. CASE UpdateConnectionSettings
  <2>1. connects' \in 1..MaxConnects
    BY <1>1, <1>7, BoundsAssumption DEF UpdateConnectionSettings, TypeOK
  <2> QED
    BY <1>7, <2>1, StreamLostInv DEF UpdateConnectionSettings
<1>8. ASSUME NEW what \in {"plain", "contacts"}, StartJob(what) PROVE IInv'
  BY <1>8, StartJobInv
<1>9. CASE UNCHANGED vars
  <2>1. /\ UNCHANGED <<conn, connects, asked, wire, cuts, inbuf, bytesReaded>>
        /\ UNCHANGED <<messageSize, callback, availible, jobs, called, lost>>
    BY <1>9 DEF vars
  <2>2. TypeOK' /\ CutsInv'
    BY <2>1 DEF IInv, TypeOK, CutsInv
  <2>3. StreamInv => StreamInv'
    <3>1. Ahead' = Ahead
      BY <2>1 DEF Ahead
    <3> QED
      BY <2>1, <3>1 DEF StreamInv, Idle, RequestUnderWay, ResponseUnderWay
  <2> QED
    BY <2>1, <2>2, <2>3 DEF IInv
<1> QED
  BY <1>2, <1>3, <1>4, <1>5, <1>6, <1>7, <1>8, <1>9 DEF Next, Network

-----------------------------------------------------------------------------
\* The inductive invariant holds: until step is lost the client is idle, or one
\* request is with the server, or the rest of one response is ahead.
THEOREM Invariant == Spec => []IInv
<1>1. Init => IInv
  BY InitInvariant
<1>2. IInv /\ [Next]_vars => IInv'
  BY NextInvariant
<1> QED
  BY <1>1, <1>2, PTL DEF Spec

\* Session's members and the stream keep their types, in step or not.
THEOREM TypeCorrect == Spec => []TypeOK
<1>1. IInv => TypeOK
  BY DEF IInv
<1> QED
  BY <1>1, Invariant, PTL

\* onReadyRead: however TCP cuts the responses, the count of units read agrees
\* with the stream until a prefix's count is dropped before its message.
THEOREM InStep == Spec => []InStepUntilLost
<1>1. IInv => InStepUntilLost
  <2> SUFFICES ASSUME IInv, ~lost, conn = "up" PROVE FramingInSync
    BY DEF InStepUntilLost, FramingInSync
  <2>1. StreamInv /\ inbuf \in Seq(Unit) /\ wire \in Seq(Unit) /\ bytesReaded \in {0, PrefixSize}
    BY DEF IInv, TypeOK
  <2>2. CASE Idle \/ RequestUnderWay
    <3>1. inbuf \o wire = <<>> /\ bytesReaded = 0
      BY <2>1, <2>2, ConcatEqualIffEmpty DEF Idle, RequestUnderWay
    <3> QED
      BY <3>1 DEF FramingInSync
  <2>3. CASE ResponseUnderWay
    <3>1. PICK m \in BodySizes, kind \in Kinds :
            /\ RestOfFrame(Ahead, bytesReaded, callback, kind, m)
            /\ bytesReaded = PrefixSize => messageSize = m
      BY <2>3 DEF ResponseUnderWay
    <3>2. m \in Nat \ {0} /\ PrefixSize \in Nat \ {0}
      BY SizesAssumption, PrefixAssumption
    <3>3. Ahead \in Seq(Unit) /\ Ahead # <<>>
      BY <2>1, <2>3, ConcatProperties, ConcatEqualIffEmpty DEF Ahead, ResponseUnderWay
    <3>4. 1 \in 1..Len(Ahead)
      BY <2>1, <3>1, <3>2 DEF RestOfFrame
    <3>5. Ahead[1] = Place(callback, kind, m, bytesReaded + 1)
      BY <3>1, <3>4 DEF RestOfFrame
    <3>6. Ahead[1].at = bytesReaded + 1 /\ Ahead[1].size = m
      BY <3>5, PlaceFields
    <3> QED
      BY <2>1, <3>1, <3>2, <3>3, <3>6 DEF FramingInSync, Ahead
  <2> QED
    BY <2>1, <2>2, <2>3 DEF StreamInv
<1> QED
  BY <1>1, Invariant, PTL

\* BackEndFacade::m_availible is down only while a response is on its way.
THEOREM LockedWhileWaiting == Spec => []LockedOnlyWhileWaiting
<1>1. IInv => LockedOnlyWhileWaiting
  <2> SUFFICES ASSUME IInv, ~availible, ~lost PROVE conn = "up" /\ (asked # <<>> \/ wire # <<>>)
    BY DEF LockedOnlyWhileWaiting
  <2>1. RequestUnderWay \/ ResponseUnderWay
    BY DEF IInv, StreamInv, Idle
  <2>2. asked \in Seq(Asked)
    BY DEF IInv, TypeOK
  <2>3. RequestUnderWay => asked # <<>>
    BY <2>2, NoUnits DEF RequestUnderWay
  <2> QED
    BY <2>1, <2>3 DEF RequestUnderWay, ResponseUnderWay
<1> QED
  BY <1>1, Invariant, PTL

\* The single m_callback is the one the next response is for.
THEOREM CallbackMatches == Spec => []ResponseMeetsItsCallback
<1>1. IInv => ResponseMeetsItsCallback
  <2> SUFFICES ASSUME IInv, ~lost PROVE ResponseMeetsItsCallback
    BY DEF ResponseMeetsItsCallback
  <2>1. /\ StreamInv /\ called[1] = called[2]
        /\ inbuf \in Seq(Unit) /\ wire \in Seq(Unit) /\ bytesReaded \in {0, PrefixSize}
    BY DEF IInv, TypeOK, StreamInv
  <2>2. CASE Idle
    BY <2>1, <2>2 DEF Idle, ResponseMeetsItsCallback
  <2>3. CASE RequestUnderWay
    <3>1. \A i \in 1..Len(asked) : i = 1
      BY <2>3 DEF RequestUnderWay
    <3> QED
      BY <2>1, <2>3, <3>1 DEF RequestUnderWay, ResponseMeetsItsCallback
  <2>4. CASE ResponseUnderWay
    <3>1. PICK m \in BodySizes, kind \in Kinds :
            RestOfFrame(Ahead, bytesReaded, callback, kind, m)
      BY <2>4 DEF ResponseUnderWay
    <3>2. \A i \in 1..Len(wire) : wire[i].job = callback
      <4> SUFFICES ASSUME NEW i \in 1..Len(wire) PROVE wire[i].job = callback
        OBVIOUS
      <4>1. Len(inbuf) \in Nat /\ Len(wire) \in Nat
        BY <2>1, LenProperties
      <4>2. PICK j \in Nat : j = Len(inbuf) + i
        BY <4>1
      <4>3. j \in 1..(Len(inbuf) + Len(wire)) /\ ~(j <= Len(inbuf)) /\ j - Len(inbuf) = i
        BY <4>1, <4>2
      <4>4. Len(Ahead) = Len(inbuf) + Len(wire) /\ Ahead[j] = wire[i]
        BY <2>1, <4>3, ConcatProperties DEF Ahead
      <4>5. Ahead[j] = Place(callback, kind, m, bytesReaded + j)
        BY <3>1, <4>3, <4>4 DEF RestOfFrame
      <4> QED
        BY <4>4, <4>5, PlaceFields
    <3> QED
      BY <2>1, <2>4, <3>2 DEF ResponseUnderWay, ResponseMeetsItsCallback
  <2> QED
    BY <2>1, <2>2, <2>3, <2>4 DEF StreamInv
<1> QED
  BY <1>1, Invariant, PTL
=============================================================================
