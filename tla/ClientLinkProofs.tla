-------------------------- MODULE ClientLinkProofs --------------------------
(***************************************************************************)
(* Proofs about ClientLink, for any number of requests, ids and ticks, any *)
(* receive buffer and any of the five transports.                          *)
(*                                                                         *)
(* Two chains carry the argument.  What was read, what has arrived and     *)
(* what the device still sends are one run of frames (Joined), so that a   *)
(* reader at the first byte of a frame stays with the frames.  And the ids *)
(* of the requests since the connection was opened count backwards from    *)
(* the last one (Ids), so that an id comes back only after IdSpace.        *)
(***************************************************************************)
EXTENDS ClientLink, SequenceTheorems, TLAPS

\* What must follow a part: a new frame (NoFrame) or the next part of this one.
After(p) == IF p.part = 3 THEN NoFrame ELSE [req |-> p.req, next |-> p.part + 1]

\* Part p may come where e is expected; a device at under goes on with e.
Fits(e, p)  == IF e = NoFrame THEN p.part = 1 ELSE p.req = e.req /\ p.part = e.next
Meets(e, u) == IF e = NoFrame THEN u.next <= 1 ELSE u = e

\* The next part to be read begins a frame.
AtFrame == IF rx # <<>> THEN rx[1].part = 1 ELSE under.next <= 1

\* Parts belong to requests that were sent.
Known ==
  /\ \A i \in 1..Len(rx) : rx[i].req \in 1..n
  /\ \A i \in 1..Len(buf) : buf[i].req \in 1..n

\* Between requests nothing is half read, a closed port hears nothing.
Rest ==
  /\ pc # "wait" => buf = <<>>
  /\ pc = "closed" => rx = <<>>
  /\ Datagram => under = NoFrame

\* buf, rx and under are pieces of one run of frames.
Joined ==
  /\ \A i \in 1..Len(rx) - 1 : Fits(After(rx[i]), rx[i + 1])
  /\ buf # <<>> /\ rx # <<>> => Fits(After(buf[Len(buf)]), rx[1])
  /\ rx # <<>> => Meets(After(rx[Len(rx)]), under)
  /\ buf # <<>> /\ rx = <<>> => Meets(After(buf[Len(buf)]), under)

\* ps are the first parts of a frame.
Begun(ps) == \A i \in 1..Len(ps) : ps[i].part = i /\ ps[i].req = ps[1].req

\* With an MBAP header, unless a read was cut within a frame.
Aligned ==
  Mbap /\ gaveUp # "within" /\ pc # "closed" =>
    Begun(buf) /\ (buf = <<>> => AtFrame)

\* The id d requests ago, while it has not come round.
Back(d) == IF d <= lastTxnId THEN lastTxnId - d ELSE lastTxnId + IdSpace - d

\* Everything under way was sent after some request b, and the ids since
\* then count backwards from the last.
Since(b) ==
  /\ \A m \in asked : m > b
  /\ under # NoFrame => under.req > b
  /\ \A i \in 1..Len(rx) : rx[i].req > b
  /\ \A i \in 1..Len(buf) : buf[i].req > b
  /\ \A m \in 1..n : m > b /\ n - m < IdSpace => sent[m].id = Back(n - m)

Ids == Mbap => \E b \in 0..n : Since(b)

\* The parts of the answer to request n that have arrived and are to come.
Underway ==
  /\ asked = {}
  /\ Len(buf) + Len(rx) <= 3
  /\ under = IF Len(buf) + Len(rx) = 3 THEN NoFrame
             ELSE [req |-> n, next |-> Len(buf) + Len(rx) + 1]
  /\ \A i \in 1..Len(buf) : buf[i] = [req |-> n, part |-> i]
  /\ \A i \in 1..Len(rx) : rx[i] = [req |-> n, part |-> Len(buf) + i]

\* On an RTU stream where nothing was given up only the current answer is
\* under way.
Quiet ==
  ~Mbap /\ ~Datagram /\ gaveUp = "none" =>
    /\ pc # "wait" => asked = {} /\ under = NoFrame /\ rx = <<>>
    /\ pc = "wait" => \/ asked \subseteq {n} /\ under = NoFrame /\ rx = <<>> /\ buf = <<>>
                      \/ Underway

IInv ==
  /\ TypeOK /\ Known /\ Rest /\ Joined /\ Aligned /\ Ids /\ Quiet
  /\ OwnAnswer /\ Resynced

-----------------------------------------------------------------------------
\* The id after the last one.
LEMMA NextId ==
  ASSUME lastTxnId \in 0..(IdSpace - 1)
  PROVE  NextTxnId = IF lastTxnId + 1 < IdSpace THEN lastTxnId + 1 ELSE 0
<1> DEFINE a == lastTxnId + 1
<1>1. IdSpace \in Nat \ {0} /\ a \in Nat
  BY LinkAssumption
<1>2. CASE a < IdSpace
  BY <1>1, <1>2, SMTT(30) DEF NextTxnId
<1>3. CASE a = IdSpace
  BY <1>1, <1>3, SMTT(30) DEF NextTxnId
<1>. QED
  BY <1>1, <1>2, <1>3 DEF NextTxnId

\* The parts of a frame, and of its beginning.
LEMMA FrameParts ==
  ASSUME NEW m \in Requests, NEW k \in 1..3
  PROVE  /\ SubSeq(Frame(m), 1, k) \in Seq(Part) /\ Len(SubSeq(Frame(m), 1, k)) = k
         /\ \A i \in 1..k : SubSeq(Frame(m), 1, k)[i] = [req |-> m, part |-> i]
<1>1. /\ Frame(m) \in Seq(Part) /\ Len(Frame(m)) = 3
      /\ \A i \in 1..3 : Frame(m)[i] = [req |-> m, part |-> i]
  BY DEF Frame, Part
<1>2. 1 \in Int /\ k \in Int /\ 1 <= k /\ k <= 3
  OBVIOUS
<1> DEFINE f == Frame(m)
<1>3. /\ \A i \in 1..k : f[i] \in Part
      /\ \A i \in 1..k : f[i] = [req |-> m, part |-> i]
  BY <1>1 DEF Part
<1> HIDE DEF f
<1>4. /\ SubSeq(f, 1, k) \in Seq(Part) /\ Len(SubSeq(f, 1, k)) = k - 1 + 1
      /\ \A i \in 1..k - 1 + 1 : SubSeq(f, 1, k)[i] = f[1 + i - 1]
  BY <1>2, <1>3, SubSeqProperties
<1>. QED
  BY <1>2, <1>3, <1>4 DEF f

\* A part is made of a request and a number.
LEMMA PartOf ==
  ASSUME NEW ps \in Seq(Part), NEW i \in 1..Len(ps)
  PROVE  /\ ps[i] \in Part /\ ps[i].req \in Requests /\ ps[i].part \in 1..3
         /\ ps[i] = [req |-> ps[i].req, part |-> ps[i].part]
<1>1. ps[i] \in Part
  OBVIOUS
<1>. QED
  BY <1>1 DEF Part

\* What begins a frame is no junk.
LEMMA BegunIsNoJunk ==
  ASSUME NEW ps \in Seq(Part), Len(ps) <= 3, Begun(ps)
  PROVE  ~Junk(ps)
<1>1. CASE ps = <<>>
  BY <1>1 DEF Junk
<1>2. CASE ps # <<>>
  <2> DEFINE m == ps[1].req
             f == SubSeq(Frame(m), 1, Len(ps))
  <2>0. Len(ps) \in Nat \ {0}
    BY <1>2, EmptySeq
  <2>1. Len(ps) \in 1..3 /\ 1 \in 1..Len(ps)
    <3> DEFINE k == Len(ps)
    <3>1. k \in Nat \ {0} /\ k <= 3
      BY <2>0
    <3> HIDE DEF k
    <3>2. k \in 1..3 /\ 1 \in 1..k
      BY <3>1
    <3>. QED
      BY <3>2 DEF k
  <2>2. m \in Requests
    BY <2>1, PartOf
  <2>3. /\ f \in Seq(Part) /\ Len(f) = Len(ps)
        /\ \A i \in 1..Len(ps) : f[i] = [req |-> m, part |-> i]
    <3> HIDE DEF m
    <3>. QED
      BY <2>1, <2>2, FrameParts
  <2>4. \A i \in 1..Len(ps) : ps[i] = [req |-> m, part |-> i]
    BY PartOf DEF Begun
  <2>5. ps = f
    <3> HIDE DEF f, m
    <3>. QED
      BY <2>3, <2>4, SeqEqual
  <2>. QED
    BY <2>5 DEF Junk
<1>. QED
  BY <1>1, <1>2

\* A whole frame is its three parts.
LEMMA WholeParts ==
  ASSUME NEW ps \in Seq(Part), Whole(ps)
  PROVE  /\ Len(ps) = 3 /\ ps[1].req \in Requests
         /\ \A i \in 1..3 : ps[i] = [req |-> ps[1].req, part |-> i]
<1> DEFINE m == ps[1].req
<1>1. Len(ps) = 3 /\ 1 \in 1..Len(ps)
  BY DEF Whole
<1>2. m \in Requests
  BY <1>1, PartOf
<1>3. ps = SubSeq(Frame(m), 1, 3)
  BY <1>1 DEF Whole, Junk
<1>4. \A i \in 1..3 : SubSeq(Frame(m), 1, 3)[i] = [req |-> m, part |-> i]
  <2>1. 3 \in 1..3
    OBVIOUS
  <2> HIDE DEF m
  <2>. QED
    BY <1>2, <2>1, FrameParts
<1> HIDE DEF m
<1>5. \A i \in 1..3 : ps[i] = [req |-> m, part |-> i]
  BY <1>3, <1>4
<1>. QED
  BY <1>1, <1>2, <1>5 DEF m

-----------------------------------------------------------------------------
\* A new client.
LEMMA InitIInv == Init => IInv
<1> SUFFICES ASSUME Init PROVE IInv
  OBVIOUS
<1>1. TypeOK
  BY LinkAssumption DEF Init, TypeOK, NoFrame, NoAnswer
<1>2. Known /\ Rest /\ Joined /\ Aligned /\ Quiet
  BY DEF Init, Known, Rest, Joined, Aligned, Quiet, Begun, AtFrame, NoFrame
<1>3. Since(0)
  BY DEF Init, Since
<1>4. Ids
  BY <1>3 DEF Ids, Init
<1>5. OwnAnswer /\ Resynced
  BY DEF Init, OwnAnswer, Resynced, NoAnswer
<1>. QED
  BY <1>1, <1>2, <1>4, <1>5 DEF IInv

\* Opening hears nothing of an old connection.
LEMMA OpenKeeps == ASSUME IInv, Open PROVE IInv'
<1>0. buf = <<>> /\ buf' = <<>> /\ rx' = <<>> /\ n' = n /\ kind' = kind /\ sent' = sent
  BY DEF IInv, Rest, Open, NewSocket
<1>1. TypeOK'
  <2>1. /\ lastTxnId' \in 0..(IdSpace - 1)
        /\ last' \in [ask : 0..n', ans : 0..n']
    BY <1>0, LinkAssumption DEF IInv, TypeOK, Open, NoAnswer
  <2>2. /\ under' \in {NoFrame} \cup [req : 1..n', next : 1..3]
        /\ asked' \subseteq 1..n' /\ gaveUp' \in {"none", "between", "within"}
    BY <1>0 DEF IInv, TypeOK, Open, NewSocket
  <2>3. rx' \in Seq(Part) /\ Len(rx') <= MaxRx /\ buf' \in Seq(Part) /\ Len(buf') <= 2
    BY <1>0, LinkAssumption
  <2>4. pc' = "idle" /\ result' = "none" /\ left' = left
    BY DEF Open
  <2>. QED
    BY <1>0, <2>1, <2>2, <2>3, <2>4 DEF IInv, TypeOK
<1>2. Known' /\ Joined'
  BY <1>0 DEF Known, Joined
<1>3. Rest' /\ Aligned'
  BY <1>0 DEF IInv, Rest, Open, NewSocket, Aligned, Begun, AtFrame, Mbap, Datagram, Serial, NoFrame
<1>4. Ids'
  <2>1. PICK b \in 0..n : b = n
    BY DEF IInv, TypeOK
  <2>2. Mbap' => Since(b)'
    BY <1>0, <2>1 DEF IInv, TypeOK, Since, Open, NewSocket, Mbap, Serial
  <2>. QED
    BY <1>0, <2>1, <2>2 DEF Ids
<1>5. Quiet'
  BY <1>0 DEF IInv, Quiet, Open, NewSocket, Mbap, Datagram, Serial
<1>6. OwnAnswer' /\ Resynced'
  BY DEF Open, OwnAnswer, Resynced, NoAnswer
<1>. QED
  BY <1>1, <1>2, <1>3, <1>4, <1>5, <1>6 DEF IInv

\* Closing loses what has arrived.
LEMMA CloseKeeps == ASSUME IInv, Close PROVE IInv'
<1>0. /\ buf = <<>> /\ buf' = <<>> /\ rx' = <<>> /\ pc' = "closed" /\ pc # "wait"
      /\ UNCHANGED <<kind, n, sent, lastTxnId, asked, under, gaveUp, last>>
  BY DEF IInv, Rest, Close
<1>1. TypeOK'
  <2>1. /\ pc' \in {"closed", "idle", "wait", "broken"} /\ rx' \in Seq(Part)
        /\ Len(rx') <= MaxRx /\ UNCHANGED <<buf, left, result>>
    BY <1>0, LinkAssumption DEF Close
  <2>. QED
    BY <1>0, <2>1 DEF IInv, TypeOK
<1>2. Known' /\ Joined'
  BY <1>0 DEF Known, Joined
<1>3. Rest' /\ Aligned'
  BY <1>0 DEF IInv, Rest, Aligned, Datagram
<1>4. Ids'
  <2>1. ASSUME Mbap PROVE \E b \in 0..n : Since(b)'
    <3>1. PICK b \in 0..n : Since(b)
      BY <2>1 DEF IInv, Ids
    <3>2. Since(b)'
      BY <1>0, <3>1 DEF Since, Back
    <3>. QED
      BY <3>2
  <2>. QED
    BY <1>0, <2>1 DEF Ids, Mbap
<1>5. Quiet'
  BY <1>0 DEF IInv, Quiet, Mbap, Datagram
<1>6. OwnAnswer' /\ Resynced'
  BY <1>0 DEF IInv, OwnAnswer, Resynced, Mbap, Datagram
<1>. QED
  BY <1>1, <1>2, <1>3, <1>4, <1>5, <1>6 DEF IInv

\* The ids of the connection, counted from the next request.
LEMMA BackNext ==
  ASSUME TypeOK, lastTxnId' = NewTxnId, NEW d \in Nat, d + 1 < IdSpace
  PROVE  Back(d + 1)' = Back(d)
<1>1. /\ lastTxnId \in Nat /\ IdSpace \in Nat \ {0} /\ lastTxnId < IdSpace
      /\ lastTxnId' = IF lastTxnId + 1 < IdSpace THEN lastTxnId + 1 ELSE 0
  BY NextId, LinkAssumption DEF TypeOK, NewTxnId
<1>. QED
  BY <1>1 DEF Back

\* A request is sent while nothing is half read.
LEMMA ExecuteRequestKeeps ==
  ASSUME IInv, NEW form \in Forms, ExecuteRequest(form)
  PROVE  IInv'
<1>0. /\ buf = <<>> /\ buf' = <<>> /\ pc = "idle" /\ pc' = "wait" /\ n' = n + 1
      /\ n \in Nat /\ n < MaxReqs /\ UNCHANGED <<kind, under, rx, gaveUp, result, last>>
      /\ asked' = asked \cup {n + 1} /\ asked \subseteq 1..n
  BY LinkAssumption DEF IInv, TypeOK, Rest, ExecuteRequest
<1>1. /\ lastTxnId' \in 0..(IdSpace - 1)
      /\ Mbap => lastTxnId' = NewTxnId
  <2>1. NewTxnId \in 0..(IdSpace - 1)
    BY NextId, LinkAssumption DEF IInv, TypeOK, NewTxnId
  <2>. QED
    BY <2>1 DEF IInv, TypeOK, ExecuteRequest
<1>2. /\ sent' \in Seq(Wire) /\ Len(sent') = n + 1 /\ sent'[n + 1].id = lastTxnId'
      /\ \A m \in 1..n : sent'[m] = sent[m]
  <2>1. [form |-> form, id |-> lastTxnId'] \in Wire
    BY <1>1 DEF Wire
  <2>2. sent \in Seq(Wire) /\ Len(sent) = n
    BY DEF IInv, TypeOK
  <2>3. sent' = Append(sent, [form |-> form, id |-> lastTxnId'])
    BY DEF ExecuteRequest
  <2> DEFINE e == [form |-> form, id |-> lastTxnId']
  <2>4. e.id = lastTxnId'
    OBVIOUS
  <2> HIDE DEF e
  <2>. QED
    BY <2>1, <2>2, <2>3, <2>4, AppendProperties DEF e
<1>3. TypeOK'
  <2>1. left' \in 0..Timeout
    BY LinkAssumption DEF ExecuteRequest
  <2>2. /\ under' \in {NoFrame} \cup [req : 1..n', next : 1..3]
        /\ last' \in [ask : 0..n', ans : 0..n']
    BY <1>0 DEF IInv, TypeOK
  <2>3. n' \in 0..MaxReqs /\ asked' \subseteq 1..n'
    BY <1>0, LinkAssumption
  <2>4. buf' \in Seq(Part) /\ Len(buf') <= 2
    BY <1>0
  <2>. QED
    BY <1>0, <1>1, <1>2, <2>1, <2>2, <2>3, <2>4 DEF IInv, TypeOK
<1>4. Known' /\ Joined' /\ Rest'
  BY <1>0 DEF IInv, Known, Joined, Rest, Datagram
<1>5. Aligned'
  BY <1>0 DEF IInv, Aligned, Begun, AtFrame, Mbap
<1>6. Ids'
  <2>1. ASSUME Mbap PROVE \E b \in 0..n + 1 : Since(b)'
    <3>1. PICK b \in 0..n : Since(b)
      BY <2>1 DEF IInv, Ids
    <3>2. ASSUME NEW m \in 1..n + 1, m > b, NEW d \in Nat, d = n + 1 - m, d < IdSpace
          PROVE  sent'[m].id = IF d <= lastTxnId' THEN lastTxnId' - d
                               ELSE lastTxnId' + IdSpace - d
      <4>1. CASE m = n + 1
        <5>1. d = 0 /\ lastTxnId' \in Nat
          BY <1>0, <1>1, <3>2, <4>1, LinkAssumption
        <5>. QED
          BY <1>2, <4>1, <5>1
      <4>2. CASE m # n + 1
        <5>1. PICK e \in Nat : e = n - m
          BY <1>0, <4>2
        <5>2. m \in 1..n /\ d = e + 1 /\ e + 1 < IdSpace /\ e < IdSpace
          BY <1>0, <3>2, <4>2, <5>1, LinkAssumption
        <5>3. sent'[m].id = Back(e)
          BY <1>2, <3>1, <3>2, <5>1, <5>2 DEF Since
        <5>4. Back(e + 1)' = Back(e)
          BY <1>1, <2>1, <5>1, <5>2, BackNext DEF IInv
        <5>. QED
          BY <5>2, <5>3, <5>4 DEF Back
      <4>. QED
        BY <4>1, <4>2
    <3>3. /\ \A m \in asked' : m > b
          /\ under' # NoFrame => under'.req > b
          /\ \A i \in 1..Len(rx') : rx'[i].req > b
          /\ \A i \in 1..Len(buf') : buf'[i].req > b
      BY <1>0, <3>1 DEF Since
    <3>4. ASSUME NEW m \in 1..n', m > b, n' - m < IdSpace
          PROVE  sent'[m].id = Back(n - m)'
      <4>1. n' - m \in Nat /\ n' - m = n + 1 - m /\ m \in 1..n + 1
        BY <1>0
      <4>. QED
        BY <1>0, <3>2, <3>4, <4>1 DEF Back
    <3>5. Since(b)'
      BY <3>3, <3>4 DEF Since
    <3>. QED
      BY <1>0, <3>5
  <2>. QED
    BY <1>0, <2>1 DEF Ids, Mbap
<1>7. Quiet'
  BY <1>0 DEF IInv, Quiet, Mbap, Datagram
<1>8. OwnAnswer' /\ Resynced'
  BY <1>0 DEF IInv, OwnAnswer, Resynced, Mbap, Datagram
<1>. QED
  BY <1>3, <1>4, <1>5, <1>6, <1>7, <1>8 DEF IInv

-----------------------------------------------------------------------------
\* Something of request m is under way.
Pending(m) ==
  \/ m \in asked
  \/ under # NoFrame /\ m = under.req
  \/ \E i \in 1..Len(rx) : m = rx[i].req
  \/ \E i \in 1..Len(buf) : m = buf[i].req

\* The ids stay what they are when nothing new is under way.
LEMMA IdsKept ==
  ASSUME IInv, UNCHANGED <<kind, n, sent, lastTxnId>>, asked' \subseteq asked,
         under' # NoFrame => Pending(under'.req),
         \A i \in 1..Len(rx') : Pending(rx'[i].req),
         \A i \in 1..Len(buf') : Pending(buf'[i].req)
  PROVE  Ids'
<1>1. ASSUME Mbap PROVE \E b \in 0..n : Since(b)'
  <2>1. PICK b \in 0..n : Since(b)
    BY <1>1 DEF IInv, Ids
  <2>2. /\ \A m \in asked' : m > b
        /\ under' # NoFrame => under'.req > b
    BY <2>1 DEF Since, Pending
  <2>3. \A i \in 1..Len(rx') : rx'[i].req > b
    BY <2>1 DEF Since, Pending
  <2>4. \A i \in 1..Len(buf') : buf'[i].req > b
    BY <2>1 DEF Since, Pending
  <2>5. \A m \in 1..n' : m > b /\ n' - m < IdSpace => sent'[m].id = Back(n - m)'
    BY <2>1 DEF Since, Back
  <2>6. Since(b)'
    BY <2>2, <2>3, <2>4, <2>5 DEF Since
  <2>. QED
    BY <2>6
<1>. QED
  BY <1>1 DEF Ids, Mbap

\* Time passes.
LEMMA TickKeeps == ASSUME IInv, Tick PROVE IInv'
<1>0. UNCHANGED <<kind, pc, n, sent, lastTxnId, asked, under, rx, buf, gaveUp, result, last>>
  BY DEF Tick, device
<1>1. TypeOK'
  <2>1. left' \in 0..Timeout
    BY LinkAssumption DEF IInv, TypeOK, Tick
  <2>. QED
    BY <1>0, <2>1 DEF IInv, TypeOK
<1>2. Known' /\ Joined' /\ Rest' /\ Aligned' /\ Quiet'
  BY <1>0 DEF IInv, Known, Joined, Rest, Aligned, Quiet, Underway, Begun, AtFrame, Mbap, Datagram
<1>3. Ids'
  BY <1>0, IdsKept DEF Pending
<1>4. OwnAnswer' /\ Resynced'
  BY <1>0 DEF IInv, OwnAnswer, Resynced, Mbap, Datagram, Serial
<1>. QED
  BY <1>1, <1>2, <1>3, <1>4 DEF IInv

\* A broken connection delivers nothing any more.
LEMMA BreakKeeps == ASSUME IInv, Break PROVE IInv'
<1>0. /\ buf' = <<>> /\ rx' = <<>> /\ asked' = {} /\ under' = NoFrame /\ pc' = "broken"
      /\ UNCHANGED <<kind, n, sent, lastTxnId, left, gaveUp, last>>
      /\ kind \in {"tcp", "rtuovertcp"} /\ result' = "error"
  BY DEF Break
<1>1. TypeOK'
  <2>1. /\ rx' \in Seq(Part) /\ Len(rx') <= MaxRx /\ buf' \in Seq(Part) /\ Len(buf') <= 2
    BY <1>0, LinkAssumption
  <2>. QED
    BY <1>0, <2>1 DEF IInv, TypeOK
<1>2. Known' /\ Joined' /\ Rest' /\ Aligned' /\ Quiet'
  BY <1>0 DEF Known, Joined, Rest, Aligned, Quiet, Begun, AtFrame, Mbap, Datagram, NoFrame
<1>3. Ids'
  BY <1>0, IdsKept DEF Pending
<1>4. OwnAnswer' /\ Resynced'
  BY <1>0 DEF IInv, OwnAnswer, Resynced, Mbap, Datagram, Serial
<1>. QED
  BY <1>1, <1>2, <1>3, <1>4 DEF IInv

\* A read fails, at the deadline or with an error of the port.
LEMMA GiveUpKeeps ==
  ASSUME IInv, NEW how \in {"timeout", "io"}, GiveUp(how)
  PROVE  IInv'
<1>0. /\ buf' = <<>> /\ pc = "wait" /\ pc' = "idle" /\ gaveUp' # "none"
      /\ gaveUp' # "within" => buf = <<>> /\ gaveUp # "within"
      /\ UNCHANGED <<kind, n, sent, lastTxnId, asked, left, last>>
      /\ gaveUp' \in {"between", "within"} /\ result' \in {"error", "timeout", "io"}
  BY DEF GiveUp, Fail
<1>1. \/ rx' = rx /\ under' = under /\ result' = how
      \/ /\ rx' = <<>> /\ under' = IF Serial THEN NoFrame ELSE under
         /\ result' = "error" /\ ~Mbap
  BY DEF GiveUp, Fail, Flush
<1>2. TypeOK'
  <2>1. rx' \in Seq(Part) /\ Len(rx') <= MaxRx
    <3>1. CASE rx' = rx
      BY <3>1 DEF IInv, TypeOK
    <3>2. CASE rx' = <<>>
      BY <3>2, LinkAssumption
    <3>. QED
      BY <1>1, <3>1, <3>2
  <2>2. buf' \in Seq(Part) /\ Len(buf') <= 2
    BY <1>0
  <2>3. under' \in {NoFrame} \cup [req : 1..n, next : 1..3]
    BY <1>1 DEF IInv, TypeOK
  <2>. QED
    BY <1>0, <2>1, <2>2, <2>3 DEF IInv, TypeOK
<1>3. Known' /\ Joined'
  BY <1>0, <1>1 DEF IInv, Known, Joined
<1>4. Rest' /\ Aligned'
  BY <1>0, <1>1 DEF IInv, Rest, Aligned, Begun, AtFrame, Mbap, Datagram
<1>5. Ids'
  BY <1>0, <1>1, IdsKept DEF Pending
<1>6. Quiet'
  BY <1>0 DEF Quiet
<1>7. OwnAnswer'
  BY <1>0 DEF IInv, OwnAnswer, Mbap, Datagram
<1>8. Resynced'
  BY <1>0, <1>1 DEF Resynced, Serial, NoFrame
<1>. QED
  BY <1>2, <1>3, <1>4, <1>5, <1>6, <1>7, <1>8 DEF IInv

-----------------------------------------------------------------------------
\* A datagram brings one more whole frame.
LEMMA ArriveKeeps ==
  ASSUME IInv, NEW m \in Requests, Arrive(m),
         UNCHANGED <<kind, pc, n, sent, lastTxnId, buf, left, gaveUp, result, last>>
  PROVE  IInv'
<1>0. /\ Datagram /\ m \in asked /\ asked' \subseteq asked /\ under' = NoFrame /\ under = NoFrame
      /\ Len(rx) + 3 <= MaxRx /\ rx' = rx \o Frame(m) /\ rx \in Seq(Part) /\ m \in 1..n
  BY DEF IInv, TypeOK, Rest, Arrive, Due, Deliver
<1>1. /\ Frame(m) \in Seq(Part) /\ Len(Frame(m)) = 3
      /\ \A i \in 1..3 : Frame(m)[i] = [req |-> m, part |-> i]
  BY DEF Frame, Part
<1>2. /\ rx' \in Seq(Part) /\ Len(rx') = Len(rx) + 3 /\ Len(rx) \in Nat
      /\ \A i \in 1..Len(rx) : rx'[i] = rx[i]
      /\ rx'[Len(rx) + 1] = [req |-> m, part |-> 1]
      /\ rx'[Len(rx) + 2] = [req |-> m, part |-> 2]
      /\ rx'[Len(rx) + 3] = [req |-> m, part |-> 3]
  <2> DEFINE f == Frame(m)
  <2> HIDE DEF f
  <2>1. f \in Seq(Part) /\ Len(f) = 3
    BY <1>1 DEF f
  <2>2. f[1] = [req |-> m, part |-> 1] /\ f[2] = [req |-> m, part |-> 2]
        /\ f[3] = [req |-> m, part |-> 3]
    BY <1>1 DEF f
  <2>3. rx' = rx \o f /\ rx \in Seq(Part)
    BY <1>0 DEF f
  <2>4. /\ rx' \in Seq(Part) /\ Len(rx') = Len(rx) + 3 /\ Len(rx) \in Nat
        /\ \A i \in 1..Len(rx) + 3 : rx'[i] = IF i <= Len(rx) THEN rx[i] ELSE f[i - Len(rx)]
    <3>1. /\ rx \o f \in Seq(Part) /\ Len(rx \o f) = Len(rx) + Len(f) /\ Len(rx) \in Nat
          /\ \A i \in 1..Len(rx) + Len(f) :
               (rx \o f)[i] = IF i <= Len(rx) THEN rx[i] ELSE f[i - Len(rx)]
      BY <2>1, <2>3, ConcatProperties, LenProperties
    <3>. QED
      BY <2>1, <2>3, <3>1
  <2>. QED
    BY <2>2, <2>4
<1>3. TypeOK'
  BY <1>0, <1>2 DEF IInv, TypeOK
<1>4. Known' /\ Rest'
  <2>1. ASSUME NEW i \in 1..Len(rx') PROVE rx'[i].req \in 1..n
    <3>1. i \in 1..Len(rx) \/ i \in {Len(rx) + 1, Len(rx) + 2, Len(rx) + 3}
      BY <1>2
    <3>. QED
      BY <1>0, <1>2, <3>1 DEF IInv, Known
  <2>. QED
    <3>1. Known'
      BY <2>1 DEF IInv, Known
    <3>2. Rest'
      BY <1>0, <1>2 DEF IInv, Rest, Arrive, Datagram
    <3>. QED
      BY <3>1, <3>2
<1>5. Joined'
  <2>1. ASSUME rx # <<>> PROVE After(rx[Len(rx)]) = NoFrame
    BY <1>0, <2>1 DEF IInv, Joined, Meets
  <2>2. ASSUME NEW i \in 1..Len(rx') - 1 PROVE Fits(After(rx'[i]), rx'[i + 1])
    <3>1. CASE i < Len(rx)
      <4>1. i \in 1..Len(rx) - 1 /\ i + 1 \in 1..Len(rx) /\ i \in 1..Len(rx)
        BY <1>2, <3>1
      <4>2. Fits(After(rx[i]), rx[i + 1])
        BY <4>1 DEF IInv, Joined
      <4>. QED
        BY <1>2, <4>1, <4>2
    <3>2. CASE i = Len(rx)
      BY <1>2, <2>1, <3>2 DEF Fits
    <3>3. CASE i \in {Len(rx) + 1, Len(rx) + 2}
      BY <1>2, <3>3 DEF Fits, After, NoFrame
    <3>. QED
      BY <1>2, <3>1, <3>2, <3>3
  <2>3. rx' # <<>> /\ Meets(After(rx'[Len(rx')]), under')
    BY <1>0, <1>2 DEF Meets, After, NoFrame
  <2>4. buf # <<>> => Fits(After(buf[Len(buf)]), rx'[1])
    <3>1. CASE rx = <<>>
      BY <1>0, <1>2, <3>1 DEF IInv, Joined, Meets, Fits
    <3>2. CASE rx # <<>>
      <4>1. rx'[1] = rx[1]
        BY <1>0, <1>2, <3>2, EmptySeq
      <4>. QED
        BY <3>2, <4>1 DEF IInv, Joined
    <3>. QED
      BY <3>1, <3>2
  <2>. QED
    BY <2>2, <2>3, <2>4 DEF Joined
<1>6. Aligned'
  <2>1. rx' # <<>>
    BY <1>2
  <2>2. rx = <<>> \/ rx'[1] = rx[1]
    BY <1>0, <1>2, EmptySeq
  <2>3. rx = <<>> => rx'[1].part = 1
    BY <1>0, <1>2
  <2>. QED
    BY <2>1, <2>2, <2>3 DEF IInv, Aligned, Mbap, Begun, AtFrame
<1>7. Ids'
  <2>1. ASSUME NEW i \in 1..Len(rx')
        PROVE  Pending(rx'[i].req)
    <3>1. i \in 1..Len(rx) \/ i \in {Len(rx) + 1, Len(rx) + 2, Len(rx) + 3}
      BY <1>2
    <3>. QED
      <4>1. CASE i \in 1..Len(rx)
        <5>1. rx'[i].req = rx[i].req
          BY <1>2, <4>1
        <5>. QED
          BY <4>1, <5>1 DEF Pending
      <4>2. CASE i \in {Len(rx) + 1, Len(rx) + 2, Len(rx) + 3}
        <5>1. rx'[i].req = m
          BY <1>2, <4>2
        <5>2. Pending(m)
          BY <1>0 DEF Pending
        <5>. QED
          BY <5>1, <5>2
      <4>. QED
        BY <3>1, <4>1, <4>2
  <2>2. \A i \in 1..Len(buf') : Pending(buf'[i].req)
    BY DEF Pending
  <2>. QED
    BY <1>0, <2>1, <2>2, IdsKept
<1>8. Quiet' /\ OwnAnswer' /\ Resynced'
  BY <1>0 DEF IInv, Quiet, OwnAnswer, Resynced, Mbap, Datagram, Serial
<1>. QED
  BY <1>3, <1>4, <1>5, <1>6, <1>7, <1>8 DEF IInv

\* The device begins an answer.
LEMMA AnswerKeeps ==
  ASSUME IInv, NEW m \in Requests, Answer(m),
         UNCHANGED <<kind, pc, n, sent, lastTxnId, buf, left, gaveUp, result, last>>
  PROVE  IInv'
<1>0. /\ ~Datagram /\ m \in asked /\ asked' = asked \ {m} /\ under = NoFrame
      /\ under' = [req |-> m, next |-> 1] /\ rx' = rx /\ m \in 1..n
  BY DEF IInv, TypeOK, Answer, Due
<1>1. TypeOK'
  <2>1. under' \in {NoFrame} \cup [req : 1..n, next : 1..3] /\ asked' \subseteq 1..n
    BY <1>0 DEF IInv, TypeOK
  <2>. QED
    BY <1>0, <2>1 DEF IInv, TypeOK
<1>2. Known' /\ Rest' /\ Joined' /\ Aligned'
  BY <1>0 DEF IInv, Known, Rest, Joined, Aligned, Begun, AtFrame, Meets, Mbap, Datagram
<1>3. Ids'
  <2>1. asked' \subseteq asked /\ Pending(under'.req)
    <3>1. under'.req = m
      BY <1>0
    <3>2. Pending(m)
      BY <1>0 DEF Pending
    <3>. QED
      BY <1>0, <3>1, <3>2
  <2>2. \A i \in 1..Len(rx') : Pending(rx'[i].req)
    BY <1>0 DEF Pending
  <2>3. \A i \in 1..Len(buf') : Pending(buf'[i].req)
    BY DEF Pending
  <2>. QED
    BY <2>1, <2>2, <2>3, IdsKept
<1>4. Quiet'
  <2> SUFFICES ASSUME ~Mbap, gaveUp = "none"
               PROVE  pc = "wait" /\ Underway'
    BY <1>0 DEF Quiet, Mbap
  <2>1. pc = "wait" /\ asked \subseteq {n} /\ rx = <<>> /\ buf = <<>>
    BY <1>0 DEF IInv, Quiet, Underway
  <2>2. m = n /\ asked' = {} /\ Len(rx) = 0 /\ Len(buf) = 0
    BY <1>0, <2>1
  <2>. QED
    BY <1>0, <2>1, <2>2 DEF Underway
<1>5. OwnAnswer' /\ Resynced'
  BY <1>0 DEF IInv, OwnAnswer, Resynced, Mbap, Datagram, Serial
<1>. QED
  BY <1>1, <1>2, <1>3, <1>4, <1>5 DEF IInv

\* A request or its answer is lost.
LEMMA LoseKeeps ==
  ASSUME IInv, NEW m \in Requests, Lose(m),
         UNCHANGED <<kind, pc, n, sent, lastTxnId, buf, left, gaveUp, result, last>>
  PROVE  IInv'
<1>0. asked' = asked \ {m} /\ UNCHANGED <<under, rx>>
  BY DEF Lose
<1>1. TypeOK'
  BY <1>0 DEF IInv, TypeOK
<1>2. Known' /\ Rest' /\ Joined' /\ Aligned' /\ Quiet'
  BY <1>0 DEF IInv, Known, Rest, Joined, Aligned, Begun, AtFrame, Quiet, Underway, Mbap, Datagram
<1>3. Ids'
  BY <1>0, IdsKept DEF Pending
<1>4. OwnAnswer' /\ Resynced'
  BY <1>0 DEF IInv, OwnAnswer, Resynced, Mbap, Datagram, Serial
<1>. QED
  BY <1>1, <1>2, <1>3, <1>4 DEF IInv

\* A closed port loses the next part of a stream.
LEMMA LostPartKeeps ==
  ASSUME IInv, Continue, pc = "closed",
         UNCHANGED <<kind, pc, n, sent, lastTxnId, buf, left, gaveUp, result, last>>
  PROVE  IInv'
<1>0. /\ under # NoFrame /\ asked' = asked /\ rx' = rx /\ rx = <<>> /\ buf = <<>>
      /\ under' = IF under.next = 3 THEN NoFrame ELSE [under EXCEPT !.next = @ + 1]
  BY DEF IInv, Rest, Continue, Deliver
<1>1. /\ under \in [req : 1..n, next : 1..3]
      /\ under' \in {NoFrame} \cup [req : 1..n, next : 1..3]
      /\ under' # NoFrame => under'.req = under.req
  BY <1>0 DEF IInv, TypeOK
<1>2. TypeOK'
  BY <1>0, <1>1 DEF IInv, TypeOK
<1>3. Known' /\ Joined' /\ Aligned'
  BY <1>0 DEF IInv, Known, Joined, Aligned
<1>4. Rest' /\ Quiet'
  BY <1>0 DEF IInv, Rest, Quiet, Mbap, Datagram
<1>5. Ids'
  BY <1>0, <1>1, IdsKept DEF Pending
<1>6. OwnAnswer' /\ Resynced'
  BY DEF IInv, OwnAnswer, Resynced, Mbap, Datagram, Serial
<1>. QED
  BY <1>2, <1>3, <1>4, <1>5, <1>6 DEF IInv

\* An open port gets the next part of a stream.
LEMMA ContinueKeeps ==
  ASSUME IInv, Continue, pc # "closed",
         UNCHANGED <<kind, pc, n, sent, lastTxnId, buf, left, gaveUp, result, last>>
  PROVE  IInv'
<1> DEFINE p == [req |-> under.req, part |-> under.next]
<1>0. /\ under # NoFrame /\ ~Datagram /\ asked' = asked /\ rx' = rx \o <<p>> /\ Len(rx) < MaxRx
      /\ under' = IF under.next = 3 THEN NoFrame ELSE [under EXCEPT !.next = @ + 1]
  BY DEF IInv, Rest, Continue, Deliver
<1>1. /\ under \in [req : 1..n, next : 1..3] /\ n \in 0..MaxReqs
      /\ rx \in Seq(Part) /\ Len(rx) \in Nat /\ buf \in Seq(Part) /\ Len(buf) \in Nat
  BY <1>0 DEF IInv, TypeOK
<1>2. p \in Part /\ p.req = under.req /\ p.part = under.next /\ under.req \in 1..n /\ under.next \in 1..3
  BY <1>1, LinkAssumption DEF Part, Requests
<1>3. under' = After(p)
  BY <1>0, <1>1, <1>2 DEF After
<1> HIDE DEF p
<1>4. /\ rx' \in Seq(Part) /\ Len(rx') = Len(rx) + 1 /\ rx' # <<>>
      /\ \A i \in 1..Len(rx) : rx'[i] = rx[i]
      /\ rx'[Len(rx) + 1] = p
  <2>1. rx' = Append(rx, p)
    BY <1>0, <1>1, <1>2
  <2>. QED
    BY <1>1, <1>2, <2>1, AppendProperties
<1>5. rx # <<>> => rx'[1] = rx[1] /\ Len(rx) \in 1..Len(rx)
  BY <1>1, <1>4, EmptySeq
<1>6. rx = <<>> => rx'[1] = p
  BY <1>4
<1>7. TypeOK'
  <2>1. under' \in {NoFrame} \cup [req : 1..n, next : 1..3]
    BY <1>2, <1>3 DEF After
  <2>. QED
    BY <1>0, <1>1, <1>4, <2>1, LinkAssumption DEF IInv, TypeOK
<1>8. Known' /\ Rest'
  <2>1. ASSUME NEW i \in 1..Len(rx') PROVE rx'[i].req \in 1..n
    <3>1. i \in 1..Len(rx) \/ i = Len(rx) + 1
      BY <1>1, <1>4
    <3>. QED
      BY <1>2, <1>4, <3>1 DEF IInv, Known
  <2>2. Known'
    BY <2>1 DEF IInv, Known
  <2>. QED
    BY <1>0, <2>2 DEF IInv, Rest, Datagram
<1>9. ASSUME NEW e, Meets(e, under) PROVE Fits(e, p)
  BY <1>0, <1>1, <1>2, <1>9 DEF Meets, Fits
<1>10. Joined'
  <2>1. ASSUME NEW i \in 1..Len(rx') - 1 PROVE Fits(After(rx'[i]), rx'[i + 1])
    <3>1. CASE i < Len(rx)
      <4>1. i \in 1..Len(rx) - 1 /\ i + 1 \in 1..Len(rx) /\ i \in 1..Len(rx)
        BY <1>1, <3>1
      <4>2. Fits(After(rx[i]), rx[i + 1])
        BY <4>1 DEF IInv, Joined
      <4>. QED
        BY <1>4, <4>1, <4>2
    <3>2. CASE i = Len(rx)
      <4>1. rx # <<>> /\ i \in 1..Len(rx) /\ rx'[i] = rx[i]
        BY <1>1, <1>4, <3>2
      <4>2. Fits(After(rx[i]), p)
        BY <1>9, <3>2, <4>1 DEF IInv, Joined
      <4>. QED
        BY <1>4, <3>2, <4>1, <4>2
    <3>. QED
      BY <1>1, <1>4, <3>1, <3>2
  <2>2. buf # <<>> => Fits(After(buf[Len(buf)]), rx'[1])
    BY <1>5, <1>6, <1>9 DEF IInv, Joined
  <2>3. Meets(After(rx'[Len(rx')]), under')
    BY <1>3, <1>4 DEF Meets, NoFrame
  <2>. QED
    BY <1>4, <2>1, <2>2, <2>3 DEF Joined
<1>11. AtFrame => AtFrame'
  BY <1>2, <1>4, <1>5, <1>6 DEF AtFrame
<1>12. Aligned'
  BY <1>11 DEF IInv, Aligned, Begun, Mbap
<1>13. Ids'
  <2>1. Pending(p.req)
    BY <1>0, <1>2 DEF Pending
  <2>2. ASSUME NEW i \in 1..Len(rx') PROVE Pending(rx'[i].req)
    <3>1. CASE i \in 1..Len(rx)
      <4>1. rx'[i].req = rx[i].req
        BY <1>4, <3>1
      <4>2. Pending(rx[i].req)
        BY <3>1 DEF Pending
      <4>. QED
        BY <4>1, <4>2
    <3>2. CASE i = Len(rx) + 1
      BY <1>4, <2>1, <3>2
    <3>. QED
      BY <1>1, <1>4, <3>1, <3>2
  <2>3. \A i \in 1..Len(buf') : Pending(buf'[i].req)
    BY DEF Pending
  <2>4. under' # NoFrame => Pending(under'.req)
    BY <1>3, <2>1 DEF After
  <2>. QED
    BY <1>0, <2>2, <2>3, <2>4, IdsKept
<1>14. Quiet'
  <2> SUFFICES ASSUME ~Mbap, gaveUp = "none" PROVE pc = "wait" /\ Underway'
    BY DEF Quiet, Mbap
  <2>1. pc = "wait" /\ Underway
    BY <1>0 DEF IInv, Quiet
  <2>2. /\ Len(buf) + Len(rx) \in 0..2 /\ asked' = {}
        /\ under.req = n /\ under.next = Len(buf) + Len(rx) + 1
    BY <1>0, <1>1, <2>1 DEF Underway
  <2>3. p = [req |-> n, part |-> Len(buf) + Len(rx) + 1]
    BY <2>2 DEF p
  <2>4. ASSUME NEW i \in 1..Len(rx') PROVE rx'[i] = [req |-> n, part |-> Len(buf) + i]
    <3>1. CASE i \in 1..Len(rx)
      BY <1>4, <2>1, <3>1 DEF Underway
    <3>2. CASE i = Len(rx) + 1
      BY <1>1, <1>4, <2>3, <3>2
    <3>. QED
      BY <1>1, <1>4, <3>1, <3>2
  <2>5. under' = IF Len(buf) + Len(rx') = 3 THEN NoFrame
                 ELSE [req |-> n, next |-> Len(buf) + Len(rx') + 1]
    BY <1>1, <1>3, <1>4, <2>2, <2>3 DEF After
  <2>. QED
    BY <1>1, <1>4, <2>1, <2>2, <2>4, <2>5 DEF Underway
<1>15. OwnAnswer' /\ Resynced'
  <2>1. Resynced <=> (Serial /\ pc = "idle" /\ result \in {"ok", "error"} => AtFrame)
    BY DEF Resynced, AtFrame
  <2>2. Resynced' <=> (Serial /\ pc = "idle" /\ result \in {"ok", "error"} => AtFrame')
    BY DEF Resynced, AtFrame, Serial
  <2>. QED
    BY <1>11, <2>1, <2>2 DEF IInv, OwnAnswer, Mbap, Datagram
<1>. QED
  BY <1>7, <1>8, <1>10, <1>12, <1>13, <1>14, <1>15 DEF IInv

-----------------------------------------------------------------------------
(***************************************************************************)
(* Reading moves the first part of rx to the end of buf.                   *)
(***************************************************************************)
Got == Append(buf, Head(rx))

\* What that is.
LEMMA ReadFacts ==
  ASSUME TypeOK, rx # <<>>
  PROVE  /\ Got \in Seq(Part) /\ Len(Got) = Len(buf) + 1 /\ Got # <<>>
         /\ \A i \in 1..Len(buf) : Got[i] = buf[i]
         /\ Got[Len(buf) + 1] = rx[1] /\ rx[1] \in Part
         /\ Tail(rx) \in Seq(Part) /\ Len(Tail(rx)) = Len(rx) - 1
         /\ \A i \in 1..Len(rx) - 1 : Tail(rx)[i] = rx[i + 1]
         /\ Len(rx) \in Nat \ {0} /\ Len(buf) \in 0..2 /\ buf \in Seq(Part)
<1>1. /\ rx \in Seq(Part) /\ buf \in Seq(Part) /\ Len(rx) \in Nat \ {0}
      /\ Len(buf) \in Nat /\ Len(buf) <= 2
  BY EmptySeq, LenProperties DEF TypeOK
<1>2. Head(rx) = rx[1] /\ rx[1] \in Part
  BY <1>1, ElementOfSeq
<1>3. /\ Got \in Seq(Part) /\ Len(Got) = Len(buf) + 1 /\ Got # <<>>
      /\ \A i \in 1..Len(buf) : Got[i] = buf[i]
      /\ Got[Len(buf) + 1] = rx[1]
  BY <1>1, <1>2, AppendProperties DEF Got
<1>4. /\ Tail(rx) \in Seq(Part) /\ Len(Tail(rx)) = Len(rx) - 1
      /\ \A i \in 1..Len(rx) - 1 : Tail(rx)[i] = rx[i + 1]
  BY <1>1, HeadTailProperties
<1>5. Len(buf) \in 0..2
  <2> DEFINE k == Len(buf)
  <2>1. k \in Nat /\ k <= 2
    BY <1>1
  <2> HIDE DEF k
  <2>2. k \in 0..2
    BY <2>1
  <2>. QED
    BY <2>2 DEF k
<1>. QED
  BY <1>1, <1>2, <1>3, <1>4, <1>5

\* When three parts are read, two were.
LEMMA ThirdPart ==
  ASSUME TypeOK, rx # <<>>, Len(Got) = 3
  PROVE  Len(buf) = 2
<1> DEFINE j == Len(buf)
           l == Len(Got)
<1>1. l = j + 1 /\ j \in 0..2 /\ l = 3
  BY ReadFacts
<1> HIDE DEF j, l
<1>2. j = 2
  BY <1>1
<1>. QED
  BY <1>2 DEF j

\* No more than a frame is read.
LEMMA GotShort ==
  ASSUME TypeOK, rx # <<>>
  PROVE  Got \in Seq(Part) /\ Len(Got) <= 3
<1> DEFINE j == Len(buf)
           l == Len(Got)
<1>1. Got \in Seq(Part) /\ l = j + 1 /\ j \in 0..2
  BY ReadFacts
<1> HIDE DEF j, l
<1>2. l <= 3
  BY <1>1
<1>. QED
  BY <1>1, <1>2 DEF l

\* What is left to read remains one run.
LEMMA TailJoined ==
  ASSUME TypeOK, Joined, rx # <<>>
  PROVE  /\ \A i \in 1..Len(Tail(rx)) - 1 : Fits(After(Tail(rx)[i]), Tail(rx)[i + 1])
         /\ Tail(rx) # <<>> => Fits(After(rx[1]), Tail(rx)[1])
         /\ Tail(rx) # <<>> => Meets(After(Tail(rx)[Len(Tail(rx))]), under)
         /\ Tail(rx) = <<>> => Meets(After(rx[1]), under)
<1>1. ASSUME NEW i \in 1..Len(Tail(rx)) - 1
      PROVE  Fits(After(Tail(rx)[i]), Tail(rx)[i + 1])
  <2>1. /\ i \in 1..Len(rx) - 1 /\ i + 1 \in 1..Len(rx) - 1
        /\ Tail(rx)[i] = rx[i + 1] /\ Tail(rx)[i + 1] = rx[i + 1 + 1]
    BY ReadFacts
  <2>. QED
    BY <2>1 DEF Joined
<1>2. ASSUME Tail(rx) # <<>>
      PROVE  /\ Fits(After(rx[1]), Tail(rx)[1])
             /\ Meets(After(Tail(rx)[Len(Tail(rx))]), under)
  <2>1. Len(Tail(rx)) \in Nat \ {0} /\ Len(Tail(rx)) = Len(rx) - 1
    BY <1>2, ReadFacts, EmptySeq
  <2>2. /\ 1 \in 1..Len(rx) - 1 /\ Tail(rx)[1] = rx[1 + 1]
        /\ Tail(rx)[Len(Tail(rx))] = rx[Len(rx)]
    BY <2>1, ReadFacts
  <2>. QED
    BY <2>2 DEF Joined
<1>3. ASSUME Tail(rx) = <<>> PROVE Meets(After(rx[1]), under)
  <2>1. Len(Tail(rx)) = 0
    BY <1>3, EmptySeq
  <2>2. Len(rx) = 1
    BY <2>1, ReadFacts
  <2>. QED
    BY <2>2 DEF Joined
<1>. QED
  BY <1>1, <1>2, <1>3

\* A reader that is at the beginning of a frame, or within one, stays there.
LEMMA BegunGrows ==
  ASSUME TypeOK, Joined, rx # <<>>, Begun(buf), buf = <<>> => AtFrame
  PROVE  Begun(Got)
<1>1. CASE buf = <<>>
  <2>1. Len(Got) = 1 /\ Got[1] = rx[1] /\ rx[1].part = 1
    BY <1>1, ReadFacts DEF AtFrame
  <2>. QED
    BY <2>1 DEF Begun
<1>2. CASE buf # <<>>
  <2>1. Len(buf) \in 1..2 /\ 1 \in 1..Len(buf)
    BY <1>2, ReadFacts, EmptySeq
  <2>2. /\ buf[Len(buf)].part = Len(buf) /\ buf[Len(buf)].req = buf[1].req
        /\ \A i \in 1..Len(buf) : buf[i].part = i /\ buf[i].req = buf[1].req
    BY <2>1 DEF Begun
  <2>3. After(buf[Len(buf)]) = [req |-> buf[1].req, next |-> Len(buf) + 1]
    <3> DEFINE k == Len(buf)
               p == buf[k]
               q == buf[1].req
    <3>1. k \in 1..2 /\ p.part = k /\ p.req = q
      BY <2>1, <2>2
    <3> HIDE DEF k, p, q
    <3>2. After(p) = [req |-> q, next |-> k + 1]
      <4>1. p.part # 3
        BY <3>1
      <4>2. After(p) = [req |-> p.req, next |-> p.part + 1]
        BY <4>1 DEF After
      <4>. QED
        BY <3>1, <4>2
    <3>. QED
      BY <3>2 DEF k, p, q
  <2>4. After(buf[Len(buf)]) # NoFrame
    BY <2>1, <2>3 DEF NoFrame
  <2>5. rx[1].req = buf[1].req /\ rx[1].part = Len(buf) + 1
    BY <1>2, <2>3, <2>4 DEF Joined, Fits
  <2>6. ASSUME NEW i \in 1..Len(Got)
        PROVE  Got[i].part = i /\ Got[i].req = Got[1].req
    <3>1. i \in 1..Len(buf) \/ i = Len(buf) + 1
      BY <2>1, ReadFacts
    <3>2. Got[1] = buf[1]
      BY <2>1, ReadFacts
    <3>3. CASE i \in 1..Len(buf)
      BY <2>2, <3>2, <3>3, ReadFacts
    <3>4. CASE i = Len(buf) + 1
      BY <2>5, <3>2, <3>4, ReadFacts
    <3>. QED
      BY <3>1, <3>3, <3>4
  <2>. QED
    BY <2>6 DEF Begun
<1>. QED
  BY <1>1, <1>2

\* After a whole frame the reader is at the beginning of the next.
LEMMA AfterWhole ==
  ASSUME TypeOK, Joined, rx # <<>>, Whole(Got), rx' = Tail(rx), under' = under
  PROVE  AtFrame'
<1>1. Len(buf) = 2 /\ rx[1].part = 3
  <2>1. Got \in Seq(Part) /\ Len(Got) = Len(buf) + 1 /\ Len(buf) \in 0..2
    BY ReadFacts
  <2>2. Len(Got) = 3 /\ \A i \in 1..3 : Got[i] = [req |-> Got[1].req, part |-> i]
    BY <2>1, WholeParts
  <2>3. Got[3].part = 3
    <3>1. 3 \in 1..3
      OBVIOUS
    <3>2. Got[3] = [req |-> Got[1].req, part |-> 3]
      BY <2>2, <3>1
    <3>. QED
      BY <3>2
  <2>4. Len(buf) = 2
    BY <2>2, ThirdPart
  <2>. QED
    BY <2>3, <2>4, ReadFacts
<1>2. After(rx[1]) = NoFrame
  BY <1>1 DEF After
<1>. QED
  BY <1>2, TailJoined DEF AtFrame, Fits, Meets

\* An RTU stream on which nothing was given up holds the current answer only.
LEMMA QuietRead ==
  ASSUME IInv, pc = "wait", rx # <<>>, ~Mbap, ~Datagram, gaveUp = "none"
  PROVE  /\ Underway /\ Begun(Got) /\ Got[1].req = n
         /\ Len(Got) = 3 => Tail(rx) = <<>> /\ under = NoFrame
<1>1. Underway
  BY DEF IInv, Quiet
<1>2. TypeOK /\ Len(buf) \in 0..2 /\ Len(rx) \in Nat \ {0} /\ Len(Got) = Len(buf) + 1
  BY ReadFacts DEF IInv
<1>3. rx[1] = [req |-> n, part |-> Len(buf) + 1]
  BY <1>1, <1>2 DEF Underway
<1>4. ASSUME NEW i \in 1..Len(Got) PROVE Got[i] = [req |-> n, part |-> i]
  <2>1. CASE i \in 1..Len(buf)
    BY <1>1, <1>2, <2>1, ReadFacts DEF Underway
  <2>2. CASE i = Len(buf) + 1
    BY <1>2, <1>3, <2>2, ReadFacts
  <2>. QED
    BY <1>2, <2>1, <2>2
<1>5. 1 \in 1..Len(Got)
  BY <1>2
<1>6. Begun(Got) /\ Got[1].req = n
  <2>1. Got[1].req = n
    <3>1. Got[1] = [req |-> n, part |-> 1]
      BY <1>4, <1>5
    <3>. QED
      BY <3>1
  <2>2. ASSUME NEW i \in 1..Len(Got) PROVE Got[i].part = i /\ Got[i].req = n
    <3>1. Got[i] = [req |-> n, part |-> i]
      BY <1>4
    <3>. QED
      BY <3>1
  <2>. QED
    BY <2>1, <2>2 DEF Begun
<1>7. ASSUME Len(Got) = 3 PROVE Tail(rx) = <<>> /\ under = NoFrame
  <2>1. Len(rx) = 1 /\ under = NoFrame
    <3> DEFINE k == Len(rx)
               j == Len(buf)
    <3>0. j + k <= 3
      BY <1>1 DEF Underway
    <3>1. k \in Nat \ {0} /\ j = 2 /\ j + k <= 3
      BY <1>2, <1>7, <3>0, ThirdPart
    <3>2. under = IF j + k = 3 THEN NoFrame ELSE [req |-> n, next |-> j + k + 1]
      BY <1>1 DEF Underway
    <3> HIDE DEF j, k
    <3>3. k = 1 /\ j + k = 3
      BY <3>1
    <3>4. under = NoFrame
      BY <3>2, <3>3
    <3>. QED
      BY <3>3, <3>4 DEF k
  <2>. QED
    BY <1>2, <2>1, ReadFacts, EmptySeq
<1>. QED
  BY <1>1, <1>6, <1>7

\* Reading brings nothing new under way.
LEMMA ReadNothingNew ==
  ASSUME IInv, rx # <<>>, UNCHANGED <<kind, n, sent, lastTxnId, asked>>,
         buf' = Got \/ buf' = <<>>, rx' = Tail(rx) \/ rx' = <<>>,
         under' = under \/ under' = NoFrame, Len(buf') <= 2
  PROVE  /\ rx' \in Seq(Part) /\ Len(rx') <= MaxRx /\ buf' \in Seq(Part)
         /\ under' \in {NoFrame} \cup [req : 1..n, next : 1..3]
         /\ Known' /\ Ids'
<1>0. TypeOK /\ Known
  BY DEF IInv
<1>1. rx' \in Seq(Part) /\ Len(rx') <= MaxRx
  <2>1. CASE rx' = Tail(rx)
    BY <1>0, <2>1, ReadFacts, LinkAssumption DEF TypeOK
  <2>2. CASE rx' = <<>>
    BY <2>2, LinkAssumption
  <2>. QED
    BY <2>1, <2>2
<1>2. buf' \in Seq(Part)
  <2>1. Got \in Seq(Part) /\ <<>> \in Seq(Part)
    BY <1>0, ReadFacts
  <2>. QED
    BY <2>1
<1>3. under' \in {NoFrame} \cup [req : 1..n, next : 1..3]
  BY <1>0 DEF TypeOK
<1>4. ASSUME NEW i \in 1..Len(rx') PROVE \E k \in 1..Len(rx) : rx'[i] = rx[k]
  <2>1. rx' = Tail(rx)
    BY <1>4
  <2>2. i \in 1..Len(rx) - 1 /\ i + 1 \in 1..Len(rx) /\ rx'[i] = rx[i + 1]
    BY <1>0, <1>4, <2>1, ReadFacts
  <2>. QED
    BY <2>2
<1>5. ASSUME NEW i \in 1..Len(buf')
      PROVE  (\E k \in 1..Len(buf) : buf'[i] = buf[k]) \/ buf'[i] = rx[1]
  <2>1. buf' = Got
    BY <1>5
  <2>2. i \in 1..Len(buf) \/ i = Len(buf) + 1
    BY <1>0, <1>5, <2>1, ReadFacts
  <2>. QED
    BY <1>0, <2>1, <2>2, ReadFacts
<1>6. 1 \in 1..Len(rx)
  BY <1>0, ReadFacts
<1>7. Known'
  <2>1. \A i \in 1..Len(rx') : rx'[i].req \in 1..n
    BY <1>0, <1>4 DEF Known
  <2>2. \A i \in 1..Len(buf') : buf'[i].req \in 1..n
    BY <1>0, <1>5, <1>6 DEF Known
  <2>. QED
    BY <2>1, <2>2 DEF Known
<1>8. Ids'
  <2>1. ASSUME NEW i \in 1..Len(rx') PROVE Pending(rx'[i].req)
    <3>1. PICK k \in 1..Len(rx) : rx'[i] = rx[k]
      BY <1>4
    <3>2. Pending(rx[k].req)
      BY DEF Pending
    <3>. QED
      BY <3>1, <3>2
  <2>2. ASSUME NEW i \in 1..Len(buf') PROVE Pending(buf'[i].req)
    <3>1. Pending(rx[1].req) /\ \A k \in 1..Len(buf) : Pending(buf[k].req)
      BY <1>6 DEF Pending
    <3>. QED
      BY <1>5, <3>1
  <2>3. under' # NoFrame => Pending(under'.req)
    BY DEF Pending
  <2>. QED
    BY <2>1, <2>2, <2>3, IdsKept
<1>. QED
  BY <1>1, <1>2, <1>3, <1>7, <1>8

\* A part that does not complete a frame.
LEMMA GrowKeeps ==
  ASSUME IInv, pc = "wait", rx # <<>>, Len(Got) < 3, buf' = Got, rx' = Tail(rx),
         UNCHANGED <<kind, pc, n, sent, lastTxnId, asked, under, left, gaveUp, result, last>>
  PROVE  IInv'
<1>0. TypeOK /\ Joined /\ Rest
  BY DEF IInv
<1>1. Len(buf') <= 2 /\ Len(buf') = Len(buf) + 1 /\ buf' # <<>> /\ buf'[Len(buf')] = rx[1]
  BY <1>0, ReadFacts
<1>2. /\ rx' \in Seq(Part) /\ Len(rx') <= MaxRx /\ buf' \in Seq(Part)
      /\ Known' /\ Ids'
  BY <1>1, ReadNothingNew
<1>3. TypeOK'
  BY <1>0, <1>1, <1>2 DEF TypeOK
<1>4. Joined'
  BY <1>0, <1>1, TailJoined DEF Joined
<1>5. Rest'
  BY <1>0 DEF Rest, Datagram
<1>6. Aligned'
  <2> SUFFICES ASSUME Mbap, gaveUp # "within" PROVE Begun(Got)
    BY <1>1 DEF Aligned, Mbap, Begun
  <2>. QED
    BY <1>0, BegunGrows DEF IInv, Aligned
<1>7. Quiet'
  <2> SUFFICES ASSUME ~Mbap, ~Datagram, gaveUp = "none" PROVE Underway'
    BY DEF Quiet, Mbap, Datagram
  <2>1. Underway
    BY QuietRead
  <2>2. /\ Len(Tail(rx)) = Len(rx) - 1 /\ Len(Got) = Len(buf) + 1
        /\ Len(rx) \in Nat \ {0} /\ Len(buf) \in 0..2
    BY <1>0, ReadFacts
  <2>3. Len(buf') + Len(rx') = Len(buf) + Len(rx)
    BY <2>2
  <2>4. ASSUME NEW i \in 1..Len(buf') PROVE buf'[i] = [req |-> n, part |-> i]
    <3>1. CASE i \in 1..Len(buf)
      BY <1>0, <2>1, <3>1, ReadFacts DEF Underway
    <3>2. CASE i = Len(buf) + 1
      <4>1. rx[1] = [req |-> n, part |-> Len(buf) + 1]
        BY <2>1, <2>2 DEF Underway
      <4>. QED
        BY <1>0, <3>2, <4>1, ReadFacts
    <3>. QED
      BY <2>2, <3>1, <3>2
  <2>5. ASSUME NEW i \in 1..Len(rx') PROVE rx'[i] = [req |-> n, part |-> Len(buf') + i]
    <3>1. /\ i \in 1..Len(rx) - 1 /\ i + 1 \in 1..Len(rx)
          /\ Len(buf') + i = Len(buf) + (i + 1)
      BY <2>2
    <3>2. rx'[i] = rx[i + 1]
      BY <1>0, <3>1, ReadFacts
    <3>. QED
      BY <2>1, <3>1, <3>2 DEF Underway
  <2>. QED
    BY <2>1, <2>3, <2>4, <2>5 DEF Underway
<1>8. OwnAnswer' /\ Resynced'
  BY DEF IInv, OwnAnswer, Resynced, Mbap, Datagram, Serial
<1>. QED
  BY <1>2, <1>3, <1>4, <1>5, <1>6, <1>7, <1>8 DEF IInv

\* What was read of a frame is dropped, the rest of the run stays.
LEMMA DropKeeps ==
  ASSUME IInv, rx # <<>>, UNCHANGED <<kind, n, sent, lastTxnId, asked, under, gaveUp>>,
         buf' = <<>>, rx' = Tail(rx), pc # "closed", pc' # "closed",
         pc' \in {"idle", "wait"}, left' \in 0..Timeout,
         result' \in {"none", "ok", "error", "timeout", "io"}, last' \in [ask : 0..n, ans : 0..n]
  PROVE  TypeOK' /\ Known' /\ Rest' /\ Joined' /\ Ids'
<1>0. TypeOK /\ Joined /\ Rest
  BY DEF IInv
<1>1. Len(buf') <= 2
  OBVIOUS
<1>2. /\ rx' \in Seq(Part) /\ Len(rx') <= MaxRx /\ buf' \in Seq(Part)
      /\ Known' /\ Ids'
  BY <1>1, ReadNothingNew
<1>3. TypeOK'
  BY <1>0, <1>1, <1>2 DEF TypeOK
<1>4. Joined'
  BY <1>0, TailJoined DEF Joined
<1>5. Rest'
  BY <1>0 DEF Rest, Datagram
<1>. QED
  BY <1>2, <1>3, <1>4, <1>5

\* The id of the last request is not that of a recent one.
LEMMA RecentIds ==
  ASSUME IInv, Mbap, NEW m \in 1..n, Pending(m), sent[m].id = lastTxnId, m # n
  PROVE  n - m >= IdSpace
<1> SUFFICES ASSUME n - m < IdSpace PROVE FALSE
  BY LinkAssumption DEF IInv, TypeOK
<1>1. PICK b \in 0..n : Since(b)
  BY DEF IInv, Ids
<1>2. m > b
  BY <1>1 DEF Since, Pending
<1>3. sent[m].id = Back(n - m)
  BY <1>1, <1>2 DEF Since
<1>4. PICK d \in Nat : d = n - m /\ d > 0 /\ d < IdSpace
  BY LinkAssumption DEF IInv, TypeOK
<1>5. lastTxnId \in Nat /\ lastTxnId < IdSpace /\ IdSpace \in Nat
  BY LinkAssumption DEF IInv, TypeOK
<1>6. Back(d) = lastTxnId
  BY <1>3, <1>4
<1>. QED
  BY <1>4, <1>5, <1>6 DEF Back

\* A whole frame is skipped or handed to the caller.
LEMMA WholeKeeps ==
  ASSUME IInv, pc = "wait", rx # <<>>, Whole(Got), TakeFrame(Got[1].req), rx' = Tail(rx),
         UNCHANGED <<kind, n, sent, lastTxnId, asked, under, gaveUp>>
  PROVE  IInv'
<1> DEFINE m == Got[1].req
<1>0. TypeOK /\ Joined /\ Known
  BY DEF IInv
<1>1. m \in 1..n /\ Pending(m)
  <2>1. Got[1] = rx[1] \/ (1 \in 1..Len(buf) /\ Got[1] = buf[1])
    <3>1. CASE Len(buf) = 0
      BY <1>0, <3>1, ReadFacts
    <3>2. CASE Len(buf) # 0
      <4>1. 1 \in 1..Len(buf)
        BY <1>0, <3>2, ReadFacts
      <4>. QED
        BY <1>0, <4>1, ReadFacts
    <3>. QED
      BY <3>1, <3>2
  <2>2. 1 \in 1..Len(rx)
    BY <1>0, ReadFacts
  <2>. QED
    BY <1>0, <2>1, <2>2 DEF Known, Pending
<1>2. n \in 1..n /\ n \in Nat
  BY <1>0, <1>1, LinkAssumption DEF TypeOK
<1>3. buf' = <<>> /\ left' = left
  BY DEF TakeFrame, Skip, Return, Fail
<1>4. \/ Mbap /\ ~Matches(m) /\ UNCHANGED <<pc, result, last>>
      \/ (Mbap => Matches(m)) /\ pc' = "idle" /\ result' = "error" /\ last' = last
      \/ /\ (Mbap => Matches(m)) /\ pc' = "idle" /\ result' = "ok"
         /\ last' = [ask |-> n, ans |-> m]
  BY DEF TakeFrame, Skip, Return, Fail
<1> HIDE DEF m
<1>5. /\ pc' \in {"idle", "wait"} /\ left' \in 0..Timeout
      /\ result' \in {"none", "ok", "error", "timeout", "io"}
  BY <1>0, <1>3, <1>4 DEF TypeOK
<1>6. last' \in [ask : 0..n, ans : 0..n]
  BY <1>0, <1>1, <1>2, <1>4 DEF TypeOK
<1>7. TypeOK' /\ Known' /\ Rest' /\ Joined' /\ Ids'
  BY <1>3, <1>5, <1>6, DropKeeps
<1>8. AtFrame'
  BY <1>0, AfterWhole
<1>9. Aligned'
  BY <1>3, <1>8 DEF Aligned, Begun
<1>10. Resynced'
  BY <1>8 DEF Resynced, AtFrame
<1>11. ASSUME ~Mbap, ~Datagram, gaveUp = "none"
       PROVE  m = n /\ asked = {} /\ under = NoFrame /\ rx' = <<>>
  <2>1. Len(Got) = 3
    BY DEF Whole
  <2>. QED
    BY <1>11, <2>1, QuietRead DEF Underway, m
<1>12. Quiet'
  BY <1>4, <1>11 DEF Quiet, Mbap, Datagram
<1>13. OwnAnswer'
  <2>1. CASE last' = last
    BY <2>1 DEF IInv, OwnAnswer, Mbap, Datagram
  <2>2. CASE last' = [ask |-> n, ans |-> m] /\ (Mbap => Matches(m))
    <3>1. Mbap /\ m # n => n - m >= IdSpace
      BY <1>1, <2>2, RecentIds DEF Matches
    <3>2. last'.ask = n /\ last'.ans = m
      BY <2>2
    <3>. QED
      BY <1>11, <3>1, <3>2 DEF OwnAnswer, Mbap, Datagram
  <2>. QED
    BY <1>4, <2>1, <2>2
<1>. QED
  BY <1>7, <1>9, <1>10, <1>12, <1>13 DEF IInv

\* Junk where a header should be, after a read was cut within a frame.
LEMMA JunkMbapKeeps ==
  ASSUME IInv, pc = "wait", rx # <<>>, Junk(Got), Mbap, TakeJunkMbap, rx' = Tail(rx),
         UNCHANGED <<kind, n, sent, lastTxnId, asked, under, gaveUp>>
  PROVE  IInv'
<1>0. TypeOK /\ Joined
  BY DEF IInv
<1>1. gaveUp = "within"
  <2> SUFFICES ASSUME gaveUp # "within" PROVE FALSE
    OBVIOUS
  <2>1. Begun(Got)
    BY <1>0, BegunGrows DEF IInv, Aligned
  <2>2. Got \in Seq(Part) /\ Len(Got) <= 3
    BY <1>0, GotShort
  <2>. QED
    BY <2>1, <2>2, BegunIsNoJunk
<1>2. buf' = <<>> /\ left' = left
  BY DEF TakeJunkMbap, Skip, Fail
<1>3. /\ pc' \in {"idle", "wait"} /\ left' \in 0..Timeout
      /\ result' \in {"none", "ok", "error", "timeout", "io"} /\ last' \in [ask : 0..n, ans : 0..n]
  <2>1. n \in 0..n /\ 0 \in 0..n
    BY <1>0, LinkAssumption DEF TypeOK
  <2>2. [ask |-> n, ans |-> 0] \in [ask : 0..n, ans : 0..n]
    BY <2>1
  <2>3. last' \in [ask : 0..n, ans : 0..n]
    BY <1>0, <2>2 DEF TakeJunkMbap, Skip, Fail, TypeOK
  <2>. QED
    BY <1>0, <1>2, <2>3 DEF TakeJunkMbap, Skip, Fail, TypeOK
<1>4. TypeOK' /\ Known' /\ Rest' /\ Joined' /\ Ids'
  BY <1>2, <1>3, DropKeeps
<1>5. Aligned' /\ Quiet' /\ OwnAnswer' /\ Resynced'
  BY <1>1 DEF Aligned, Quiet, OwnAnswer, Resynced, Mbap, Datagram, Serial
<1>. QED
  BY <1>4, <1>5 DEF IInv

\* A framing error of the RTU transport.
LEMMA FlushKeeps ==
  ASSUME IInv, pc = "wait", rx # <<>>, Junk(Got), ~Mbap, Fail("error"), Flush(Tail(rx)),
         UNCHANGED <<kind, n, sent, lastTxnId, asked, gaveUp>>
  PROVE  IInv'
<1>0. TypeOK
  BY DEF IInv
<1>1. /\ buf' = <<>> /\ rx' = <<>> /\ pc' = "idle" /\ result' = "error"
      /\ under' = (IF Serial THEN NoFrame ELSE under) /\ UNCHANGED <<left, last>>
  BY DEF Fail, Flush
<1>2. /\ rx' \in Seq(Part) /\ Len(rx') <= MaxRx /\ buf' \in Seq(Part)
      /\ under' \in {NoFrame} \cup [req : 1..n, next : 1..3]
      /\ Known' /\ Ids'
  BY <1>1, ReadNothingNew
<1>3. TypeOK'
  BY <1>0, <1>1, <1>2 DEF TypeOK
<1>4. Rest' /\ Joined' /\ Aligned'
  BY <1>1 DEF IInv, Rest, Joined, Aligned, Mbap, Datagram
<1>5. Quiet'
  <2> SUFFICES ASSUME ~Datagram, gaveUp = "none" PROVE FALSE
    BY DEF Quiet, Mbap, Datagram
  <2>1. Got \in Seq(Part) /\ Len(Got) <= 3 /\ Begun(Got)
    BY <1>0, QuietRead, GotShort
  <2>. QED
    BY <2>1, BegunIsNoJunk
<1>6. OwnAnswer' /\ Resynced'
  BY <1>1 DEF IInv, OwnAnswer, Resynced, Mbap, Datagram, Serial, NoFrame
<1>. QED
  BY <1>2, <1>3, <1>4, <1>5, <1>6 DEF IInv

\* All that a read may come to.
LEMMA ReadKeeps == ASSUME IInv, Read PROVE IInv'
<1>0. pc = "wait" /\ rx # <<>> /\ UNCHANGED <<kind, n, sent, lastTxnId, asked, gaveUp>>
  BY DEF Read
<1>1. \/ /\ Len(Got) < 3 /\ buf' = Got /\ rx' = Tail(rx)
         /\ UNCHANGED <<pc, left, result, last, under>>
      \/ Whole(Got) /\ TakeFrame(Got[1].req) /\ rx' = Tail(rx) /\ UNCHANGED under
      \/ Junk(Got) /\ Mbap /\ TakeJunkMbap /\ rx' = Tail(rx) /\ UNCHANGED under
      \/ Junk(Got) /\ ~Mbap /\ Fail("error") /\ Flush(Tail(rx))
  BY DEF Read, Got
<1>. QED
  BY <1>0, <1>1, GrowKeeps, WholeKeeps, JunkMbapKeeps, FlushKeeps

-----------------------------------------------------------------------------
\* Every step keeps the invariant.
LEMMA StepIInv == IInv /\ [Next]_vars => IInv'
<1> SUFFICES ASSUME IInv, [Next]_vars PROVE IInv'
  OBVIOUS
<1>1. CASE Open
  BY <1>1, OpenKeeps
<1>2. CASE Close
  BY <1>2, CloseKeeps
<1>3. ASSUME NEW form \in Forms, ExecuteRequest(form) PROVE IInv'
  BY <1>3, ExecuteRequestKeeps
<1>4. CASE Read
  BY <1>4, ReadKeeps
<1>5. CASE Tick
  BY <1>5, TickKeeps
<1>6. CASE Expire \/ LinkError
  BY <1>6, GiveUpKeeps DEF Expire, LinkError
<1>7. CASE Device
  <2>0. UNCHANGED <<kind, pc, n, sent, lastTxnId, buf, left, gaveUp, result, last>>
    BY <1>7 DEF Device
  <2>1. ASSUME NEW m \in Requests, Arrive(m) PROVE IInv'
    BY <2>0, <2>1, ArriveKeeps
  <2>2. ASSUME NEW m \in Requests, Answer(m) PROVE IInv'
    BY <2>0, <2>2, AnswerKeeps
  <2>3. ASSUME NEW m \in Requests, Lose(m) PROVE IInv'
    BY <2>0, <2>3, LoseKeeps
  <2>4. CASE Continue
    BY <2>0, <2>4, ContinueKeeps, LostPartKeeps
  <2>. QED
    BY <1>7, <2>1, <2>2, <2>3, <2>4 DEF Device
<1>8. CASE Break
  BY <1>8, BreakKeeps
<1>9. CASE UNCHANGED vars
  <2>0. /\ UNCHANGED <<kind, pc, n, sent, lastTxnId, buf, left, gaveUp, result, last>>
        /\ UNCHANGED <<asked, under, rx>>
    BY <1>9 DEF vars, device
  <2>1. TypeOK'
    BY <2>0 DEF IInv, TypeOK
  <2>2. Known' /\ Rest' /\ Joined' /\ Aligned' /\ Quiet'
    BY <2>0 DEF IInv, Known, Rest, Joined, Aligned, Begun, AtFrame, Quiet, Underway, Mbap, Datagram
  <2>3. Ids'
    BY <2>0, IdsKept DEF Pending
  <2>4. OwnAnswer' /\ Resynced'
    BY <2>0 DEF IInv, OwnAnswer, Resynced, Mbap, Datagram, Serial
  <2>. QED
    BY <2>1, <2>2, <2>3, <2>4 DEF IInv
<1>. QED
  BY <1>1, <1>2, <1>3, <1>4, <1>5, <1>6, <1>7, <1>8, <1>9 DEF Next

\* The inductive invariant holds in every reachable state.
THEOREM Invariance == Spec => []IInv
  BY InitIInv, StepIInv, PTL DEF Spec

\* The variables keep their types, ids their 16 bits.
THEOREM TypeCorrect == Spec => []TypeOK
  BY Invariance, PTL DEF IInv

\* An answer handed to the caller is that of the caller's own request, but
\* for the cases that OwnAnswer names.
THEOREM OwnAnswerAlways == Spec => []OwnAnswer
  BY Invariance, PTL DEF IInv

\* After every error but a timeout and one of the port itself a serial line is at
\* the beginning of a frame.
THEOREM ResyncedAlways == Spec => []Resynced
  BY Invariance, PTL DEF IInv

\* The deadline of a request is firm: frames skipped or read in part do not
\* move it, and from then on the call takes in nothing any more.  With the
\* fairness of Tick and Expire this is why CallsReturn holds.
DeadlineFirm ==
    pc = "wait" /\ pc' = "wait" =>
        /\ n' = n /\ left' <= left
        /\ left = 0 => UNCHANGED <<left, buf, result, last>>

THEOREM DeadlineFirmAlways == Spec => [][DeadlineFirm]_vars
<1>1. ASSUME TypeOK, Next, pc = "wait", pc' = "wait"
      PROVE  n' = n /\ left' <= left /\ (left = 0 => UNCHANGED <<left, buf, result, last>>)
  <2>1. left \in Nat
    BY <1>1, LinkAssumption DEF TypeOK
  <2>2. CASE Read
    <3>1. UNCHANGED <<n, left>> /\ left > 0
      BY <1>1, <2>2 DEF Read, TakeFrame, Skip, Return, Fail, TakeJunkMbap
    <3>2. QED BY <2>1, <3>1
  <2>3. CASE Tick
    BY <2>1, <2>3 DEF Tick
  <2>4. CASE Device
    BY <2>1, <2>4 DEF Device
  <2>5. /\ ~Open /\ ~Close /\ ~Break /\ ~Expire /\ ~LinkError
        /\ \A form \in Forms : ~ExecuteRequest(form)
    BY <1>1 DEF Open, Close, Break, Expire, LinkError, GiveUp, Fail, ExecuteRequest
  <2>. QED
    BY <1>1, <2>2, <2>3, <2>4, <2>5 DEF Next
<1>2. TypeOK /\ [Next]_vars => [DeadlineFirm]_vars
  BY <1>1 DEF DeadlineFirm
<1>. QED
  BY <1>2, TypeCorrect, PTL DEF Spec

\* A result is that of the call it is handed to: a request under way has had
\* no answer yet, and "ok" comes with an answer taken for this very request.
Fresh ==
    /\ pc = "wait" => last.ask < n
    /\ pc = "idle" /\ result = "ok" => last.ask = n

\* A request has at most one answer, taken before its deadline.
Accepted == pc = "wait" /\ last' # last => left > 0 /\ last.ask < n /\ last'.ask = n

THEOREM FreshAlways == Spec => []Fresh /\ [][Accepted]_vars
<1>1. Init => Fresh
  BY DEF Init, Fresh
<1>2. ASSUME TypeOK, Fresh, [Next]_vars
      PROVE  Fresh' /\ [Accepted]_vars
  <2> USE DEF Fresh, Accepted
  <2>0. last.ask \in Nat /\ n \in Nat /\ last.ask <= n /\ left \in Nat
    BY <1>2, LinkAssumption DEF TypeOK
  <2>1. CASE Open
    BY <1>2, <2>1 DEF Open
  <2>2. CASE Close
    BY <1>2, <2>2 DEF Close
  <2>3. ASSUME NEW form \in Forms, ExecuteRequest(form) PROVE Fresh' /\ [Accepted]_vars
    BY <2>0, <2>3 DEF ExecuteRequest
  <2>4. CASE Read
    <3>1. pc = "wait" /\ n' = n /\ left > 0
      BY <2>4 DEF Read
    <3>2. \/ UNCHANGED <<pc, last>>
          \/ pc' = "idle" /\ result' = "error" /\ UNCHANGED last
          \/ pc' = "idle" /\ result' = "ok" /\ \E m : last' = [ask |-> n, ans |-> m]
      BY <2>4 DEF Read, TakeFrame, Skip, Return, Fail, TakeJunkMbap
    <3>. QED
      BY <1>2, <3>1, <3>2
  <2>5. CASE Tick
    BY <1>2, <2>5 DEF Tick
  <2>6. CASE Expire \/ LinkError
    BY <1>2, <2>6 DEF Expire, LinkError, GiveUp, Fail
  <2>7. CASE Device
    BY <1>2, <2>7 DEF Device
  <2>8. CASE Break
    BY <1>2, <2>8 DEF Break
  <2>9. CASE UNCHANGED vars
    BY <1>2, <2>9 DEF vars
  <2>. QED
    BY <1>2, <2>1, <2>2, <2>3, <2>4, <2>5, <2>6, <2>7, <2>8, <2>9 DEF Next
<1>3. TypeOK /\ Fresh /\ [Next]_vars => Fresh' /\ [Accepted]_vars
  BY <1>2
<1>. QED
  BY <1>1, <1>3, TypeCorrect, PTL DEF Spec
=============================================================================
