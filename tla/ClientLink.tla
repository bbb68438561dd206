----------------------------- MODULE ClientLink -----------------------------
(***************************************************************************)
(* One Modbus client and the device behind its transport                   *)
(* (src/utils/modbus/client.go, tcp_transport.go, rtu_transport.go,        *)
(* udp.go, serial.go): how a request is paired with an answer.             *)
(*                                                                         *)
(* The TCP transport frames with an MBAP header that carries a             *)
(* transaction id, and skips frames with another id until the right one    *)
(* or the deadline; the RTU transport takes the next whole frame.  A       *)
(* stream delivers a frame in parts (two of the header, one of the body),  *)
(* a datagram link delivers it at once, but may duplicate and reorder.     *)
(* Bytes other than the device's answers are left out, so are checksums    *)
(* that match by chance.                                                   *)
(***************************************************************************)
EXTENDS Naturals, Sequences

CONSTANTS
    Kinds,      \* the transports in use, a subset of AllKinds
    Forms,      \* what the client can compare: unit, function, length
    MaxReqs,    \* bound: requests sent
    MaxRx,      \* bound: parts of frames waiting in the receive buffer
    IdSpace,    \* transaction ids, 65536 in the code
    Timeout     \* the request timeout, in ticks

AllKinds == {"tcp", "udp", "rtu", "rtuovertcp", "rtuoverudp"}

ASSUME LinkAssumption ==
    /\ Kinds \subseteq AllKinds
    /\ MaxReqs \in Nat /\ MaxRx \in Nat
    /\ IdSpace \in Nat \ {0} /\ Timeout \in Nat \ {0}

VARIABLES
    kind,       \* mc.transportType
    pc,         \* "closed", "idle", "wait" (in ExecuteRequest) or "broken"
    n,          \* requests sent so far, the last one is request n
    sent,       \* what each request looked like on the wire
    lastTxnId,  \* of the TCP transport
    asked,      \* requests the device has still to answer
    under,      \* the frame the device is sending, on a stream
    rx,         \* parts that have arrived and were not read
    buf,        \* parts of the frame being read
    left,       \* ticks before the deadline of the request
    gaveUp,     \* worst give-up on this line: "none", "between", "within"
    result,     \* of the last request: "none", "ok", "error", "timeout" or "io"
    last        \* the last answer handed to the caller

device == <<asked, under, rx>>
vars == <<kind, pc, n, sent, lastTxnId, device, buf, left, gaveUp, result, last>>

Mbap == kind \in {"tcp", "udp"}
Datagram == kind \in {"udp", "rtuoverudp"}
Serial == kind = "rtu"

Requests == 1..MaxReqs
Wire == [form : Forms, id : 0..(IdSpace - 1)]
Part == [req : Requests, part : 1..3]
Frame(m) == [i \in 1..3 |-> [req |-> m, part |-> i]]
NoFrame == [req |-> 0, next |-> 0]
NoAnswer == [ask |-> 0, ans |-> 0]

\* Parts that do not begin a frame, or do not belong together.
Junk(ps) == ps /= <<>> /\ ps /= SubSeq(Frame(ps[1].req), 1, Len(ps))
Whole(ps) == Len(ps) = 3 /\ ~Junk(ps)

(***************************************************************************)
(* Opening and closing.  A new socket hears nothing of the old one; a      *)
(* serial line is the same line, and only what has arrived is discarded.   *)
(***************************************************************************)

\* NewClient
Init ==
    /\ kind \in Kinds
    /\ pc = "closed" /\ n = 0 /\ sent = <<>> /\ lastTxnId = 0
    /\ asked = {} /\ under = NoFrame /\ rx = <<>> /\ buf = <<>>
    /\ left = 0 /\ gaveUp = "none" /\ result = "none" /\ last = NoAnswer

NewSocket == asked' = {} /\ under' = NoFrame /\ rx' = <<>> /\ gaveUp' = "none"

\* Open, with newTCPTransport or newRTUTransport and their discards
Open ==
    /\ pc = "closed"
    /\ pc' = "idle" /\ lastTxnId' = 0 /\ result' = "none" /\ last' = NoAnswer
    /\ IF Serial THEN rx' = <<>> /\ UNCHANGED <<asked, under, gaveUp>> ELSE NewSocket
    /\ UNCHANGED <<kind, n, sent, buf, left>>

\* Close: what arrives at a closed port is lost.
Close ==
    /\ pc \in {"idle", "broken"}
    /\ pc' = "closed" /\ rx' = <<>>
    /\ UNCHANGED <<kind, n, sent, lastTxnId, asked, under, buf, left, gaveUp, result, last>>

(***************************************************************************)
(* A request                                                               *)
(***************************************************************************)

NextTxnId == (lastTxnId + 1) % IdSpace

\* A bug for the runs to find: the id is not kept to its 16 bits.
MutantNewTxnId == lastTxnId + 1
\* lastTxnId++ on a uint16
NewTxnId == NextTxnId

\* ExecuteRequest up to its read: the deadline is set once, before the write.
ExecuteRequest(form) ==
    /\ pc = "idle" /\ n < MaxReqs
    /\ pc' = "wait" /\ n' = n + 1 /\ left' = Timeout /\ buf' = <<>>
    /\ lastTxnId' = IF Mbap THEN NewTxnId ELSE lastTxnId
    /\ sent' = Append(sent, [form |-> form, id |-> lastTxnId'])
    /\ asked' = asked \cup {n + 1}
    /\ UNCHANGED <<kind, under, rx, gaveUp, result, last>>

\* The call returns with an error; nothing is discarded.
Fail(how) ==
    /\ pc' = "idle" /\ result' = how /\ buf' = <<>>
    /\ UNCHANGED <<left, last>>

\* A bug for the runs to find: the RTU transport does not flush the line.
MutantFlush(parts) == rx' = parts /\ UNCHANGED under
\* The sleep of 256 characters and the discard after a framing error: on a
\* serial line the frame under way is over by then.
Flush(parts) ==
    /\ rx' = <<>>
    /\ under' = IF Serial THEN NoFrame ELSE under

\* The client takes the frame that answers request m if it looks right:
\* unit id in executeRequest, function code and length in its callers.
Return(m) ==
    IF sent[m].form = sent[n].form
    THEN /\ pc' = "idle" /\ result' = "ok" /\ buf' = <<>>
         /\ last' = [ask |-> n, ans |-> m]
         /\ UNCHANGED left
    ELSE Fail("error")

\* A bug for the runs to find: each frame read renews the deadline.
MutantSkip == buf' = <<>> /\ left' = Timeout /\ UNCHANGED <<pc, result, last>>
\* A frame with another protocol or transaction id is dropped.
Skip == buf' = <<>> /\ UNCHANGED <<pc, left, result, last>>

\* A bug for the runs to find: any transaction id will do.
MutantMatches(m) == m \in Requests
Matches(m) == sent[m].id = lastTxnId

\* readResponse and readRTUFrame with a whole frame
TakeFrame(m) == IF Mbap /\ ~Matches(m) THEN Skip ELSE Return(m)

\* readMBAPFrame on bytes that are no header: an illegal length fails, an
\* unknown protocol id is skipped, anything may match by chance.
TakeJunkMbap ==
    \/ Fail("error")
    \/ Skip
    \/ /\ pc' = "idle" /\ result' = "ok" /\ buf' = <<>>
       /\ last' = [ask |-> n, ans |-> 0]
       /\ UNCHANGED left

\* io.ReadFull gets one more part before the deadline.
Read ==
    /\ pc = "wait" /\ left > 0 /\ rx /= <<>>
    /\ LET got == Append(buf, Head(rx)) IN
       \/ /\ Len(got) < 3
          /\ buf' = got /\ rx' = Tail(rx)
          /\ UNCHANGED <<pc, left, result, last, under>>
       \/ /\ Whole(got)
          /\ TakeFrame(got[1].req) /\ rx' = Tail(rx) /\ UNCHANGED under
       \/ /\ Junk(got) /\ Mbap
          /\ TakeJunkMbap /\ rx' = Tail(rx) /\ UNCHANGED under
       \/ /\ Junk(got) /\ ~Mbap
          /\ Fail("error") /\ Flush(Tail(rx))
    /\ UNCHANGED <<kind, n, sent, lastTxnId, asked, gaveUp>>

Tick ==
    /\ pc = "wait" /\ left > 0
    /\ left' = left - 1
    /\ UNCHANGED <<kind, pc, n, sent, lastTxnId, device, buf, gaveUp, result, last>>

\* A read fails: an RTU header read in part is a short frame, which flushes the
\* line; a frame cut later is left where it is.
GiveUp(how) ==
    /\ pc = "wait"
    /\ gaveUp' = IF buf /= <<>> \/ gaveUp = "within" THEN "within" ELSE "between"
    /\ \/ /\ ~Mbap /\ Len(buf) = 1
          /\ Fail("error") /\ Flush(rx)
       \/ /\ Mbap \/ Len(buf) /= 1 \/ Junk(buf)
          /\ Fail(how) /\ UNCHANGED <<rx, under>>
    /\ UNCHANGED <<kind, n, sent, lastTxnId, asked>>

\* The deadline passes.
Expire == left = 0 /\ GiveUp("timeout")

\* The serial port or the UDP socket itself fails the write or a read, and works
\* again afterwards.
LinkError == kind \in {"rtu", "udp", "rtuoverudp"} /\ left > 0 /\ GiveUp("io")

(***************************************************************************)
(* The device and the wire                                                 *)
(***************************************************************************)

\* An RTU device answers in order, a TCP device may not.
Due(m) == m \in asked /\ (Mbap \/ Datagram \/ \A k \in asked : m <= k)

\* Bytes reach an open port only.
Deliver(parts) == rx' = IF pc = "closed" THEN rx ELSE rx \o parts

\* A datagram with the answer arrives, perhaps not for the last time.
Arrive(m) ==
    /\ Datagram /\ Due(m) /\ pc /= "closed" /\ Len(rx) + 3 <= MaxRx
    /\ Deliver(Frame(m))
    /\ asked' \in {asked, asked \ {m}}
    /\ UNCHANGED under

\* The device begins an answer, on a stream.
Answer(m) ==
    /\ ~Datagram /\ Due(m) /\ under = NoFrame
    /\ under' = [req |-> m, next |-> 1]
    /\ asked' = asked \ {m}
    /\ UNCHANGED rx

\* The next part of the answer arrives.
Continue ==
    /\ under /= NoFrame /\ Len(rx) < MaxRx
    /\ Deliver(<<[req |-> under.req, part |-> under.next]>>)
    /\ under' = IF under.next = 3 THEN NoFrame ELSE [under EXCEPT !.next = @ + 1]
    /\ UNCHANGED asked

\* A request or its answer is lost, or the device does not answer.
Lose(m) == m \in asked /\ asked' = asked \ {m} /\ UNCHANGED <<under, rx>>

Device ==
    /\ \/ \E m \in Requests : Arrive(m) \/ Answer(m) \/ Lose(m)
       \/ Continue
    /\ UNCHANGED <<kind, pc, n, sent, lastTxnId, buf, left, gaveUp, result, last>>

\* The peer closes a TCP connection: every read and write fails from now on.
Break ==
    /\ pc = "wait" /\ kind \in {"tcp", "rtuovertcp"}
    /\ pc' = "broken" /\ buf' = <<>> /\ result' = "error"
    /\ asked' = {} /\ under' = NoFrame /\ rx' = <<>>
    /\ UNCHANGED <<kind, n, sent, lastTxnId, left, gaveUp, last>>

Next ==
    \/ Open \/ Close
    \/ \E form \in Forms : ExecuteRequest(form)
    \/ Read \/ Tick \/ Expire \/ LinkError
    \/ Device \/ Break

\* Time passes and a read returns at its deadline; the device owes nothing.
Spec == Init /\ [][Next]_vars /\ WF_vars(Tick) /\ WF_vars(Expire)

-----------------------------------------------------------------------------

\* The variables hold values of their types, transaction ids in 16 bits.
TypeOK ==
    /\ kind \in Kinds
    /\ pc \in {"closed", "idle", "wait", "broken"}
    /\ n \in 0..MaxReqs
    /\ sent \in Seq(Wire) /\ Len(sent) = n
    /\ lastTxnId \in 0..(IdSpace - 1)
    /\ asked \subseteq 1..n
    /\ under \in {NoFrame} \cup [req : 1..n, next : 1..3]
    /\ rx \in Seq(Part) /\ Len(rx) <= MaxRx
    /\ buf \in Seq(Part) /\ Len(buf) <= 2
    /\ left \in 0..Timeout
    /\ gaveUp \in {"none", "between", "within"}
    /\ result \in {"none", "ok", "error", "timeout", "io"}
    /\ last \in [ask : 0..n, ans : 0..n]

\* An answer handed to the caller answers the caller's own request.  With
\* transaction ids, unless a read was cut within a frame, or the answer is so
\* old that its id came round again; without, unless a request was given up
\* before (over UDP a duplicate is enough, and nothing is promised).
OwnAnswer ==
    last.ans /= last.ask =>
        \/ Mbap /\ (gaveUp = "within" \/ last.ask - last.ans >= IdSpace)
        \/ ~Mbap /\ (gaveUp /= "none" \/ Datagram)

\* What a serial line has still to deliver begins with the first byte of a
\* frame whenever a request has ended other than by a timeout or an error of the
\* port itself, after which nothing is flushed: framing errors flush the line, so
\* a cut frame costs one more request and no more.
Resynced ==
    Serial /\ pc = "idle" /\ result \in {"ok", "error"} =>
        IF rx /= <<>> THEN rx[1].part = 1 ELSE under.next <= 1

\* Every request ends, however many late or duplicate frames arrive: the
\* caller holds the client's mutex meanwhile.
CallsReturn == pc = "wait" ~> pc /= "wait"

=============================================================================
