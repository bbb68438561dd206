--------------------------- MODULE ModbusRequests ---------------------------
(***************************************************************************)
(* A Modbus request from end to end: the client's checks and its reading   *)
(* of the answer (utils/modbus/client.go), the server's checks (server.go  *)
(* for TCP, server_rtu.go for RTU) and the simulator's registers           *)
(* (core/plugin/cmbus/handler.go).  A list of coils or registers is its    *)
(* length and the set of positions that are not zero; of the bytes of a    *)
(* frame only their number and the declared number are kept.  A single     *)
(* coil's value is odd when it is neither 0xff00 nor 0x0000, which         *)
(* WriteCoilValue sends and WriteCoil never does.  RequestInit and so on   *)
(* are named for the machine, since SimulatorProofs extends                *)
(* SimulatorInstance too.                                                  *)
(***************************************************************************)
EXTENDS Integers, FiniteSets

CONSTANTS Calls,     \* what callers ask of the client
          Foreigns,  \* requests other masters send to the TCP server
          Memories,  \* what earlier requests may have left in the simulator
          Nil

Word == 65536
Codes == {"ReadCoils", "ReadDiscreteInputs", "ReadHoldingRegisters",
          "ReadInputRegisters", "WriteSingleCoil", "WriteMultipleCoils",
          "WriteSingleRegister", "WriteMultipleRegisters"}
Bits    == {"ReadCoils", "ReadDiscreteInputs", "WriteSingleCoil", "WriteMultipleCoils"}
Reads   == {"ReadCoils", "ReadDiscreteInputs", "ReadHoldingRegisters", "ReadInputRegisters"}
Singles == {"WriteSingleCoil", "WriteSingleRegister"}

List == {l \in [len : Nat, ones : SUBSET Nat] : \A i \in l.ones : i < l.len}
Call == [fc : Codes, unit : 0 .. 255, addr : 0 .. Word - 1, vals : List, odd : BOOLEAN]
Request == [fc : Codes \cup {"other"}, unit : 0 .. 255, addr : 0 .. Word - 1,
            qty : 0 .. Word - 1, count : 0 .. 255, bytes : Nat, vals : List, odd : BOOLEAN]
Memory == [coils : SUBSET (0 .. 99), holding : SUBSET (0 .. Word - 1)]

ASSUME RequestsAssumption ==
  /\ \A c \in Calls : /\ c \in Call /\ (c.fc \in Singles => c.vals.len = 1)
                      /\ c.fc \in Reads => c.vals.len < Word  \* an uint16 argument
                      /\ c.odd => c.fc = "WriteSingleCoil"
  /\ \A r \in Foreigns : r \in Request /\ r.vals.len = r.qty /\ (r.fc \in Singles => r.qty = 1)
  /\ \A m \in Memories : m \in Memory
  /\ Nil \notin Calls \cup Foreigns /\ Nil \notin {"address", "function"}

VARIABLES link,      \* "tcp" or "rtu"
          stage,     \* "rest", "sent", "answered" or "done"
          call, req, \* what was asked; the request on the wire
          ans, out,  \* the answer on the wire; what the caller gets
          mem,       \* the simulator's coils and holding registers
          before     \* mem when the request arrived

requestVars == <<link, stage, call, req, ans, out, mem, before>>

Zeros(n) == [len |-> n, ones |-> {}]
Slice(S, a, n) == [len |-> n, ones |-> {i \in 0 .. n - 1 : (a + i) % Word \in S}]
Store(S, a, l) ==
  (S \ {(a + i) % Word : i \in 0 .. l.len - 1}) \cup {(a + i) % Word : i \in l.ones}
First(l, n) == [len |-> n, ones |-> {i \in l.ones : i < n}]

\* Bytes that n coils or registers take.
ByteLen(fc, n) == IF fc \in Bits THEN (n + 7) \div 8 ELSE 2 * n

\* bug: a limit too low for the client
MutantLimit(fc) == IF fc = "WriteMultipleRegisters" THEN 122 ELSE IF fc \in Bits THEN 2000 ELSE 125
Limit(fc) ==
  IF fc \in {"ReadCoils", "ReadDiscreteInputs"} THEN 2000
  ELSE IF fc = "WriteMultipleCoils" THEN 1968
  ELSE IF fc = "WriteMultipleRegisters" THEN 123 ELSE 125

-----------------------------------------------------------------------------
(* The client's side of a request.                                         *)

\* Lengths are taken as 16-bit numbers, of registers' bytes before halving.
Quantity(c) ==
  IF c.fc = "WriteMultipleRegisters" THEN ((2 * c.vals.len) % Word) \div 2
  ELSE c.vals.len % Word

ClientLimit(fc) ==
  IF fc \in {"ReadCoils", "ReadDiscreteInputs"} THEN 2000
  ELSE IF fc = "WriteMultipleCoils" THEN 1968
  ELSE IF fc = "WriteMultipleRegisters" THEN 123 ELSE 125

ClientChecks(c) ==
  c.fc \notin Singles =>
    /\ Quantity(c) > 0 /\ Quantity(c) <= ClientLimit(c.fc)
    /\ c.addr + Quantity(c) - 1 <= Word - 1

\* The frame's length is a 16-bit number too: of a longer one the server sees
\* the beginning.
ToRequest(c) ==
  LET bytes == IF c.fc \in Reads \cup Singles THEN 0 ELSE ByteLen(c.fc, c.vals.len)
  IN  [fc |-> c.fc, unit |-> c.unit, addr |-> c.addr, qty |-> Quantity(c),
       count |-> bytes % 256, bytes |-> bytes % Word,
       vals |-> IF c.fc \in Reads THEN Zeros(0) ELSE First(c.vals, Quantity(c)), odd |-> c.odd]

Failed == [kind |-> "failed", vals |-> Zeros(0)]
Params == [kind |-> "params", vals |-> Zeros(0)]
Refused == [kind |-> "refused", vals |-> Zeros(0)]

\* bug: the length of the answer is not compared
MutantExpected(r, a) == TRUE
\* readBools and readRegisters: the number of bytes must be the one expected.
Expected(r, a) == a.bytes = ByteLen(r.fc, r.qty) /\ a.count = a.bytes

\* A write of one value is echoed with it, a longer one with its quantity.
Echoed(r) == IF r.fc \in Singles THEN r.vals ELSE Zeros(0)

\* readRTUFrame: the declared number of bytes and the CRC must agree.
Framed(l, a) == l = "rtu" => a.count = a.bytes

Check(l, r, a) ==
  IF a.kind = "exception" THEN Refused
  ELSE IF a.kind = "data" /\ Framed(l, a) /\ Expected(r, a)
  THEN [kind |-> "ok", vals |-> First(a.vals, r.qty)]
  ELSE IF /\ a.kind = "echo" /\ a.addr = r.addr /\ a.qty = r.qty
          /\ a.vals = Echoed(r) /\ a.odd = r.odd
  THEN [kind |-> "ok", vals |-> Zeros(0)]
  ELSE Failed

-----------------------------------------------------------------------------
(* The simulator: an error, a list of values, and the memory after.        *)

Result(err, res, m) == [err |-> err, res |-> res, mem |-> m]

\* bug: one coil too many exists
MutantCoilsExist(a, n) == a + n <= 101
CoilsExist(a, n) == a + n <= 100

MutantReadOnly == {}  \* bug: no coil is read-only
ReadOnly == {80}

HandleCoils(r, write, m) ==
  LET new == IF write
             THEN (Store(m.coils, r.addr, r.vals) \ ReadOnly) \cup (m.coils \cap ReadOnly)
             ELSE m.coils
  IN  IF r.unit # 1 THEN Result(Nil, Zeros(0), m)
      ELSE IF ~CoilsExist(r.addr, r.qty) THEN Result("address", Zeros(0), m)
      ELSE Result(Nil, Slice(new, r.addr, r.qty), [m EXCEPT !.coils = new])

HandleDiscreteInputs(r, m) == Result("function", Zeros(0), m)

HandleHoldingRegisters(r, write, m) ==
  LET new == IF write THEN Store(m.holding, r.addr, r.vals) ELSE m.holding
  IN  Result(Nil, Slice(new, r.addr, r.qty), [m EXCEPT !.holding = new])

\* The loop's upper end is a 16-bit sum.  The uptime (200, 201) stays zero.
InputRegs == {100, 101, 200, 201, 202, 203, 300, 301}
HandleInputRegisters(r, m) ==
  LET window == r.addr .. ((r.addr + r.qty) % Word) - 1
  IN  IF window \subseteq InputRegs
      THEN Result(Nil, Slice(InputRegs \ {200, 201}, r.addr, Cardinality(window)), m)
      ELSE Result("address", Zeros(0), m)

-----------------------------------------------------------------------------
(* Answers.  "drop" is none: the server closes the link.                   *)
Drop           == [kind |-> "drop"]
Exception(e)   == [kind |-> "exception", ex |-> e]
Echo(r)        == [kind |-> "echo", addr |-> r.addr, qty |-> r.qty,
                   vals |-> Echoed(r), odd |-> r.odd]
Data(n, bs, l) == [kind |-> "data", count |-> n, bytes |-> bs, vals |-> l]
Reply(a, m)    == [ans |-> a, mem |-> m]

Handle(r, m) ==
  IF r.fc = "ReadDiscreteInputs" THEN HandleDiscreteInputs(r, m)
  ELSE IF r.fc = "ReadInputRegisters" THEN HandleInputRegisters(r, m)
  ELSE IF r.fc \in Bits THEN HandleCoils(r, r.fc \notin Reads, m)
  ELSE HandleHoldingRegisters(r, r.fc \notin Reads, m)

(***************************************************************************)
(* The TCP server, handleTransport.  A frame has at most 260 bytes.        *)
(***************************************************************************)
MutantPastEnd(r) == r.addr + r.qty > Word - 1  \* bug: off by one
PastEnd(r) == r.addr + r.qty - 1 > Word - 1

ServeRead(r, m) ==
  LET h == Handle(r, m) n == ByteLen(r.fc, r.qty)
  IN  IF r.bytes # 0 \/ r.qty = 0 \/ r.qty > Limit(r.fc) THEN Reply(Drop, m)
      ELSE IF PastEnd(r) THEN Reply(Exception("address"), m)
      ELSE IF h.err # Nil THEN Reply(Exception(h.err), m)
      ELSE IF h.res.len # r.qty THEN Reply(Exception("failure"), m)
      ELSE Reply(Data(n % 256, n, h.res), m)

ServeWriteSingle(r, m) ==
  LET h == Handle(r, m)
  IN  IF r.bytes # 0 \/ (r.fc = "WriteSingleCoil" /\ r.odd) THEN Reply(Drop, m)
      ELSE IF h.err # Nil THEN Reply(Exception(h.err), m)
      ELSE Reply(Echo(r), h.mem)

ServeWriteMultiple(r, m) ==
  LET h == Handle(r, m) n == ByteLen(r.fc, r.qty)
  IN  IF r.bytes = 0 \/ r.bytes > 247 \/ r.qty = 0 \/ r.qty > Limit(r.fc) THEN Reply(Drop, m)
      ELSE IF PastEnd(r) THEN Reply(Exception("address"), m)
      ELSE IF r.count # n % 256 \/ r.bytes # n THEN Reply(Drop, m)
      ELSE IF h.err # Nil THEN Reply(Exception(h.err), m)
      ELSE Reply(Echo(r), h.mem)

TcpServe(r, m) ==
  IF r.fc \in Reads THEN ServeRead(r, m)
  ELSE IF r.fc \in Singles THEN ServeWriteSingle(r, m)
  ELSE IF r.fc = "other" THEN Reply(Exception("function"), m)
  ELSE ServeWriteMultiple(r, m)

(***************************************************************************)
(* The RTU server, listenAndServe: no check of quantity or address; every  *)
(* error of the handler is one of the address.                             *)
(***************************************************************************)
\* createRequestFromBytes: a single coil is always switched on.
Parsed(r) == IF r.fc = "WriteSingleCoil" THEN [r EXCEPT !.vals = [len |-> 1, ones |-> {0}]] ELSE r

\* createBytesFromRequest: bits are rounded to the nearest byte, and only the
\* low four bits of the number of bytes are declared.
RtuData(r, l) ==
  LET bs == IF r.fc \in Bits THEN (l.len + 4) \div 8 ELSE 2 * l.len
  IN  Data(bs % 16, bs, IF r.fc \in Bits THEN First(l, 8 * bs) ELSE l)

RtuServe(r, m) ==
  LET h == Handle(Parsed(r), m)
  IN  IF r.fc = "WriteMultipleRegisters" /\ r.qty % 2 # 0 THEN Reply(Exception("function"), m)
      ELSE IF h.err # Nil THEN Reply(Exception("address"), m)
      ELSE Reply(IF r.fc \in Reads THEN RtuData(r, h.res) ELSE Echo(r), h.mem)

-----------------------------------------------------------------------------
(* One exchange after the other.                                           *)
RequestInit ==
  /\ link \in {"tcp", "rtu"} /\ stage = "rest" /\ mem \in Memories /\ before = mem
  /\ call = Nil /\ req = Nil /\ ans = Nil /\ out = Nil

Ask(c) ==
  /\ stage = "rest" /\ call' = c
  /\ \/ /\ ClientChecks(c) /\ req' = ToRequest(c) /\ stage' = "sent"
        /\ UNCHANGED out
     \/ /\ ~ClientChecks(c) /\ out' = Params /\ stage' = "done"
        /\ UNCHANGED req
  /\ UNCHANGED <<link, ans, mem, before>>

AskForeign(r) ==
  /\ stage = "rest" /\ link = "tcp" /\ req' = r /\ stage' = "sent"
  /\ UNCHANGED <<link, call, ans, out, mem, before>>

Serve ==
  /\ stage = "sent"
  /\ LET reply == IF link = "tcp" THEN TcpServe(req, mem) ELSE RtuServe(req, mem)
     IN  ans' = reply.ans /\ mem' = reply.mem
  /\ before' = mem /\ stage' = IF call = Nil THEN "done" ELSE "answered"
  /\ UNCHANGED <<link, call, req, out>>

Receive ==
  /\ stage = "answered" /\ out' = Check(link, req, ans) /\ stage' = "done"
  /\ UNCHANGED <<link, call, req, ans, mem, before>>

\* Before the next exchange others may have written.
Rest ==
  /\ stage = "done" /\ stage' = "rest" /\ mem' \in Memories /\ before' = mem'
  /\ call' = Nil /\ req' = Nil /\ ans' = Nil /\ out' = Nil
  /\ UNCHANGED link

RequestNext ==
  \/ \E c \in Calls : Ask(c)
  \/ \E r \in Foreigns : AskForeign(r)
  \/ Serve \/ Receive \/ Rest

RequestSpec == RequestInit /\ [][RequestNext]_requestVars

-----------------------------------------------------------------------------
(* Properties *)

RequestTypeOK ==
  /\ link \in {"tcp", "rtu"} /\ stage \in {"rest", "sent", "answered", "done"}
  /\ call # Nil => call \in Call
  /\ req # Nil => req \in Request
  /\ mem \in Memory /\ before \in Memory

Succeeded == stage = "done" /\ call # Nil /\ out.kind = "ok"
Contents(m, c) ==
  Slice(IF c.fc \in Bits THEN m.coils ELSE m.holding, c.addr, c.vals.len)

\* A read that succeeds returns what was at those addresses when the server
\* answered, on either server: an answer the RTU server cut short or declared
\* with the wrong length (server_rtu.go:388-411) is refused, never misread.
ReadIsMemory ==
  Succeeded /\ call.fc \in {"ReadCoils", "ReadHoldingRegisters"} =>
    out.vals = Contents(before, call) /\ mem = before

\* Registers whose bytes a 16-bit length can count (client.go:1139).
Countable == call.vals.len < Word \div 2
Unwritten == call.fc \in Bits /\ call.unit # 1

\* In the window exactly the call's values, elsewhere what was there.
Stored(old, new, window) ==
  /\ new \ window = old \ window
  /\ \A a \in window : a \in new <=> a - call.addr \in call.vals.ones

\* The RTU server takes every value of a single coil, odd or not, for "on"
\* (createRequestFromBytes).
AlwaysOn == link = "rtu" /\ call.fc = "WriteSingleCoil"

\* A write that succeeds has stored exactly its values, but for the read-only
\* coil, and one that fails has changed nothing, on either server, although the
\* RTU server checks neither quantity nor address.  Coils of another unit than 1
\* are acknowledged and not stored (handler.go:21-26).
WriteIsExact ==
  stage = "done" /\ call # Nil /\ call.fc \notin Reads /\ ~AlwaysOn /\ Countable =>
    LET window == call.addr .. call.addr + call.vals.len - 1
    IN  IF ~Succeeded \/ Unwritten THEN mem = before
        ELSE IF call.fc \in Bits
        THEN Stored(before.coils, mem.coils, window \ {80}) /\ mem.holding = before.holding
        ELSE Stored(before.holding, mem.holding, window) /\ mem.coils = before.coils

\* The TCP server takes one kind of request of this client for a protocol
\* error, which costs the connection: WriteCoilValue with a value other than
\* 0xff00 and 0x0000 (client.go:587, server.go:480).  Every limit of the client
\* is within the server's.
OnlyOddDropped ==
  stage = "answered" /\ link = "tcp" /\ Countable => (ans.kind = "drop" <=> call.odd)

\* Whatever is asked, an answer of the TCP server declares its number of
\* bytes and fits in a frame.
AnswerFits ==
  stage \in {"answered", "done"} /\ link = "tcp" /\ ans # Nil /\ ans.kind = "data" =>
    ans.count = ans.bytes /\ ans.bytes + 9 <= 260

\* Client, server and frame agree on every limit: no request but that of an odd
\* value costs the connection, no answer overflows its frame.
WithinLimits == OnlyOddDropped /\ AnswerFits

Exist(c) ==
  /\ \/ c.fc = "ReadCoils" /\ c.unit = 1 /\ c.addr + c.vals.len <= 100
     \/ c.fc = "ReadHoldingRegisters" /\ c.addr + c.vals.len <= Word
  /\ c.vals.len \in 1 .. ClientLimit(c.fc)

\* Over TCP every read of coils or registers that exist succeeds.
ReadServed == stage = "done" /\ call # Nil /\ link = "tcp" /\ Exist(call) => Succeeded

=============================================================================
