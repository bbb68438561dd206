-------------------------- MODULE MCModbusRequests --------------------------
\* Calls and requests at the limits of every function code.
EXTENDS ModbusRequests, TLC

Addrs == {0, 79, 98, 100, 65412, 65535}
Lengths == {0, 1, 2, 7, 9, 13, 99, 123, 124, 125, 126, 1968, 1969, 2000, 2001}
Units == {1, 2}
Patterns(n) == {[len |-> n, ones |-> S] : S \in {0 .. n - 1, {0} \cap 0 .. n - 1}}

MCCalls ==
  UNION {{[fc |-> f, unit |-> u, addr |-> a, vals |-> l, odd |-> FALSE] : f \in Reads, u \in Units, a \in Addrs,
                         l \in {Zeros(n) : n \in Lengths}},
         {[fc |-> f, unit |-> u, addr |-> a, vals |-> l, odd |-> FALSE] : f \in Singles, u \in Units,
                         a \in Addrs, l \in {Zeros(1), [len |-> 1, ones |-> {0}]}},
         {[fc |-> "WriteSingleCoil", unit |-> u, addr |-> a, vals |-> Zeros(1), odd |-> TRUE] :
                         u \in Units, a \in Addrs},
         {[fc |-> f, unit |-> u, addr |-> a, vals |-> l, odd |-> FALSE] :
             f \in {"WriteMultipleCoils", "WriteMultipleRegisters"}, u \in Units, a \in Addrs,
             l \in UNION {Patterns(n) : n \in {0, 1, 2, 9, 123, 124, 1968, 1969}}
                     \cup {[len |-> 32770, ones |-> {0}]}}}

Quantities(f) == IF f \in Singles THEN {1} ELSE {0, 1, 100, 124, 126, 1969, 2001, 4000}
MCForeigns ==
  UNION {{[fc |-> f, unit |-> 1, addr |-> a, qty |-> n, count |-> k, bytes |-> b,
           vals |-> Zeros(n), odd |-> o] :
            a \in {0, 65535}, n \in Quantities(f), k \in {0, 2}, b \in {0, 2},
            o \in {FALSE, f = "WriteSingleCoil"}} :
         f \in Codes \cup {"other"}}

MCMemories ==
  {[coils |-> {}, holding |-> {}],
   [coils |-> {0, 80, 99}, holding |-> {0, 81, 65535}]}
=============================================================================
