--------------------------- MODULE RequestsProofs ---------------------------
(***************************************************************************)
(* Proofs about the viewer's monitor requests (module Requests), for any   *)
(* number of numbers, requests, failures, Clears and applied settings.     *)
(* What is on its way is followed as one line: the queue of writes, then   *)
(* the inbox of the FPGA, then its answers.                                *)
(***************************************************************************)
EXTENDS Requests, FiniteSetTheorems, TLAPS

-----------------------------------------------------------------------------
(* Remainders: a number that starts again is kept modulo a constant.       *)
LEMMA ModRange ==
  ASSUME NEW m \in Nat \ {0}, NEW a \in Int
  PROVE  a % m \in 0 .. m - 1
OBVIOUS

LEMMA ModSmall ==
  ASSUME NEW m \in Nat \ {0}, NEW a \in 0 .. m - 1
  PROVE  a % m = a
OBVIOUS

LEMMA ModQuotient ==
  ASSUME NEW m \in Nat \ {0}, NEW a \in Int
  PROVE  \E q \in Int : a = (m * q) + (a % m)
<1>1. a = (m * (a \div m)) + (a % m)
  OBVIOUS
<1>2. a \div m \in Int
  OBVIOUS
<1> QED BY <1>1, <1>2

LEMMA ModUnique ==
  ASSUME NEW m \in Nat \ {0}, NEW a \in Int, NEW q \in Int, NEW r \in 0 .. m - 1,
         a = m * q + r
  PROVE  a % m = r
OBVIOUS

(* A remainder may be taken once or at every step.                         *)
LEMMA ModAdds ==
  ASSUME NEW m \in Nat \ {0}, NEW a \in Int, NEW b \in Int
  PROVE  ((a % m) + b) % m = (a + b) % m
<1>1. PICK q \in Int : a = (m * q) + (a % m)
  BY ModQuotient
<1>2. PICK p \in Int : (a % m) + b = (m * p) + (((a % m) + b) % m)
  <2>1. (a % m) + b \in Int
    BY ModRange
  <2> QED BY <2>1, ModQuotient
<1>3. ((a % m) + b) % m \in 0 .. m - 1 /\ a % m \in Int
  BY ModRange
<1>4. a + b = (m * (p + q)) + (((a % m) + b) % m)
  <2>1. m * (p + q) = m * p + m * q
    OBVIOUS
  <2>2. m * p \in Int /\ m * q \in Int
    OBVIOUS
  <2> DEFINE x == m * p
             y == m * q
             z == a % m
             w == (z + b) % m
  <2>3. w \in Int /\ z \in Int /\ x \in Int /\ y \in Int
    BY <1>3, <2>2
  <2>4. a = y + z /\ z + b = x + w
    BY <1>1, <1>2
  <2> HIDE DEF x, y, z, w
  <2>5. a + b = (x + y) + w
    BY <2>3, <2>4
  <2>6. m * (p + q) = x + y
    BY <2>1 DEF x, y
  <2> QED BY <2>3, <2>5, <2>6 DEF w, z
<1>5. p + q \in Int /\ a + b \in Int
  OBVIOUS
<1> QED BY <1>3, <1>4, <1>5, ModUnique

(* Less than m apart, two numbers have different remainders.               *)
LEMMA ModApart ==
  ASSUME NEW m \in Nat \ {0}, NEW a \in Int, NEW d \in 1 .. m - 1
  PROVE  a % m # (a + d) % m
<1> DEFINE r == a % m
<1>1. r \in 0 .. m - 1
  BY ModRange
<1>2. (a + d) % m = (r + d) % m
  <2>1. d \in Int
    OBVIOUS
  <2> QED BY <2>1, ModAdds, Zenon
<1>3. CASE r + d < m
  <2>1. r + d \in 0 .. m - 1
    BY <1>1, <1>3
  <2>2. (r + d) % m = r + d
    BY <2>1, ModSmall
  <2> QED BY <1>1, <1>2, <2>2
<1>4. CASE r + d >= m
  <2> DEFINE s == r + d - m
             t == r + d
  <2>1. s \in 0 .. m - 1 /\ t = m * 1 + s /\ t \in Int /\ s # r
    BY <1>1, <1>4
  <2> HIDE DEF s, t
  <2>2. t % m = s
    BY <2>1, ModUnique
  <2> QED BY <1>2, <2>1, <2>2 DEF t
<1> QED BY <1>1, <1>3, <1>4

(* Counting on by one.                                                     *)
LEMMA ModNext ==
  ASSUME NEW m \in Nat \ {0}, NEW a \in Int
  PROVE  (a + 1) % m = IF a % m = m - 1 THEN 0 ELSE (a % m) + 1
<1> DEFINE r == a % m
<1>1. r \in 0 .. m - 1
  BY ModRange
<1>2. (a + 1) % m = (r + 1) % m
  <2>1. 1 \in Int
    OBVIOUS
  <2> QED BY <2>1, ModAdds, Zenon
<1>3. CASE r = m - 1
  <2>1. r + 1 = m * 1 + 0 /\ 0 \in 0 .. m - 1 /\ r + 1 \in Int
    BY <1>1, <1>3
  <2>2. (r + 1) % m = 0
    <3> DEFINE t == r + 1
    <3>1. t \in Int /\ t = m * 1 + 0 /\ 0 \in 0 .. m - 1
      BY <2>1
    <3> HIDE DEF t
    <3>2. t % m = 0
      BY <3>1, ModUnique
    <3> QED BY <3>2 DEF t
  <2> QED BY <1>2, <1>3, <2>2
<1>4. CASE r # m - 1
  <2>1. r + 1 \in 0 .. m - 1
    BY <1>1, <1>4
  <2>2. (r + 1) % m = r + 1
    BY <2>1, ModSmall
  <2> QED BY <1>2, <1>4, <2>2
<1> QED BY <1>3, <1>4

(* Two numbers with the same remainder are equal or at least m apart.      *)
LEMMA ModSame ==
  ASSUME NEW m \in Nat \ {0}, NEW a \in Int, NEW b \in Int, a < b, a % m = b % m
  PROVE  b - a >= m
<1> SUFFICES ASSUME b - a < m PROVE FALSE
  OBVIOUS
<1>1. b - a \in 1 .. m - 1 /\ a + (b - a) = b
  OBVIOUS
<1>2. a % m # (a + (b - a)) % m
  BY <1>1, ModApart
<1> QED BY <1>1, <1>2

-----------------------------------------------------------------------------
(* The kinds of what the variables hold.                                   *)
Messages ==
  [op : {"read", "write"}, seq : 1 .. MaxSeq, id : Nat, addr : Addrs, value : Nat]
Responses ==
  [kind : {"read", "write"}, seq : 1 .. MaxSeq, id : Nat, addr : Addrs,
   status : {OK, BAD_VALUE}, value : Nat]
Entries == [id : Nat, addr : Addrs, age : 0 .. Timeout - 1]
Tables == UNION {[numbers -> Entries] : numbers \in SUBSET (1 .. MaxSeq)}
States ==
  [values : {NoEntries}, pending : Tables, seq : 1 .. MaxSeq, pollEnabled : BOOLEAN,
   errors : {<<>>}]
Clients == [m : States, queue : Seq(Messages), asked : Nat]
Calls == [object : Nat \ {0}, next : {2, 3}, awaits : Nat]

KindsInv ==
  /\ client \in Clients /\ link \in BOOLEAN
  /\ inbox \in Seq(Messages) /\ answers \in Seq(Responses)
  /\ device \in [Addrs -> Nat] /\ device["capture_depth"] \in 1 .. SampleDepth
  /\ configs \in Seq([Addrs -> Nat]) /\ configs # <<>>
  /\ applies \in Seq(Calls) /\ \A a \in 1 .. Len(applies) : applies[a].object <= Len(configs)
  /\ lastWrite \in [Addrs -> Nat] /\ clears \in Nat /\ forgotten \in Nat

(* The bound on requests holds room for the writes that are owed.          *)
RoomInv == client.asked + Cardinality(Owed) <= MaxRequests

-----------------------------------------------------------------------------
(* The numbers.  Since the last Clear request id has the number that       *)
(* counting from 1 to MaxSeq in circles gives it; what is pending under a  *)
(* number is the last request that took it.                                *)
NumberOf(id, first) == ((id - first - 1) % MaxSeq) + 1

Numbered(c, first) ==
  /\ first <= c.asked
  /\ c.m.seq = NumberOf(c.asked + 1, first)
  /\ \A s \in DOMAIN c.m.pending :
       LET id == c.m.pending[s].id
       IN first < id /\ id <= c.asked /\ c.asked - id < MaxSeq /\ s = NumberOf(id, first)

OnItsWay(x, c, first) ==
  /\ x.id \in 1 .. c.asked
  /\ first < x.id => x.seq = NumberOf(x.id, first)

Line == ToSet(client.queue) \cup ToSet(inbox)
NumbersInv ==
  /\ Numbered(client, forgotten)
  /\ \A x \in Line \cup ToSet(answers) : OnItsWay(x, client, forgotten)
  /\ failed \subseteq 1 .. client.asked
  /\ foreign \subseteq (1 .. client.asked) \X (1 .. client.asked)

-----------------------------------------------------------------------------
(* The settings.  Requests stand in line in the order of their ids; a call *)
(* that still owes a write awaits one in the queue.                        *)
Ascending(q) == \A i, j \in 1 .. Len(q) : i < j => q[i].id < q[j].id
Owes(r) == r = Registers[2] /\ \E a \in 1 .. Len(applies) : applies[a].next = 2

LineInv ==
  /\ Ascending(client.queue) /\ Ascending(inbox)
  /\ \A x \in ToSet(inbox), y \in ToSet(client.queue) : x.id < y.id
  /\ \A a \in 1 .. Len(applies) : applies[a].next = 2 =>
       \E x \in ToSet(client.queue) : x.id = applies[a].awaits
  /\ \A a, b \in 1 .. Len(applies) :
       applies[a].next = 2 /\ applies[b].next = 2 /\ applies[a].awaits = applies[b].awaits
       => a = b

WritesTo(r) == {x \in Line : x.op = "write" /\ x.addr = r}

(* The settings are in the register, and stay there.                       *)
Reached(r) == (Owes(r) \/ device[r] = Last(configs)[r]) /\ WritesTo(r) = {}

(* The request that writes register r last: it is the last in line; what   *)
(* it writes are the settings; it is pending, was reported, reached the    *)
(* register, or its number was taken by another.                           *)
Holds(c, w) ==
  (\E s \in DOMAIN c.m.pending : c.m.pending[s].id = w) \/ c.asked - w >= MaxSeq

LastWriteInv(r) ==
  /\ lastWrite[r] <= client.asked
  /\ \A x \in WritesTo(r) : x.id <= lastWrite[r]
  /\ \A x \in Line : x.id = lastWrite[r] =>
       x \in WritesTo(r) /\ (Owes(r) \/ x.value = Last(configs)[r])
  /\ \A x \in ToSet(answers) : x.id = lastWrite[r] /\ x.status = OK => Reached(r)
  /\ lastWrite[r] = 0 => Owes(r) \/ applies = <<>>
  /\ lastWrite[r] # 0 =>
       Holds(client, lastWrite[r]) \/ lastWrite[r] \in failed \/ Reached(r)

ConfigInv == clears = 0 /\ foreign = {} => Len(configs) = 1 /\ \A r \in Addrs : LastWriteInv(r)

-----------------------------------------------------------------------------
(* Sequences by their elements.                                            *)
LEMMA Elements ==
  ASSUME NEW T, NEW q \in Seq(T)
  PROVE  ToSet(q) = {q[i] : i \in 1 .. Len(q)}
BY DEF ToSet

LEMMA Joined ==
  ASSUME NEW T, NEW q \in Seq(T), NEW x \in T
  PROVE  /\ Append(q, x) \in Seq(T) /\ Len(Append(q, x)) = Len(q) + 1
         /\ \A i \in 1 .. Len(q) : Append(q, x)[i] = q[i]
         /\ Append(q, x)[Len(q) + 1] = x
         /\ ToSet(Append(q, x)) = ToSet(q) \cup {x}
<1>1. /\ Append(q, x) \in Seq(T) /\ Len(Append(q, x)) = Len(q) + 1
      /\ \A i \in 1 .. Len(q) : Append(q, x)[i] = q[i]
      /\ Append(q, x)[Len(q) + 1] = x
      /\ Len(q) \in Nat
  OBVIOUS
<1> DEFINE longer == Append(q, x)
<1> HIDE DEF longer
<1>2. ToSet(q) = {q[i] : i \in 1 .. Len(q)} /\ ToSet(longer) = {longer[i] : i \in 1 .. Len(longer)}
  BY <1>1, Elements DEF longer
<1>3. 1 .. Len(longer) = (1 .. Len(q)) \cup {Len(q) + 1}
  BY <1>1 DEF longer
<1>4. /\ \A i \in 1 .. Len(q) : longer[i] = q[i]
      /\ longer[Len(q) + 1] = x
  BY <1>1 DEF longer
<1>5. ToSet(longer) = ToSet(q) \cup {x}
  <2> DEFINE n == Len(q)
             k == Len(longer)
  <2> HIDE DEF n, k
  <2>1. ToSet(q) = {q[i] : i \in 1 .. n} /\ ToSet(longer) = {longer[i] : i \in 1 .. k}
    BY <1>2 DEF n, k
  <2>2. /\ 1 .. k = (1 .. n) \cup {n + 1} /\ longer[n + 1] = x
        /\ \A i \in 1 .. n : longer[i] = q[i]
    BY <1>3, <1>4 DEF n, k
  <2> QED BY <2>1, <2>2
<1> QED BY <1>1, <1>5 DEF longer

LEMMA Taken ==
  ASSUME NEW T, NEW q \in Seq(T), q # <<>>
  PROVE  /\ Tail(q) \in Seq(T) /\ Head(q) \in T /\ Head(q) \in ToSet(q)
         /\ Len(q) \in Nat /\ Len(Tail(q)) = Len(q) - 1 /\ Head(q) = q[1] /\ 1 \in 1 .. Len(q)
         /\ \A i \in 1 .. Len(Tail(q)) : Tail(q)[i] = q[i + 1] /\ i + 1 \in 2 .. Len(q)
         /\ ToSet(Tail(q)) \subseteq ToSet(q)
         /\ \A x \in ToSet(q) : x = Head(q) \/ x \in ToSet(Tail(q))
<1>1. /\ Tail(q) \in Seq(T) /\ Head(q) \in T /\ Head(q) = q[1]
      /\ Len(q) \in Nat /\ 1 \in 1 .. Len(q)
      /\ Len(Tail(q)) = Len(q) - 1
      /\ \A i \in 1 .. Len(Tail(q)) : Tail(q)[i] = q[i + 1]
  OBVIOUS
<1> DEFINE rest == Tail(q)
<1> HIDE DEF rest
<1>2. ToSet(q) = {q[i] : i \in 1 .. Len(q)} /\ ToSet(rest) = {rest[i] : i \in 1 .. Len(rest)}
  <2>1. q \in Seq(T) /\ rest \in Seq(T)
    BY <1>1 DEF rest
  <2> QED BY <2>1, Elements
<1>3. \A i \in 1 .. Len(rest) : rest[i] = q[i + 1] /\ i + 1 \in 2 .. Len(q)
  BY <1>1 DEF rest
<1>4. ToSet(rest) \subseteq ToSet(q)
  BY <1>2, <1>3
<1>5. ASSUME NEW i \in 1 .. Len(q) PROVE q[i] = q[1] \/ q[i] \in ToSet(rest)
  <2>1. CASE i = 1
    BY <2>1
  <2>2. CASE i # 1
    <3>1. i - 1 \in 1 .. Len(rest) /\ (i - 1) + 1 = i
      BY <1>1, <2>2 DEF rest
    <3> QED BY <1>2, <1>3, <3>1
  <2> QED BY <2>1, <2>2
<1>6. q[1] \in ToSet(q)
  BY <1>1, <1>2
<1> QED BY <1>1, <1>2, <1>3, <1>4, <1>5, <1>6 DEF rest

LEMMA Members ==
  ASSUME NEW T, NEW q \in Seq(T)
  PROVE  /\ ToSet(q) \subseteq T
         /\ \A x \in ToSet(q) : \E i \in 1 .. Len(q) : q[i] = x
         /\ \A i \in 1 .. Len(q) : q[i] \in ToSet(q)
         /\ q # <<>> => ToSet(q) # {}
BY DEF ToSet

LEMMA TwoRegisters ==
  /\ Len(Registers) = 2 /\ Registers[1] = "capture_depth" /\ Registers[2] = "pretrigger_depth"
  /\ Addrs = {Registers[1], Registers[2]} /\ Registers[1] # Registers[2]
  /\ 1 .. Len(Registers) = {1, 2}
BY DEF Registers, Addrs

-----------------------------------------------------------------------------
(* What a request does to the client.                                      *)
LEMMA AskEffect ==
  ASSUME NEW c \in Clients, NEW op \in {"read", "write"}, NEW addr \in Addrs, NEW value \in Nat,
         NEW d, d = Ask(c, op, addr, value)
  PROVE  /\ d \in Clients /\ d.asked = c.asked + 1 /\ d.m.seq = nextMonitorSeq(c.m)
         /\ d.queue = Append(c.queue, [op |-> op, seq |-> c.m.seq, id |-> c.asked + 1,
                                       addr |-> addr, value |-> value])
         /\ DOMAIN d.m.pending = DOMAIN c.m.pending \cup {c.m.seq}
         /\ d.m.pending[c.m.seq].id = c.asked + 1
         /\ \A s \in DOMAIN c.m.pending \ {c.m.seq} : d.m.pending[s] = c.m.pending[s]
<1>1. c.m \in States /\ c.queue \in Seq(Messages) /\ c.asked \in Nat
  BY DEF Clients
<1>2. c.m.seq \in 1 .. MaxSeq /\ c.m.pending \in Tables
  BY <1>1 DEF States
<1> DEFINE id == c.asked + 1
           entry == [id |-> id, addr |-> addr, age |-> 0]
           p == c.m.pending
           table == [s \in DOMAIN p \cup {c.m.seq} |-> IF s = c.m.seq THEN entry ELSE p[s]]
           message == [op |-> op, seq |-> c.m.seq, id |-> id, addr |-> addr, value |-> value]
<1>3. entry \in Entries /\ message \in Messages
  BY <1>1, <1>2, RequestsAssumption DEF Entries, Messages
<1>4. table \in Tables
  <2>1. PICK numbers \in SUBSET (1 .. MaxSeq) : p \in [numbers -> Entries]
    BY <1>2 DEF Tables
  <2>2. table \in [numbers \cup {c.m.seq} -> Entries]
    BY <1>3, <2>1
  <2>3. numbers \cup {c.m.seq} \in SUBSET (1 .. MaxSeq)
    BY <1>2, <2>1
  <2> QED BY <2>2, <2>3 DEF Tables
<1>5. nextMonitorSeq(c.m) \in 1 .. MaxSeq
  BY <1>2, MonitorClientAssumption DEF nextMonitorSeq
<1>6. d = [m |-> [c.m EXCEPT !.seq = nextMonitorSeq(c.m), !.pending = table],
           queue |-> Append(c.queue, message), asked |-> id]
  BY DEF Ask, encodeMonitor
<1>7. Append(c.queue, message) \in Seq(Messages) /\ id \in Nat
  BY <1>1, <1>3
<1> DEFINE n == nextMonitorSeq(c.m)
<1>8. d.m = [c.m EXCEPT !.seq = n, !.pending = table] /\ d.asked = id
      /\ d.queue = Append(c.queue, message)
  BY <1>6
<1> HIDE DEF n, table, message, p, entry
<1>9. d.m \in States /\ d.m.seq = n /\ d.m.pending = table
  BY <1>1, <1>4, <1>5, <1>8 DEF States, n
<1>10. d \in Clients
  BY <1>6, <1>7, <1>8, <1>9 DEF Clients, n, table, message, p, entry
<1>11. /\ DOMAIN table = DOMAIN p \cup {c.m.seq} /\ table[c.m.seq] = entry
       /\ \A s \in DOMAIN p \ {c.m.seq} : table[s] = p[s]
  BY DEF table
<1>12. entry.id = id
  BY DEF entry
<1> QED BY <1>8, <1>9, <1>10, <1>11, <1>12 DEF n, p, message

(* What else happens to the client takes from it: the head of its queue,   *)
(* or requests that are pending.                                           *)
Less(c, d) ==
  /\ d \in Clients /\ d.asked = c.asked /\ d.m.seq = c.m.seq
  /\ DOMAIN d.m.pending \subseteq DOMAIN c.m.pending
  /\ \A s \in DOMAIN d.m.pending : d.m.pending[s].id = c.m.pending[s].id

LEMMA ClientParts ==
  ASSUME NEW c \in Clients
  PROVE  /\ c.m \in States /\ c.queue \in Seq(Messages) /\ c.asked \in Nat
         /\ c.m.seq \in 1 .. MaxSeq /\ c.m.pending \in Tables /\ c.m.pollEnabled \in BOOLEAN
         /\ c.m.values = NoEntries /\ c.m.errors = <<>>
         /\ DOMAIN c.m.pending \subseteq 1 .. MaxSeq
         /\ \A s \in DOMAIN c.m.pending : c.m.pending[s] \in Entries
         /\ c = [m |-> c.m, queue |-> c.queue, asked |-> c.asked]
<1>1. /\ c.m \in States /\ c.queue \in Seq(Messages) /\ c.asked \in Nat
      /\ c = [m |-> c.m, queue |-> c.queue, asked |-> c.asked]
  BY DEF Clients
<1>2. /\ c.m.seq \in 1 .. MaxSeq /\ c.m.pending \in Tables /\ c.m.pollEnabled \in BOOLEAN
      /\ c.m.values = NoEntries /\ c.m.errors = <<>>
  BY <1>1 DEF States
<1>3. PICK numbers \in SUBSET (1 .. MaxSeq) : c.m.pending \in [numbers -> Entries]
  BY <1>2 DEF Tables
<1>4. /\ DOMAIN c.m.pending \subseteq 1 .. MaxSeq
      /\ \A s \in DOMAIN c.m.pending : c.m.pending[s] \in Entries
  BY <1>3
<1> QED BY <1>1, <1>2, <1>4

(* An error that is recorded, and no more.                                 *)
LEMMA ErrorEffect ==
  ASSUME NEW c \in Clients
  PROVE  [c EXCEPT !.m = Kept(addMonitorError(@, "monitor_error"))] = c
<1> DEFINE m == c.m
<1>1. m \in States /\ c = [m |-> m, queue |-> c.queue, asked |-> c.asked]
  BY ClientParts
<1>2. m.values = NoEntries /\ m.errors = <<>>
  BY <1>1 DEF States
<1>3. Kept(addMonitorError(m, "monitor_error")) = m
  <2> DEFINE e == Unshift(m.errors, "monitor_error", MaxErrors)
  <2> HIDE DEF e, m
  <2>1. [[[m EXCEPT !.errors = e] EXCEPT !.values = NoEntries] EXCEPT !.errors = <<>>] = m
    BY <1>1, <1>2 DEF States
  <2> QED BY <2>1 DEF Kept, addMonitorError, e
<1> QED BY <1>1, <1>3

(* A table without some of its numbers.                                    *)
With(c, table) == [c EXCEPT !.m = [c.m EXCEPT !.pending = table]]
Within(table, c) ==
  /\ table \in Tables /\ DOMAIN table \subseteq DOMAIN c.m.pending
  /\ \A s \in DOMAIN table : table[s].id = c.m.pending[s].id

LEMMA Smaller ==
  ASSUME NEW c \in Clients, NEW table, Within(table, c)
  PROVE  /\ Less(c, With(c, table)) /\ With(c, table).queue = c.queue
         /\ With(c, table).m.pending = table
<1> DEFINE m == [c.m EXCEPT !.pending = table]
           d == With(c, table)
<1>1. /\ c.m \in States /\ c.queue \in Seq(Messages) /\ c.asked \in Nat
      /\ c = [m |-> c.m, queue |-> c.queue, asked |-> c.asked]
  BY ClientParts
<1>2. m \in States /\ m.seq = c.m.seq /\ m.pending = table
  BY <1>1 DEF States, Within
<1> HIDE DEF m, d
<1>3. d = [m |-> m, queue |-> c.queue, asked |-> c.asked]
  BY <1>1 DEF m, d, With
<1>4. d \in Clients /\ d.m = m /\ d.queue = c.queue /\ d.asked = c.asked
  BY <1>1, <1>2, <1>3 DEF Clients
<1> QED BY <1>2, <1>4 DEF Less, Within, d

(* The answer that settles a request, or that finds none.                  *)
LEMMA AnswerEffect ==
  ASSUME NEW c \in Clients, NEW r \in Responses, NEW d,
         d = [c EXCEPT !.m = Kept(decodeMonitorResponse(@, r))]
  PROVE  /\ Less(c, d) /\ d.queue = c.queue
         /\ DOMAIN d.m.pending = DOMAIN c.m.pending \ {r.seq}
<1> DEFINE m == c.m
           table == [s \in DOMAIN m.pending \ {r.seq} |-> m.pending[s]]
<1>1. /\ m \in States /\ c = [m |-> m, queue |-> c.queue, asked |-> c.asked]
      /\ m.values = NoEntries /\ m.errors = <<>>
      /\ DOMAIN m.pending \subseteq 1 .. MaxSeq
      /\ \A s \in DOMAIN m.pending : m.pending[s] \in Entries
  BY ClientParts
<1>2. table \in Tables
  <2>1. DOMAIN m.pending \ {r.seq} \in SUBSET (1 .. MaxSeq)
    BY <1>1
  <2>2. table \in [DOMAIN m.pending \ {r.seq} -> Entries]
    BY <1>1
  <2> QED BY <2>1, <2>2 DEF Tables
<1>3. /\ DOMAIN table = DOMAIN m.pending \ {r.seq}
      /\ \A s \in DOMAIN table : table[s] = m.pending[s]
  OBVIOUS
<1>4. Kept(decodeMonitorResponse(m, r)) = [m EXCEPT !.pending = table]
  <2> DEFINE settled == [m EXCEPT !.pending = table]
             valued == IF r.status = 0 THEN updateMonitorValue(settled, r.addr, r.value)
                       ELSE settled
             answered == IF r.seq \notin DOMAIN m.pending \/ r.status # 0
                         THEN addMonitorError(valued, r.kind) ELSE valued
             v == [a \in DOMAIN settled.values \cup {r.addr} |->
                     IF a = r.addr THEN r.value ELSE settled.values[a]]
  <2>1. decodeMonitorResponse(m, r) = answered
    BY DEF decodeMonitorResponse
  <2> HIDE DEF m, table
  <2>2. settled = [settled EXCEPT !.errors = <<>>, !.values = NoEntries]
    BY <1>1 DEF States
  <2>3. valued = settled \/ valued = [settled EXCEPT !.values = v]
    BY DEF updateMonitorValue
  <2> DEFINE e == Unshift(valued.errors, r.kind, MaxErrors)
  <2>4. answered = valued \/ answered = [valued EXCEPT !.errors = e]
    BY DEF addMonitorError
  <2>5. \A x, y, z : /\ [settled EXCEPT !.values = NoEntries, !.errors = <<>>] = settled
                     /\ [[settled EXCEPT !.values = x] EXCEPT !.values = NoEntries,
                                                              !.errors = <<>>] = settled
                     /\ [[settled EXCEPT !.errors = y] EXCEPT !.values = NoEntries,
                                                              !.errors = <<>>] = settled
                     /\ [[[settled EXCEPT !.values = x] EXCEPT !.errors = y]
                           EXCEPT !.values = NoEntries, !.errors = <<>>] = settled
    BY <1>1 DEF States
  <2> HIDE DEF e, v, settled, valued, answered
  <2>6. [answered EXCEPT !.values = NoEntries, !.errors = <<>>] = settled
    BY <2>3, <2>4, <2>5
  <2> QED BY <2>1, <2>6 DEF Kept, settled
<1>5. d = With(c, table)
  BY <1>4 DEF With
<1> HIDE DEF table
<1>6. Within(table, c)
  BY <1>2, <1>3 DEF Within
<1>7. /\ Less(c, With(c, table)) /\ With(c, table).queue = c.queue
      /\ With(c, table).m.pending = table
  BY <1>6, Smaller
<1> QED BY <1>3, <1>5, <1>7

(* A round of the timer.                                                   *)
LEMMA ExpiryEffect ==
  ASSUME NEW c \in Clients, NEW d, d = [c EXCEPT !.m = expireMonitorPending(c.m)]
  PROVE  /\ Less(c, d) /\ d.queue = c.queue
         /\ DOMAIN d.m.pending = DOMAIN c.m.pending \ Overdue(c.m)
<1> DEFINE m == c.m
           stay == DOMAIN m.pending \ Overdue(m)
           table == [s \in stay |-> Older(m.pending[s])]
<1>1. /\ m \in States /\ c = [m |-> m, queue |-> c.queue, asked |-> c.asked]
      /\ DOMAIN m.pending \subseteq 1 .. MaxSeq
      /\ \A s \in DOMAIN m.pending : m.pending[s] \in Entries
  BY ClientParts
<1>2. ASSUME NEW s \in stay
      PROVE  /\ table[s] \in Entries /\ table[s].id = m.pending[s].id
  <2>1. m.pending[s] \in Entries /\ ~(m.pending[s].age + 1 >= Timeout)
    BY <1>1, <1>2 DEF Overdue
  <2>2. table[s] = [m.pending[s] EXCEPT !.age = @ + 1]
    BY <1>2 DEF Older
  <2> HIDE DEF m, table
  <2>3. m.pending[s].age + 1 \in 0 .. Timeout - 1
    BY <2>1, RequestsAssumption DEF Entries
  <2> QED BY <2>1, <2>2, <2>3 DEF Entries
<1>3. table \in Tables
  <2>1. stay \in SUBSET (1 .. MaxSeq)
    BY <1>1
  <2>2. table \in [stay -> Entries]
    BY <1>2
  <2> QED BY <2>1, <2>2 DEF Tables
<1>4. DOMAIN table = stay
  OBVIOUS
<1>5. d = With(c, table)
  BY DEF With, expireMonitorPending
<1> HIDE DEF table
<1>6. Within(table, c)
  BY <1>2, <1>3, <1>4 DEF Within
<1>7. /\ Less(c, With(c, table)) /\ With(c, table).queue = c.queue
      /\ With(c, table).m.pending = table
  BY <1>6, Smaller
<1> QED BY <1>4, <1>5, <1>7

(* Polling is switched, or the requests of before are forgotten.           *)
LEMMA SwitchEffect ==
  ASSUME NEW c \in Clients, NEW d, d = [c EXCEPT !.m.pollEnabled = ~@]
  PROVE  Less(c, d) /\ d.queue = c.queue /\ d.m.pending = c.m.pending
<1>1. /\ c.m \in States /\ c = [m |-> c.m, queue |-> c.queue, asked |-> c.asked]
      /\ c.queue \in Seq(Messages) /\ c.asked \in Nat
  BY ClientParts
<1>2. /\ d.m = [c.m EXCEPT !.pollEnabled = ~@] /\ d.queue = c.queue /\ d.asked = c.asked
      /\ d = [m |-> d.m, queue |-> d.queue, asked |-> d.asked]
  BY <1>1
<1>3. d.m \in States /\ d.m.seq = c.m.seq /\ d.m.pending = c.m.pending
  BY <1>1, <1>2 DEF States
<1>4. d \in Clients
  BY <1>1, <1>2, <1>3 DEF Clients
<1> QED BY <1>2, <1>3, <1>4 DEF Less

LEMMA ClearEffect ==
  ASSUME NEW c \in Clients, NEW d, d = [c EXCEPT !.m = createMonitorState]
  PROVE  /\ d \in Clients /\ d.queue = c.queue /\ d.asked = c.asked
         /\ d.m.seq = 1 /\ DOMAIN d.m.pending = {}
<1>1. /\ c = [m |-> c.m, queue |-> c.queue, asked |-> c.asked]
      /\ c.queue \in Seq(Messages) /\ c.asked \in Nat
  BY ClientParts
<1>2. d = [m |-> createMonitorState, queue |-> c.queue, asked |-> c.asked]
  BY <1>1
<1>3. NoEntries \in Tables /\ DOMAIN NoEntries = {}
  <2>1. NoEntries \in [{} -> Entries] /\ {} \in SUBSET (1 .. MaxSeq)
    BY DEF NoEntries
  <2> QED BY <2>1 DEF Tables, NoEntries
<1>4. /\ createMonitorState \in States /\ createMonitorState.seq = 1
      /\ createMonitorState.pending = NoEntries
  BY <1>3, MonitorClientAssumption DEF createMonitorState, States
<1> QED BY <1>1, <1>2, <1>3, <1>4 DEF Clients

LEMMA SentEffect ==
  ASSUME NEW c \in Clients, c.queue # <<>>, NEW d, d = [c EXCEPT !.queue = Tail(@)]
  PROVE  Less(c, d) /\ d.queue = Tail(c.queue) /\ d.m.pending = c.m.pending
<1>1. /\ c.m \in States /\ c = [m |-> c.m, queue |-> c.queue, asked |-> c.asked]
      /\ Tail(c.queue) \in Seq(Messages) /\ c.asked \in Nat
  BY ClientParts
<1>2. d = [m |-> c.m, queue |-> Tail(c.queue), asked |-> c.asked]
  BY <1>1
<1> QED BY <1>1, <1>2 DEF Less, Clients

-----------------------------------------------------------------------------
(* The numbers, counted in circles.                                        *)
LEMMA NumberRange ==
  ASSUME NEW id \in Nat, NEW first \in Nat
  PROVE  NumberOf(id, first) \in 1 .. MaxSeq
<1>1. id - first - 1 \in Int /\ MaxSeq \in Nat \ {0}
  BY MonitorClientAssumption
<1>2. (id - first - 1) % MaxSeq \in 0 .. MaxSeq - 1
  BY <1>1, ModRange
<1> QED BY <1>1, <1>2 DEF NumberOf

LEMMA NumberNext ==
  ASSUME NEW id \in Nat, NEW first \in Nat, NEW m, m.seq = NumberOf(id, first)
  PROVE  nextMonitorSeq(m) = NumberOf(id + 1, first)
<1> DEFINE a == id - first - 1
           r == a % MaxSeq
<1>1. a \in Int /\ a + 1 = (id + 1) - first - 1 /\ MaxSeq \in Nat \ {0}
  BY MonitorClientAssumption
<1> HIDE DEF a
<1>2. r \in 0 .. MaxSeq - 1
  BY <1>1, ModRange
<1>3. (a + 1) % MaxSeq = IF r = MaxSeq - 1 THEN 0 ELSE r + 1
  BY <1>1, ModNext
<1>4. NumberOf(id, first) = r + 1 /\ NumberOf(id + 1, first) = ((a + 1) % MaxSeq) + 1
  BY <1>1 DEF NumberOf, a
<1> HIDE DEF r
<1>5. nextMonitorSeq(m) = IF r + 1 = MaxSeq THEN 1 ELSE (r + 1) + 1
  BY <1>4 DEF nextMonitorSeq
<1> QED BY <1>1, <1>2, <1>3, <1>4, <1>5

LEMMA NumberSame ==
  ASSUME NEW first \in Nat, NEW i \in Nat, NEW j \in Nat, i < j,
         NumberOf(i, first) = NumberOf(j, first)
  PROVE  j - i >= MaxSeq
<1> DEFINE a == i - first - 1
           b == j - first - 1
<1>1. a \in Int /\ b \in Int /\ a < b /\ b - a = j - i /\ MaxSeq \in Nat \ {0}
  BY MonitorClientAssumption
<1>2. NumberOf(i, first) = (a % MaxSeq) + 1 /\ NumberOf(j, first) = (b % MaxSeq) + 1
  BY DEF NumberOf
<1> HIDE DEF a, b
<1>3. a % MaxSeq \in 0 .. MaxSeq - 1 /\ b % MaxSeq \in 0 .. MaxSeq - 1
  BY <1>1, ModRange
<1>4. a % MaxSeq = b % MaxSeq
  <2> DEFINE u == a % MaxSeq
             v == b % MaxSeq
  <2>1. u \in Int /\ v \in Int /\ u + 1 = v + 1
    <3>1. u \in 0 .. MaxSeq - 1 /\ v \in 0 .. MaxSeq - 1
      BY <1>3
    <3>2. u + 1 = v + 1
      BY <1>2
    <3> HIDE DEF u, v
    <3> QED BY <1>1, <3>1, <3>2
  <2> HIDE DEF u, v
  <2>2. u = v
    BY <2>1
  <2> QED BY <2>2 DEF u, v
<1>5. b - a >= MaxSeq
  BY <1>1, <1>4, ModSame
<1> QED BY <1>1, <1>5

(* A client keeps its numbers when it asks, and when it forgets.           *)
LEMMA NumbersAsk ==
  ASSUME NEW c \in Clients, NEW first \in Nat, Numbered(c, first),
         NEW op \in {"read", "write"}, NEW addr \in Addrs, NEW value \in Nat,
         NEW d, d = Ask(c, op, addr, value)
  PROVE  /\ Numbered(d, first)
         /\ \A x : OnItsWay(x, c, first) => OnItsWay(x, d, first)
         /\ \A x \in ToSet(d.queue) \ ToSet(c.queue) : OnItsWay(x, d, first)
         /\ \A s \in DOMAIN c.m.pending : Holds(d, c.m.pending[s].id)
<1>1. /\ c.asked \in Nat /\ c.queue \in Seq(Messages) /\ c.m.seq \in 1 .. MaxSeq
      /\ \A s \in DOMAIN c.m.pending : c.m.pending[s].id \in Nat
  BY ClientParts DEF Entries
<1> DEFINE x0 == [op |-> op, seq |-> c.m.seq, id |-> c.asked + 1, addr |-> addr, value |-> value]
<1>2. /\ d \in Clients /\ d.asked = c.asked + 1 /\ d.m.seq = nextMonitorSeq(c.m)
      /\ d.queue = Append(c.queue, x0)
      /\ DOMAIN d.m.pending = DOMAIN c.m.pending \cup {c.m.seq}
      /\ d.m.pending[c.m.seq].id = c.asked + 1
      /\ \A s \in DOMAIN c.m.pending \ {c.m.seq} : d.m.pending[s] = c.m.pending[s]
  BY SMTT(20), AskEffect
<1>3. /\ first <= c.asked /\ c.m.seq = NumberOf(c.asked + 1, first)
      /\ \A s \in DOMAIN c.m.pending :
           /\ first < c.m.pending[s].id /\ c.m.pending[s].id <= c.asked
           /\ c.asked - c.m.pending[s].id < MaxSeq /\ s = NumberOf(c.m.pending[s].id, first)
  BY DEF Numbered
<1>4. MaxSeq \in Nat \ {0}
  BY MonitorClientAssumption
<1>5. ASSUME NEW s \in DOMAIN c.m.pending
      PROVE  /\ s = c.m.seq => d.asked - c.m.pending[s].id >= MaxSeq
             /\ s # c.m.seq => d.asked - c.m.pending[s].id < MaxSeq
  <2> DEFINE i == c.m.pending[s].id
             j == c.asked + 1
  <2>1. i \in Nat /\ j \in Nat /\ i < j /\ j - 1 - i < MaxSeq /\ d.asked = j
        /\ s = NumberOf(i, first) /\ c.m.seq = NumberOf(j, first)
    BY SMTT(20), <1>1, <1>2, <1>3
  <2> HIDE DEF i, j
  <2>2. s = c.m.seq => j - i >= MaxSeq
    BY <2>1, NumberSame
  <2>3. s # c.m.seq => j - i < MaxSeq
    <3> SUFFICES ASSUME s # c.m.seq, j - i >= MaxSeq PROVE FALSE
      BY <1>4, <2>1
    <3>1. j - i = MaxSeq
      BY <1>4, <2>1
    <3>2. NumberOf(j, first) = NumberOf(i, first)
      <4> DEFINE a == i - first - 1
      <4>1. a \in Int /\ j - first - 1 = a + MaxSeq
        BY <1>4, <2>1, <3>1
      <4>2. (a + MaxSeq) % MaxSeq = a % MaxSeq
        <5> HIDE DEF a
        <5>1. PICK q \in Int : a = (MaxSeq * q) + (a % MaxSeq)
          BY <1>4, <4>1, ModQuotient
        <5>2. a % MaxSeq \in 0 .. MaxSeq - 1
          BY <1>4, <4>1, ModRange
        <5>3. a + MaxSeq = MaxSeq * (q + 1) + (a % MaxSeq)
          <6> DEFINE z == a % MaxSeq
                     w == MaxSeq * q
          <6>1. w \in Int /\ MaxSeq * (q + 1) = w + MaxSeq
            BY <1>4
          <6> HIDE DEF z, w
          <6>2. z \in Int /\ a = w + z
            BY <5>1, <5>2, <1>4 DEF z, w
          <6>3. a + MaxSeq = (w + MaxSeq) + z
            BY <1>4, <6>1, <6>2
          <6> QED BY <6>1, <6>3 DEF z
        <5>4. a + MaxSeq \in Int /\ q + 1 \in Int
          BY <1>4, <4>1
        <5> QED BY <1>4, <5>2, <5>3, <5>4, ModUnique
      <4> QED BY <4>1, <4>2 DEF NumberOf
    <3> QED BY <2>1, <3>2
  <2> QED BY <2>1, <2>2, <2>3 DEF i
<1>6. Numbered(d, first)
  <2>1. first <= d.asked
    BY <1>1, <1>2, <1>3
  <2>2. d.m.seq = NumberOf(d.asked + 1, first)
    <3>1. c.asked + 1 \in Nat
      BY <1>1
    <3>2. nextMonitorSeq(c.m) = NumberOf((c.asked + 1) + 1, first)
      BY <1>3, <3>1, NumberNext
    <3> QED BY <1>2, <3>2
  <2>3. ASSUME NEW s \in DOMAIN d.m.pending
        PROVE  /\ first < d.m.pending[s].id /\ d.m.pending[s].id <= d.asked
               /\ d.asked - d.m.pending[s].id < MaxSeq /\ s = NumberOf(d.m.pending[s].id, first)
    <3>1. CASE s = c.m.seq
      BY <1>1, <1>2, <1>3, <1>4, <3>1
    <3>2. CASE s # c.m.seq
      <4>1. s \in DOMAIN c.m.pending /\ d.m.pending[s].id = c.m.pending[s].id
        BY <1>2, <3>2
      <4> QED BY <1>1, <1>2, <1>3, <1>5, <3>2, <4>1
    <3> QED BY <3>1, <3>2
  <2> QED BY <2>1, <2>2, <2>3 DEF Numbered
<1>7. \A x : OnItsWay(x, c, first) => OnItsWay(x, d, first)
  BY <1>1, <1>2 DEF OnItsWay
<1>8. ASSUME NEW x \in ToSet(d.queue) \ ToSet(c.queue) PROVE OnItsWay(x, d, first)
  <2>1. x0 \in Messages
    BY <1>1 DEF Messages
  <2>2. ToSet(Append(c.queue, x0)) = ToSet(c.queue) \cup {x0}
    BY <1>1, <2>1, Joined
  <2>3. x = x0
    BY <1>2, <1>8, <2>2
  <2> QED BY <1>1, <1>2, <1>3, <2>3 DEF OnItsWay
<1>9. ASSUME NEW s \in DOMAIN c.m.pending PROVE Holds(d, c.m.pending[s].id)
  <2>1. CASE s = c.m.seq
    BY <1>5, <2>1 DEF Holds
  <2>2. CASE s # c.m.seq
    BY <1>2, <2>2 DEF Holds
  <2> QED BY <2>1, <2>2
<1> QED BY <1>6, <1>7, <1>8, <1>9

LEMMA NumbersLess ==
  ASSUME NEW c \in Clients, NEW d, Less(c, d), NEW first, Numbered(c, first)
  PROVE  Numbered(d, first) /\ \A x : OnItsWay(x, c, first) => OnItsWay(x, d, first)
BY DEF Less, Numbered, OnItsWay

-----------------------------------------------------------------------------
(* What the actions do, in terms of a client that loses something and asks.*)
Asks(c, d) ==
  \E op \in {"read", "write"}, addr \in Addrs, value \in Nat : d = Ask(c, op, addr, value)
Moves(c, d) ==
  \E e \in Clients : /\ Less(c, e)
                     /\ e.queue = c.queue \/ (c.queue # <<>> /\ e.queue = Tail(c.queue))
                     /\ \/ d = e \/ Asks(e, d)
                        \/ \E f \in Clients : Asks(e, f) /\ Asks(f, d)

LEMMA LessSelf == \A c \in Clients : Less(c, c)
BY DEF Less

(* The call that awaits a request asks for the second register; else       *)
(* nothing more happens.                                                   *)
Stays(id, c) ==
  /\ client' = c /\ UNCHANGED <<lastWrite, applies>>
  /\ \A a \in 1 .. Len(applies) : applies[a].next = 2 => applies[a].awaits # id
Goes(a, id, c) ==
  /\ applies[a].next = 2 /\ applies[a].awaits = id
  /\ client' = Ask(c, "write", Registers[2], configs[applies[a].object][Registers[2]])
  /\ configs[applies[a].object] \in [Addrs -> Nat]
  /\ lastWrite' = [lastWrite EXCEPT ![Registers[2]] = c.asked + 1]
  /\ applies' \in Seq(Calls) /\ Len(applies') = Len(applies)
  /\ applies'[a] = [object |-> applies[a].object, next |-> 3, awaits |-> c.asked + 1]
  /\ \A b \in 1 .. Len(applies) : b # a => applies'[b] = applies[b]

LEMMA ContinueEffect ==
  ASSUME KindsInv, NEW id, NEW c \in Clients, Continue(id, c)
  PROVE  Stays(id, c) \/ \E a \in 1 .. Len(applies) : Goes(a, id, c)
<1>1. /\ applies \in Seq(Calls) /\ configs \in Seq([Addrs -> Nat])
      /\ \A a \in 1 .. Len(applies) : applies[a].object <= Len(configs)
  BY DEF KindsInv
<1>2. \A a \in 1 .. Len(applies) :
        applies[a] \in Calls /\ (applies[a].next <= Len(Registers) <=> applies[a].next = 2)
  <2>1. \A a \in 1 .. Len(applies) : applies[a] \in Calls
    BY <1>1
  <2> QED BY <2>1, TwoRegisters DEF Calls
<1>3. CASE \A a \in 1 .. Len(applies) : ~(applies[a].next = 2 /\ applies[a].awaits = id)
  <2>1. Awaiting(id) = {}
    BY <1>2, <1>3 DEF Awaiting
  <2> QED BY <1>3, <2>1 DEF Continue, Stays
<1>4. CASE \E a \in 1 .. Len(applies) : applies[a].next = 2 /\ applies[a].awaits = id
  <2> DEFINE a == CHOOSE b \in Awaiting(id) : TRUE
             value == configs[applies[a].object][Registers[2]]
  <2>1. Awaiting(id) # {}
    BY <1>2, <1>4 DEF Awaiting
  <2>2. a \in Awaiting(id)
    BY <2>1
  <2>3. a \in 1 .. Len(applies) /\ applies[a].next = 2 /\ applies[a].awaits = id
    BY <1>2, <2>2 DEF Awaiting
  <2> DEFINE reg == Registers[applies[a].next]
             call == [object |-> applies[a].object, next |-> applies[a].next + 1,
                      awaits |-> client'.asked]
  <2>4. /\ client' = Ask(c, "write", reg, configs[applies[a].object][reg])
        /\ lastWrite' = [lastWrite EXCEPT ![reg] = client'.asked]
        /\ applies' = [applies EXCEPT ![a] = call]
    BY <2>1, Zenon DEF Continue
  <2> HIDE DEF a
  <2>5. configs[applies[a].object] \in [Addrs -> Nat]
    <3>1. applies[a].object \in 1 .. Len(configs)
      BY <1>1, <1>2, <2>3 DEF Calls
    <3> QED BY <1>1, <3>1
  <2>6. client' = Ask(c, "write", Registers[2], value) /\ value \in Nat
    BY <2>3, <2>4, <2>5, TwoRegisters
  <2> HIDE DEF value
  <2>7. client'.asked = c.asked + 1 /\ c.asked \in Nat
    BY <2>6, ClientParts DEF Ask
  <2> USE DEF value
  <2>8. call = [object |-> applies[a].object, next |-> 3, awaits |-> c.asked + 1]
    BY <2>3, <2>7
  <2>9. call \in Calls
    BY <1>2, <2>3, <2>7, <2>8 DEF Calls
  <2>10. /\ applies' \in Seq(Calls) /\ Len(applies') = Len(applies) /\ applies'[a] = call
         /\ \A b \in 1 .. Len(applies) : b # a => applies'[b] = applies[b]
    <3> HIDE DEF call
    <3> QED BY <1>1, <2>3, <2>4, <2>9
  <2>11. reg = Registers[2]
    BY <2>3
  <2> HIDE DEF call, reg
  <2> QED BY <2>3, <2>4, <2>5, <2>6, <2>7, <2>8, <2>10, <2>11 DEF Goes
<1> QED BY <1>3, <1>4

LEMMA ContinueMoves ==
  ASSUME KindsInv, NEW id, NEW c \in Clients, Continue(id, c)
  PROVE  client' = c \/ Asks(c, client')
<1>1. CASE Stays(id, c)
  BY <1>1 DEF Stays
<1>2. ASSUME NEW a \in 1 .. Len(applies), Goes(a, id, c) PROVE Asks(c, client')
  <2>1. /\ client' = Ask(c, "write", Registers[2], configs[applies[a].object][Registers[2]])
        /\ configs[applies[a].object] \in [Addrs -> Nat]
    BY <1>2 DEF Goes
  <2>2. configs[applies[a].object][Registers[2]] \in Nat /\ Registers[2] \in Addrs
    BY <2>1, TwoRegisters
  <2> QED BY <2>1, <2>2 DEF Asks
<1> QED BY <1>1, <1>2, ContinueEffect

LEMMA SendFacts ==
  ASSUME KindsInv, Send
  PROVE  /\ client.queue # <<>>
         /\ Continue(Head(client.queue).id, [client EXCEPT !.queue = Tail(@)])
         /\ inbox' \in {inbox, Append(inbox, Head(client.queue))}
         /\ UNCHANGED <<link, answers, device, configs, failed, foreign, forgotten, clears>>
<1> DEFINE sent == [client EXCEPT !.queue = Tail(@)]
<1>1. client \in Clients /\ client.queue # <<>>
  BY DEF KindsInv, Send
<1>2. sent \in Clients
  BY <1>1, SentEffect DEF Less
<1>3. ASSUME NEW id, Failed(id, sent) PROVE Continue(id, sent)
  BY <1>2, <1>3, ErrorEffect DEF Failed
<1> QED BY <1>1, <1>3 DEF Send

LEMMA ApplyFacts ==
  ASSUME KindsInv, Apply
  PROVE  /\ Room(2)
         /\ configs' \in Seq([Addrs -> Nat]) /\ Len(configs') = Len(configs) /\ configs' # <<>>
         /\ Last(configs')[Registers[1]] \in Nat
         /\ client' = Ask(client, "write", Registers[1], Last(configs')[Registers[1]])
         /\ lastWrite' = [lastWrite EXCEPT ![Registers[1]] = client.asked + 1]
         /\ applies' = Append(applies, [object |-> Len(configs), next |-> 2,
                                        awaits |-> client.asked + 1])
         /\ applies' \in Seq(Calls)
         /\ [object |-> Len(configs), next |-> 2, awaits |-> client.asked + 1] \in Calls
         /\ client.asked \in Nat
         /\ Len(configs) \in Nat \ {0}
<1>1. /\ configs \in Seq([Addrs -> Nat]) /\ configs # <<>> /\ client \in Clients
      /\ applies \in Seq(Calls)
  BY DEF KindsInv
<1>2. client.asked \in Nat
  BY <1>1, ClientParts
<1>3. PICK depth \in Nat, pre \in Nat :
        configs' = [configs EXCEPT ![Len(configs)] = Settings(depth, pre)]
  BY RequestsAssumption DEF Apply
<1>4. Settings(depth, pre) \in [Addrs -> Nat]
  BY <1>3 DEF Settings
<1>5. /\ configs' \in Seq([Addrs -> Nat]) /\ Len(configs') = Len(configs)
      /\ Len(configs) \in Nat \ {0} /\ Len(configs) \in 1 .. Len(configs)
  <2> DEFINE x == Settings(depth, pre)
  <2> HIDE DEF x
  <2>1. x \in [Addrs -> Nat] /\ configs' = [configs EXCEPT ![Len(configs)] = x]
    BY <1>3, <1>4 DEF x
  <2> QED BY <1>1, <2>1
<1>6. configs' # <<>> /\ Last(configs') \in [Addrs -> Nat]
  BY <1>5 DEF Last
<1>7. Last(configs')[Registers[1]] \in Nat
  BY <1>6, TwoRegisters
<1>8. client' = Ask(client, "write", Registers[1], Last(configs')[Registers[1]])
  BY DEF Apply
<1>9. client'.asked = client.asked + 1
  BY <1>8 DEF Ask
<1>10. /\ lastWrite' = [lastWrite EXCEPT ![Registers[1]] = client.asked + 1]
       /\ applies' = Append(applies, [object |-> Len(configs), next |-> 2,
                                      awaits |-> client.asked + 1])
       /\ Room(2)
  BY <1>9, TwoRegisters DEF Apply
<1>11. [object |-> Len(configs), next |-> 2, awaits |-> client.asked + 1] \in Calls
  BY <1>2, <1>5 DEF Calls
<1>12. applies' \in Seq(Calls)
  BY <1>1, <1>10, <1>11
<1> QED BY <1>2, <1>5, <1>6, <1>7, <1>8, <1>10, <1>11, <1>12

LEMMA ClientMoves ==
  ASSUME KindsInv, [Next]_vars
  PROVE  Clear \/ Moves(client, client')
<1>1. client \in Clients
  BY DEF KindsInv
<1>2. ASSUME client' = client PROVE Moves(client, client')
  BY <1>1, <1>2, LessSelf DEF Moves
<1>3. ASSUME NEW addr \in ReadAddrs, monitorRead(addr) PROVE Moves(client, client')
  <2>1. client' = Ask(client, "read", addr, 0) /\ addr \in Addrs
    BY <1>3, RequestsAssumption DEF monitorRead, Addrs
  <2>2. Asks(client, client')
    BY <2>1 DEF Asks
  <2> QED BY <1>1, <2>2, LessSelf DEF Moves
<1>4. CASE Send
  <2> DEFINE e == [client EXCEPT !.queue = Tail(@)]
  <2>1. client.queue # <<>> /\ Continue(Head(client.queue).id, e)
    BY <1>4, SendFacts
  <2>2. Less(client, e) /\ e.queue = Tail(client.queue)
    BY <1>1, <2>1, SentEffect
  <2> HIDE DEF e
  <2>3. e \in Clients
    BY <2>2 DEF Less
  <2>4. client' = e \/ Asks(e, client')
    BY <2>1, <2>3, ContinueMoves
  <2>5. client.queue # <<>>
    BY <2>1
  <2> QED BY <2>2, <2>3, <2>4, <2>5 DEF Moves
<1>5. CASE Apply
  <2>1. /\ client' = Ask(client, "write", Registers[1], Last(configs')[Registers[1]])
        /\ Last(configs')[Registers[1]] \in Nat /\ Registers[1] \in Addrs
    BY <1>5, ApplyFacts, TwoRegisters
  <2>2. Asks(client, client')
    BY <2>1 DEF Asks
  <2> QED BY <1>1, <2>2, LessSelf DEF Moves
<1>6. CASE Receive
  <2>1. CASE client' = client
    BY <1>2, <2>1
  <2>2. CASE client' = [client EXCEPT !.m = Kept(decodeMonitorResponse(@, Head(answers)))]
    <3>1. Head(answers) \in Responses
      BY <1>6 DEF KindsInv, Receive
    <3>2. Less(client, client') /\ client'.queue = client.queue
      BY <1>1, <2>2, <3>1, AnswerEffect
    <3>3. client' \in Clients
      BY <3>2 DEF Less
    <3> QED BY <3>2, <3>3 DEF Moves
  <2> QED BY <1>6, <2>1, <2>2 DEF Receive
<1>7. CASE Timer
  <2> DEFINE e == [client EXCEPT !.m = expireMonitorPending(client.m)]
  <2>1. Less(client, e) /\ e.queue = client.queue
    BY <1>1, ExpiryEffect
  <2>2. client' = e \/ client' = ReadAll(e)
    BY <1>7 DEF Timer
  <2> HIDE DEF e
  <2>3. e \in Clients
    BY <2>1 DEF Less
  <2>4. CASE client' = ReadAll(e)
    <3> DEFINE f == Ask(e, "read", Registers[1], 0)
    <3>1. /\ client' = Ask(f, "read", Registers[2], 0)
          /\ Registers[1] \in Addrs /\ Registers[2] \in Addrs
      BY <2>4, TwoRegisters DEF ReadAll
    <3>2. f \in Clients
      BY <2>3, <3>1, AskEffect
    <3>3. Asks(e, f)
      BY <3>1 DEF Asks
    <3> HIDE DEF f
    <3>4. Asks(f, client')
      BY <3>1 DEF Asks
    <3> QED BY <2>1, <2>3, <3>2, <3>3, <3>4 DEF Moves
  <2> QED BY <2>1, <2>2, <2>3, <2>4 DEF Moves
<1>8. CASE SetPoll
  <2>1. Less(client, client') /\ client'.queue = client.queue
    BY <1>1, <1>8, SwitchEffect DEF SetPoll
  <2>2. client' \in Clients
    BY <2>1 DEF Less
  <2> QED BY <2>1, <2>2 DEF Moves
<1>9. CASE Respond \/ ChangeLink \/ UNCHANGED vars
  BY <1>2, <1>9 DEF Respond, ChangeLink, vars
<1> QED BY <1>3, <1>4, <1>5, <1>6, <1>7, <1>8, <1>9 DEF Next

LEMMA AsksClients ==
  ASSUME NEW c \in Clients, NEW d, Asks(c, d)
  PROVE  d \in Clients
<1>1. PICK op \in {"read", "write"}, addr \in Addrs, value \in Nat : d = Ask(c, op, addr, value)
  BY DEF Asks
<1> QED BY <1>1, AskEffect

LEMMA MovesClients ==
  ASSUME NEW c, NEW d, Moves(c, d)
  PROVE  d \in Clients
BY AsksClients DEF Moves

LEMMA DeviceAnswers ==
  ASSUME KindsInv, Respond
  PROVE  /\ inbox # <<>> /\ inbox' = Tail(inbox) /\ device' \in [Addrs -> Nat]
         /\ device'["capture_depth"] \in 1 .. SampleDepth
         /\ LET r == Head(inbox)
                new == IF r.op = "write" /\ status(r) = OK THEN r.value ELSE device[r.addr]
            IN /\ device' = [device EXCEPT ![r.addr] = new]
               /\ answers' = Append(answers, [kind |-> r.op, seq |-> r.seq, id |-> r.id,
                                              addr |-> r.addr, status |-> status(r),
                                              value |-> new])
               /\ [kind |-> r.op, seq |-> r.seq, id |-> r.id, addr |-> r.addr,
                   status |-> status(r), value |-> new] \in Responses
<1> DEFINE r == Head(inbox)
           new == IF r.op = "write" /\ status(r) = OK THEN r.value ELSE device[r.addr]
           answer == [kind |-> r.op, seq |-> r.seq, id |-> r.id, addr |-> r.addr,
                      status |-> status(r), value |-> new]
<1>1. /\ inbox # <<>> /\ inbox' = Tail(inbox) /\ device' = [device EXCEPT ![r.addr] = new]
      /\ answers' = Append(answers, answer)
  BY DEF Respond
<1>2. r \in Messages /\ device \in [Addrs -> Nat] /\ device["capture_depth"] \in 1 .. SampleDepth
  BY <1>1 DEF KindsInv
<1>3. /\ r.op \in {"read", "write"} /\ r.seq \in 1 .. MaxSeq /\ r.id \in Nat /\ r.addr \in Addrs
      /\ r.value \in Nat /\ status(r) \in {OK, BAD_VALUE}
  BY <1>2 DEF Messages, status
<1>4. new \in Nat
  BY <1>2, <1>3
<1>5. answer \in Responses
  BY <1>3, <1>4 DEF Responses
<1>6. device' \in [Addrs -> Nat]
  BY <1>1, <1>2, <1>4
<1>7. device'["capture_depth"] \in 1 .. SampleDepth
  <2>1. CASE r.addr = "capture_depth"
    <3>1. r.op = "write" /\ status(r) = OK => r.value \in 1 .. SampleDepth
      BY <2>1 DEF status, OK, BAD_VALUE
    <3>2. new \in 1 .. SampleDepth
      BY <1>2, <2>1, <3>1
    <3> QED BY <1>1, <1>2, <2>1, <3>2
  <2>2. CASE r.addr # "capture_depth"
    BY <1>1, <1>2, <2>2
  <2> QED BY <2>1, <2>2
<1> QED BY <1>1, <1>5, <1>6, <1>7

LEMMA KindsStep == KindsInv /\ [Next]_vars => KindsInv'
<1> SUFFICES ASSUME KindsInv, [Next]_vars PROVE KindsInv'
  OBVIOUS
<1>1. /\ client \in Clients /\ link \in BOOLEAN
      /\ inbox \in Seq(Messages) /\ answers \in Seq(Responses)
      /\ device \in [Addrs -> Nat] /\ device["capture_depth"] \in 1 .. SampleDepth
      /\ configs \in Seq([Addrs -> Nat]) /\ configs # <<>>
      /\ applies \in Seq(Calls) /\ \A a \in 1 .. Len(applies) : applies[a].object <= Len(configs)
      /\ lastWrite \in [Addrs -> Nat] /\ clears \in Nat /\ forgotten \in Nat
  BY DEF KindsInv
<1>2. client.asked \in Nat /\ client.queue \in Seq(Messages)
  BY <1>1, ClientParts
<1>3. client' \in Clients
  <2>1. Clear => client' \in Clients
    BY <1>1, ClearEffect DEF Clear
  <2> QED BY <2>1, ClientMoves, MovesClients
<1>4. CASE Send
  <2> DEFINE e == [client EXCEPT !.queue = Tail(@)]
             id == Head(client.queue).id
  <2>1. /\ client.queue # <<>> /\ Continue(id, e)
        /\ inbox' \in {inbox, Append(inbox, Head(client.queue))}
        /\ UNCHANGED <<link, answers, device, configs, failed, foreign, forgotten, clears>>
    BY <1>4, SendFacts
  <2>2. e \in Clients /\ e.asked = client.asked
    BY <1>1, <2>1, SentEffect DEF Less
  <2>3. inbox' \in Seq(Messages)
    <3>1. Head(client.queue) \in Messages
      BY <1>2, <2>1
    <3>2. inbox \in Seq(Messages)
      BY <1>1
    <3> QED BY <2>1, <3>1, <3>2
  <2> HIDE DEF e, id
  <2>4. /\ applies' \in Seq(Calls) /\ Len(applies') = Len(applies)
        /\ \A a \in 1 .. Len(applies') : applies'[a].object <= Len(configs)
        /\ lastWrite' \in [Addrs -> Nat]
    <3>1. CASE Stays(id, e)
      BY <1>1, <3>1 DEF Stays
    <3>2. ASSUME NEW a \in 1 .. Len(applies), Goes(a, id, e)
          PROVE  /\ applies' \in Seq(Calls) /\ Len(applies') = Len(applies)
                 /\ \A b \in 1 .. Len(applies') : applies'[b].object <= Len(configs)
                 /\ lastWrite' \in [Addrs -> Nat]
      <4>1. /\ applies' \in Seq(Calls) /\ Len(applies') = Len(applies)
            /\ applies'[a].object = applies[a].object
            /\ \A b \in 1 .. Len(applies) : b # a => applies'[b] = applies[b]
            /\ lastWrite' = [lastWrite EXCEPT ![Registers[2]] = e.asked + 1]
        BY <3>2 DEF Goes
      <4>2. \A b \in 1 .. Len(applies) : applies'[b].object = applies[b].object
        BY <4>1
      <4>3. e.asked + 1 \in Nat
        BY <1>2, <2>2
      <4>4. lastWrite' \in [Addrs -> Nat]
        BY <1>1, <4>1, <4>3
      <4> QED BY <1>1, <4>1, <4>2, <4>4
    <3> QED BY <2>1, <2>2, <3>1, <3>2, ContinueEffect
  <2> QED BY <1>1, <1>3, <2>1, <2>3, <2>4 DEF KindsInv
<1>5. CASE Apply
  <2>1. \A a \in 1 .. Len(applies') : applies'[a].object <= Len(configs')
    <3> DEFINE call == [object |-> Len(configs), next |-> 2, awaits |-> client.asked + 1]
    <3>1. /\ applies' = Append(applies, call) /\ call \in Calls /\ call.object = Len(configs)
          /\ Len(configs') = Len(configs) /\ Len(configs) \in Nat
      BY <1>5, ApplyFacts
    <3> HIDE DEF call
    <3>2. /\ Len(applies') = Len(applies) + 1 /\ Len(applies) \in Nat
          /\ \A a \in 1 .. Len(applies) : applies'[a] = applies[a]
          /\ applies'[Len(applies) + 1] = call
      BY <1>1, <3>1
    <3>3. \A a \in 1 .. Len(applies') : a \in 1 .. Len(applies) \/ a = Len(applies) + 1
      BY <3>2
    <3> QED BY <1>1, <3>1, <3>2, <3>3
  <2>2. lastWrite' \in [Addrs -> Nat]
    <3>1. lastWrite' = [lastWrite EXCEPT ![Registers[1]] = client.asked + 1]
      BY <1>5, ApplyFacts
    <3>2. lastWrite \in [Addrs -> Nat] /\ client.asked + 1 \in Nat
      BY <1>1, <1>2
    <3> QED BY <3>1, <3>2
  <2>3. /\ applies' \in Seq(Calls) /\ configs' \in Seq([Addrs -> Nat]) /\ configs' # <<>>
    BY <1>5, ApplyFacts
  <2> QED BY <1>1, <1>3, <1>5, <2>1, <2>2, <2>3 DEF KindsInv, Apply
<1>6. CASE Respond
  <2>1. /\ inbox' \in Seq(Messages) /\ answers' \in Seq(Responses) /\ device' \in [Addrs -> Nat]
        /\ device'["capture_depth"] \in 1 .. SampleDepth
    <3>1. /\ inbox # <<>> /\ inbox' = Tail(inbox)
          /\ \E x \in Responses : answers' = Append(answers, x)
          /\ device' \in [Addrs -> Nat] /\ device'["capture_depth"] \in 1 .. SampleDepth
      BY <1>6, DeviceAnswers
    <3>2. PICK x \in Responses : answers' = Append(answers, x)
      BY <3>1
    <3> QED BY <1>1, <3>1, <3>2
  <2> QED BY <1>1, <1>3, <1>6, <2>1 DEF KindsInv, Respond
<1>7. CASE Receive
  <2>1. answers' \in Seq(Responses)
    BY <1>1, <1>7 DEF Receive
  <2> QED BY <1>1, <1>3, <1>7, <2>1 DEF KindsInv, Receive
<1>8. CASE Clear
  <2>1. Settings(2, 1) \in [Addrs -> Nat]
    BY DEF Settings
  <2>2. /\ configs' \in Seq([Addrs -> Nat]) /\ configs' # <<>> /\ Len(configs') = Len(configs) + 1
        /\ Len(configs) \in Nat
    <3> DEFINE x == Settings(2, 1)
    <3>1. configs' = Append(configs, x) /\ x \in [Addrs -> Nat]
      BY <1>8, <2>1 DEF Clear
    <3> HIDE DEF x
    <3>2. Append(configs, x) \in Seq([Addrs -> Nat]) /\ Len(Append(configs, x)) = Len(configs) + 1
      BY <1>1, <3>1, Joined
    <3>3. Len(configs) \in Nat /\ Append(configs, x) # <<>>
      <4>1. configs \in Seq([Addrs -> Nat])
        BY <1>1
      <4> DEFINE T == [Addrs -> Nat]
      <4> HIDE DEF T
      <4>2. configs \in Seq(T) /\ Append(configs, x) \in Seq(T)
            /\ Len(Append(configs, x)) = Len(configs) + 1
        BY <3>2, <4>1 DEF T
      <4> QED BY <4>2
    <3> QED BY <3>1, <3>2, <3>3
  <2>3. \A a \in 1 .. Len(applies) : applies[a].object <= Len(configs')
    <3>1. \A a \in 1 .. Len(applies) : applies[a].object \in Nat
      <4>1. applies \in Seq(Calls)
        BY <1>1
      <4>2. \A a \in 1 .. Len(applies) : applies[a] \in Calls
        BY <4>1
      <4> QED BY <4>2 DEF Calls
    <3>2. \A a \in 1 .. Len(applies) : applies[a].object <= Len(configs)
      BY <1>1
    <3> DEFINE n == Len(configs)
           m == Len(configs')
    <3>3. m = n + 1 /\ n \in Nat
      BY <2>2
    <3>4. \A a \in 1 .. Len(applies) : applies[a].object \in Nat /\ applies[a].object <= n
      BY <3>1, <3>2
    <3> HIDE DEF n, m
    <3>5. \A a \in 1 .. Len(applies) : applies[a].object <= m
      BY <3>3, <3>4
    <3> QED BY <3>5 DEF m
  <2>4. forgotten' \in Nat /\ clears' \in Nat
    <3>1. forgotten' = client.asked /\ clears' = clears + 1
      BY <1>8 DEF Clear
    <3>2. clears \in Nat
      BY <1>1
    <3> QED BY <1>2, <3>1, <3>2
  <2> QED BY <1>1, <1>3, <1>8, <2>2, <2>3, <2>4 DEF KindsInv, Clear
<1>9. CASE (\E addr \in ReadAddrs : monitorRead(addr)) \/ Timer \/ SetPoll \/ ChangeLink
           \/ UNCHANGED vars
  BY <1>1, <1>3, <1>9 DEF KindsInv, monitorRead, Timer, SetPoll, ChangeLink, vars
<1> QED BY <1>4, <1>5, <1>6, <1>7, <1>8, <1>9 DEF Next

-----------------------------------------------------------------------------
(* The writes that are owed.                                               *)
OwedOf(calls) == {w \in (1 .. Len(calls)) \X {1, 2} : calls[w[1]].next <= w[2]}

LEMMA OwedFinite ==
  ASSUME NEW calls \in Seq(Calls)
  PROVE  IsFiniteSet(OwedOf(calls)) /\ Cardinality(OwedOf(calls)) \in Nat
<1>1. Len(calls) \in Nat
  OBVIOUS
<1>2. IsFiniteSet(1 .. Len(calls)) /\ IsFiniteSet(1 .. 2)
  <2>1. Len(calls) \in Int /\ 1 \in Int /\ 2 \in Int
    BY <1>1
  <2> HIDE <1>1
  <2> QED BY <2>1, FS_Interval
<1>3. 1 .. 2 = {1, 2}
  OBVIOUS
<1>4. IsFiniteSet((1 .. Len(calls)) \X {1, 2})
  BY <1>2, <1>3, FS_Product
<1>5. OwedOf(calls) \subseteq (1 .. Len(calls)) \X {1, 2}
  BY DEF OwedOf
<1>6. IsFiniteSet(OwedOf(calls))
  BY <1>4, <1>5, FS_Subset
<1> QED BY <1>6, FS_CardinalityType

LEMMA OwedJoins ==
  ASSUME NEW calls \in Seq(Calls), NEW call \in Calls
  PROVE  Cardinality(OwedOf(Append(calls, call))) <= Cardinality(OwedOf(calls)) + 1
<1> DEFINE n == Len(calls)
           more == Append(calls, call)
<1>1. /\ more \in Seq(Calls) /\ Len(more) = n + 1 /\ n \in Nat /\ more[n + 1] = call
      /\ \A a \in 1 .. n : more[a] = calls[a]
  OBVIOUS
<1>2. call.next \in {2, 3}
  BY DEF Calls
<1> HIDE DEF n, more
<1>3. 1 .. Len(more) = (1 .. n) \cup {n + 1}
  BY <1>1
<1>4. ASSUME NEW w \in OwedOf(more) PROVE w \in OwedOf(calls) \cup {<<n + 1, 2>>}
  <2>1. w \in (1 .. Len(more)) \X {1, 2} /\ more[w[1]].next <= w[2]
    BY DEF OwedOf
  <2>2. PICK a \in 1 .. Len(more), k \in {1, 2} : w = <<a, k>>
    BY <2>1
  <2>3. CASE a \in 1 .. n
    <3>1. calls[w[1]].next <= w[2] /\ w \in (1 .. n) \X {1, 2}
      BY <1>1, <2>1, <2>2, <2>3
    <3> QED BY <3>1 DEF OwedOf, n
  <2>4. CASE a = n + 1
    <3>1. call.next <= k
      BY <1>1, <2>1, <2>2, <2>4
    <3>2. k = 2
      BY <1>2, <3>1
    <3> QED BY <2>2, <2>4, <3>2
  <2> QED BY <1>3, <2>2, <2>3, <2>4
<1>5. /\ IsFiniteSet(OwedOf(calls)) /\ Cardinality(OwedOf(calls)) \in Nat
      /\ IsFiniteSet(OwedOf(more)) /\ Cardinality(OwedOf(more)) \in Nat
  BY <1>1, OwedFinite
<1> DEFINE wider == OwedOf(calls) \cup {<<n + 1, 2>>}
<1>6. /\ IsFiniteSet(wider)
      /\ \/ Cardinality(wider) = Cardinality(OwedOf(calls))
         \/ Cardinality(wider) = Cardinality(OwedOf(calls)) + 1
  BY <1>5, FS_AddElement
<1>7. OwedOf(more) \subseteq wider
  BY <1>4
<1> HIDE DEF wider
<1>8. Cardinality(OwedOf(more)) <= Cardinality(wider)
  BY <1>6, <1>7, FS_Subset
<1> QED BY <1>5, <1>6, <1>8 DEF more

LEMMA OwedGoes ==
  ASSUME NEW calls \in Seq(Calls), NEW after \in Seq(Calls), Len(after) = Len(calls),
         NEW a \in 1 .. Len(calls), calls[a].next = 2, after[a].next = 3,
         \A b \in 1 .. Len(calls) : b # a => after[b] = calls[b]
  PROVE  Cardinality(OwedOf(after)) + 1 <= Cardinality(OwedOf(calls))
<1> DEFINE rest == OwedOf(calls) \ {<<a, 2>>}
<1>1. <<a, 2>> \in OwedOf(calls)
  BY DEF OwedOf
<1>2. ASSUME NEW w \in OwedOf(after) PROVE w \in rest
  <2>1. w \in (1 .. Len(calls)) \X {1, 2} /\ after[w[1]].next <= w[2]
    BY DEF OwedOf
  <2>2. PICK b \in 1 .. Len(calls), k \in {1, 2} : w = <<b, k>>
    BY <2>1
  <2>3. b # a
    BY <2>1, <2>2
  <2>4. w \in OwedOf(calls)
    BY <2>1, <2>2, <2>3 DEF OwedOf
  <2> QED BY <2>2, <2>3, <2>4
<1>3. /\ IsFiniteSet(OwedOf(calls)) /\ Cardinality(OwedOf(calls)) \in Nat
      /\ IsFiniteSet(OwedOf(after)) /\ Cardinality(OwedOf(after)) \in Nat
  BY OwedFinite
<1>4. IsFiniteSet(rest) /\ Cardinality(rest) = Cardinality(OwedOf(calls)) - 1
  BY <1>1, <1>3, FS_RemoveElement
<1>5. OwedOf(after) \subseteq rest
  BY <1>2
<1> HIDE DEF rest
<1>6. Cardinality(OwedOf(after)) <= Cardinality(rest)
  BY <1>4, <1>5, FS_Subset
<1> QED BY <1>3, <1>4, <1>6

(* There stays room for the writes that are owed.                          *)
LEMMA RoomStep == KindsInv /\ RoomInv /\ [Next]_vars => RoomInv'
<1> SUFFICES ASSUME KindsInv, RoomInv, [Next]_vars PROVE RoomInv'
  OBVIOUS
<1>1. /\ client \in Clients /\ client.asked \in Nat /\ applies \in Seq(Calls)
      /\ MaxRequests \in Nat
  BY ClientParts, RequestsAssumption DEF KindsInv
<1>2. Owed = OwedOf(applies) /\ Owed' = OwedOf(applies')
  BY TwoRegisters DEF Owed, OwedOf
<1> DEFINE k == Cardinality(OwedOf(applies))
<1>3. k \in Nat /\ client.asked + k <= MaxRequests
  BY <1>1, <1>2, OwedFinite DEF RoomInv
<1>4. \A n : Room(n) => client.asked + k + n <= MaxRequests
  BY <1>2 DEF Room
<1> HIDE DEF k
<1>5. ASSUME client'.asked = client.asked, applies' = applies PROVE RoomInv'
  BY <1>2, <1>3, <1>5 DEF RoomInv, k
<1>6. ASSUME NEW addr \in ReadAddrs, monitorRead(addr) PROVE RoomInv'
  <2>1. client'.asked = client.asked + 1 /\ applies' = applies /\ Room(1)
    BY <1>6 DEF monitorRead, Ask
  <2> QED BY <1>1, <1>2, <1>3, <1>4, <2>1 DEF RoomInv, k
<1>7. CASE Send
  <2> DEFINE e == [client EXCEPT !.queue = Tail(@)]
             id == Head(client.queue).id
  <2>1. client.queue # <<>> /\ Continue(id, e)
    BY <1>7, SendFacts
  <2>2. e \in Clients /\ e.asked = client.asked
    BY <1>1, <2>1, SentEffect DEF Less
  <2> HIDE DEF e, id
  <2>3. CASE Stays(id, e)
    BY <1>5, <2>2, <2>3 DEF Stays
  <2>4. ASSUME NEW a \in 1 .. Len(applies), Goes(a, id, e) PROVE RoomInv'
    <3>1. client'.asked = client.asked + 1
      BY <2>2, <2>4 DEF Goes, Ask
    <3>2. /\ applies' \in Seq(Calls) /\ Len(applies') = Len(applies) /\ applies[a].next = 2
          /\ applies'[a].next = 3 /\ \A b \in 1 .. Len(applies) : b # a => applies'[b] = applies[b]
      BY <2>4 DEF Goes
    <3>3. Cardinality(OwedOf(applies')) + 1 <= k
      BY <1>1, <3>2, OwedGoes DEF k
    <3>4. Cardinality(OwedOf(applies')) \in Nat
      BY <3>2, OwedFinite
    <3> QED BY <1>1, <1>2, <1>3, <3>1, <3>3, <3>4 DEF RoomInv
  <2> QED BY <2>1, <2>2, <2>3, <2>4, ContinueEffect
<1>8. CASE Apply
  <2> DEFINE call == [object |-> Len(configs), next |-> 2, awaits |-> client.asked + 1]
  <2>1. /\ Room(2) /\ applies' = Append(applies, call) /\ call \in Calls /\ applies' \in Seq(Calls)
        /\ client'.asked = client.asked + 1
    BY <1>8, ApplyFacts DEF Ask
  <2> HIDE DEF call
  <2>2. Cardinality(OwedOf(applies')) <= k + 1
    BY <1>1, <2>1, OwedJoins DEF k
  <2>3. Cardinality(OwedOf(applies')) \in Nat
    BY <2>1, OwedFinite
  <2> QED BY <1>1, <1>2, <1>3, <1>4, <2>1, <2>2, <2>3 DEF RoomInv
<1>9. CASE Timer
  <2> DEFINE e == [client EXCEPT !.m = expireMonitorPending(client.m)]
  <2>1. e.asked = client.asked
    BY <1>1, ExpiryEffect DEF Less
  <2>2. client' = e \/ (client' = ReadAll(e) /\ Room(2))
    BY <1>9, TwoRegisters DEF Timer
  <2>3. applies' = applies
    BY <1>9 DEF Timer
  <2> HIDE DEF e
  <2>4. ReadAll(e).asked = (e.asked + 1) + 1
    BY DEF ReadAll, Ask
  <2> QED BY <1>1, <1>2, <1>3, <1>4, <2>1, <2>2, <2>3, <2>4 DEF RoomInv, k
<1>10. CASE Receive
  <2>1. client'.asked = client.asked /\ applies' = applies
    BY <1>1, <1>10 DEF Receive, Clients
  <2> QED BY <1>5, <2>1
<1>11. CASE Respond \/ SetPoll \/ Clear \/ ChangeLink \/ UNCHANGED vars
  <2>1. client'.asked = client.asked /\ applies' = applies
    BY <1>1, <1>11, SwitchEffect, ClearEffect DEF Respond, SetPoll, Clear, ChangeLink, vars, Less
  <2> QED BY <1>5, <2>1
<1> QED BY <1>6, <1>7, <1>8, <1>9, <1>10, <1>11 DEF Next

LEMMA RequestsInit == Init => KindsInv /\ RoomInv /\ NumbersInv
<1> SUFFICES ASSUME Init PROVE KindsInv /\ RoomInv /\ NumbersInv
  OBVIOUS
<1> DEFINE m == createMonitorState
<1>1. client = [m |-> m, queue |-> <<>>, asked |-> 0] /\ inbox = <<>> /\ answers = <<>>
  BY DEF Init
<1>2. [m |-> m, queue |-> <<>>, asked |-> 0] \in Clients
  <2>1. NoEntries \in Tables
    <3>1. NoEntries \in [{} -> Entries] /\ {} \in SUBSET (1 .. MaxSeq)
      BY DEF NoEntries
    <3> QED BY <3>1 DEF Tables
  <2>2. m \in States
    BY <2>1, MonitorClientAssumption DEF createMonitorState, States
  <2>3. <<>> \in Seq(Messages)
    OBVIOUS
  <2> QED BY <2>2, <2>3 DEF Clients
<1>3. m.seq = 1 /\ DOMAIN m.pending = {}
  BY DEF createMonitorState, NoEntries
<1> HIDE DEF m
<1>4. client.m = m /\ client.queue = <<>> /\ client.asked = 0
  BY <1>1
<1>5. KindsInv
  <2>1. device \in [Addrs -> Nat] /\ device["capture_depth"] = 2
    BY DEF Init, Settings, Addrs
  <2>2. configs \in Seq([Addrs -> Nat]) /\ configs # <<>>
    <3> DEFINE x == device
    <3>1. configs = <<x>> /\ x \in [Addrs -> Nat]
      BY <2>1 DEF Init
    <3> HIDE DEF x
    <3> QED BY <3>1
  <2>3. applies = <<>> /\ link \in BOOLEAN /\ lastWrite \in [Addrs -> Nat]
        /\ clears = 0 /\ forgotten = 0
    BY DEF Init
  <2>4. applies \in Seq(Calls) /\ \A a \in 1 .. Len(applies) : FALSE
    BY <2>3
  <2>5. inbox \in Seq(Messages) /\ answers \in Seq(Responses)
    BY <1>1
  <2>6. 2 \in 1 .. SampleDepth
    BY RequestsAssumption
  <2> QED BY <1>1, <1>2, <2>1, <2>2, <2>3, <2>4, <2>5, <2>6 DEF KindsInv
<1>6. RoomInv
  <2>1. applies = <<>>
    BY DEF Init
  <2>2. Owed = {}
    BY <2>1 DEF Owed
  <2> QED BY <1>4, <2>2, FS_EmptySet, RequestsAssumption DEF RoomInv
<1>7. NumbersInv
  <2>1. forgotten = 0 /\ failed = {} /\ foreign = {}
    BY DEF Init
  <2>2. NumberOf(1, 0) = 1
    <3>1. MaxSeq \in Nat \ {0} /\ 0 \in 0 .. MaxSeq - 1 /\ 1 - 0 - 1 = 0
      BY MonitorClientAssumption
    <3>2. 0 % MaxSeq = 0
      BY <3>1, ModSmall
    <3> QED BY <3>1, <3>2 DEF NumberOf
  <2>3. ToSet(<<>>) = {}
    BY DEF ToSet
  <2>4. Numbered(client, forgotten)
    BY <1>3, <1>4, <2>1, <2>2 DEF Numbered
  <2> QED BY <1>1, <1>4, <2>1, <2>3, <2>4 DEF NumbersInv, Line
<1> QED BY <1>5, <1>6, <1>7

-----------------------------------------------------------------------------
(* The numbers through a step.                                             *)
LEMMA NumbersMove ==
  ASSUME NEW c \in Clients, NEW first \in Nat, Numbered(c, first), NEW d, Moves(c, d)
  PROVE  /\ d \in Clients /\ Numbered(d, first) /\ c.asked <= d.asked
         /\ \A x : OnItsWay(x, c, first) => OnItsWay(x, d, first)
         /\ \A x \in ToSet(d.queue) \ ToSet(c.queue) : OnItsWay(x, d, first)
<1>1. PICK e \in Clients :
        /\ Less(c, e)
        /\ e.queue = c.queue \/ (c.queue # <<>> /\ e.queue = Tail(c.queue))
        /\ \/ d = e \/ Asks(e, d)
           \/ \E f \in Clients : Asks(e, f) /\ Asks(f, d)
  BY DEF Moves
<1>2. Numbered(e, first) /\ \A x : OnItsWay(x, c, first) => OnItsWay(x, e, first)
  BY <1>1, NumbersLess
<1>3. ToSet(e.queue) \subseteq ToSet(c.queue)
  <2>1. c.queue \in Seq(Messages)
    BY ClientParts
  <2> QED BY <1>1, <2>1, Taken
<1>4. ASSUME NEW a \in Clients, Numbered(a, first), NEW b, Asks(a, b)
      PROVE  /\ b \in Clients /\ Numbered(b, first) /\ a.asked <= b.asked
             /\ \A x : OnItsWay(x, a, first) => OnItsWay(x, b, first)
             /\ \A x \in ToSet(b.queue) \ ToSet(a.queue) : OnItsWay(x, b, first)
  <2>1. PICK op \in {"read", "write"}, addr \in Addrs, value \in Nat : b = Ask(a, op, addr, value)
    BY <1>4 DEF Asks
  <2>2. b.asked = a.asked + 1 /\ b \in Clients
    BY <1>4, <2>1, AsksClients DEF Ask
  <2>3. a.asked \in Nat
    BY ClientParts
  <2> QED BY <1>4, <2>1, <2>2, <2>3, NumbersAsk
<1>5. e.asked = c.asked /\ c.asked \in Nat
  BY <1>1, ClientParts DEF Less
<1>6. CASE d = e
  BY <1>2, <1>3, <1>5, <1>6
<1>7. CASE Asks(e, d)
  BY <1>2, <1>3, <1>4, <1>5, <1>7
<1>8. ASSUME NEW f \in Clients, Asks(e, f), Asks(f, d)
      PROVE  /\ d \in Clients /\ Numbered(d, first) /\ c.asked <= d.asked
             /\ \A x : OnItsWay(x, c, first) => OnItsWay(x, d, first)
             /\ \A x \in ToSet(d.queue) \ ToSet(c.queue) : OnItsWay(x, d, first)
  <2>1. /\ Numbered(f, first) /\ e.asked <= f.asked
        /\ \A x : OnItsWay(x, e, first) => OnItsWay(x, f, first)
        /\ \A x \in ToSet(f.queue) \ ToSet(e.queue) : OnItsWay(x, f, first)
    BY <1>2, <1>4, <1>8
  <2>2. /\ d \in Clients /\ Numbered(d, first) /\ f.asked <= d.asked
        /\ \A x : OnItsWay(x, f, first) => OnItsWay(x, d, first)
        /\ \A x \in ToSet(d.queue) \ ToSet(f.queue) : OnItsWay(x, d, first)
    BY <1>4, <1>8, <2>1
  <2>3. f.asked \in Nat /\ d.asked \in Nat
    BY <1>8, <2>2, ClientParts
  <2> QED BY <1>2, <1>3, <1>5, <2>1, <2>2, <2>3
<1> QED BY <1>1, <1>6, <1>7, <1>8

(* What is on its way came from what was, with its id and its number.      *)
LEMMA LineMoves ==
  ASSUME KindsInv, [Next]_vars, NEW x \in ToSet(inbox') \cup ToSet(answers')
  PROVE  \E y \in Line \cup ToSet(answers) : y.id = x.id /\ y.seq = x.seq
<1>1. /\ client \in Clients /\ inbox \in Seq(Messages) /\ answers \in Seq(Responses)
  BY DEF KindsInv
<1>2. client.queue \in Seq(Messages)
  BY <1>1, ClientParts
<1>3. CASE x \in ToSet(inbox) \cup ToSet(answers)
  BY <1>3 DEF Line
<1>4. CASE Send
  <2>1. /\ client.queue # <<>> /\ inbox' \in {inbox, Append(inbox, Head(client.queue))}
        /\ answers' = answers
    BY <1>4, SendFacts
  <2>2. Head(client.queue) \in Messages /\ Head(client.queue) \in ToSet(client.queue)
    BY <1>2, <2>1, Taken
  <2>3. ToSet(Append(inbox, Head(client.queue))) = ToSet(inbox) \cup {Head(client.queue)}
    BY <1>1, <2>2, Joined
  <2> QED BY <1>3, <2>1, <2>2, <2>3 DEF Line
<1>5. CASE Respond
  <2>1. PICK y \in Responses :
          /\ answers' = Append(answers, y) /\ inbox # <<>> /\ inbox' = Tail(inbox)
          /\ y.id = Head(inbox).id /\ y.seq = Head(inbox).seq
    BY <1>5, DeviceAnswers
  <2>2. ToSet(inbox') \subseteq ToSet(inbox) /\ Head(inbox) \in ToSet(inbox)
    BY <1>1, <2>1, Taken
  <2>3. ToSet(answers') = ToSet(answers) \cup {y}
    BY <1>1, <2>1, Joined
  <2> QED BY <1>3, <2>1, <2>2, <2>3 DEF Line
<1>6. CASE Receive
  <2>1. answers # <<>> /\ answers' = Tail(answers) /\ inbox' = inbox
    BY <1>6 DEF Receive
  <2>2. ToSet(answers') \subseteq ToSet(answers)
    BY <1>1, <2>1, Taken
  <2> QED BY <1>3, <2>1, <2>2
<1>7. CASE UNCHANGED <<inbox, answers>>
  BY <1>3, <1>7
<1> QED BY <1>4, <1>5, <1>6, <1>7
        DEF Next, monitorRead, Apply, Timer, SetPoll, Clear, ChangeLink, vars

(* What is reported of a request is reported of one that is pending.       *)
LEMMA ReportsMove ==
  ASSUME KindsInv, [Next]_vars
  PROVE  /\ \A i \in failed' \ failed : \E s \in DOMAIN pending : pending[s].id = i
         /\ \A p \in foreign' \ foreign :
              /\ answers # <<>> /\ Head(answers).seq \in DOMAIN pending
              /\ p = <<pending[Head(answers).seq].id, Head(answers).id>> /\ p[1] # p[2]
<1>1. CASE Receive
  <2> DEFINE r == Head(answers)
             id == pending[r.seq].id
  <2>1. answers # <<>>
    BY <1>1 DEF Receive
  <2>2. \/ UNCHANGED <<failed, foreign>>
        \/ /\ r.seq \in DOMAIN pending
           /\ failed' = IF r.status = OK THEN failed ELSE failed \cup {id}
           /\ foreign' = IF id = r.id THEN foreign ELSE foreign \cup {<<id, r.id>>}
    BY <1>1 DEF Receive
  <2> HIDE DEF r
  <2>3. ASSUME NEW p \in foreign' \ foreign
        PROVE  r.seq \in DOMAIN pending /\ p = <<id, r.id>> /\ p[1] # p[2]
    BY <2>2, <2>3
  <2>4. ASSUME NEW i \in failed' \ failed PROVE \E s \in DOMAIN pending : pending[s].id = i
    BY <2>2, <2>4
  <2> QED BY <2>1, <2>3, <2>4 DEF r
<1>2. CASE Timer
  BY <1>2 DEF Timer, Overdue, pending
<1>3. CASE UNCHANGED <<failed, foreign>>
  BY <1>3
<1> QED BY <1>1, <1>2, <1>3, SendFacts
        DEF Next, monitorRead, Apply, Respond, SetPoll, Clear, ChangeLink, vars

LEMMA NumbersStep == KindsInv /\ NumbersInv /\ [Next]_vars => NumbersInv'
<1> SUFFICES ASSUME KindsInv, NumbersInv, [Next]_vars PROVE NumbersInv'
  OBVIOUS
<1>1. /\ client \in Clients /\ client.asked \in Nat /\ forgotten \in Nat
      /\ inbox \in Seq(Messages) /\ answers \in Seq(Responses)
  BY ClientParts DEF KindsInv
<1>2. /\ Numbered(client, forgotten)
      /\ \A x \in Line \cup ToSet(answers) : OnItsWay(x, client, forgotten)
      /\ failed \subseteq 1 .. client.asked
      /\ foreign \subseteq (1 .. client.asked) \X (1 .. client.asked)
  BY DEF NumbersInv
<1>3. \A s \in DOMAIN pending : pending[s].id \in 1 .. client.asked
  <2>1. \A s \in DOMAIN pending : pending[s].id \in Nat
    BY <1>1, ClientParts DEF pending, Entries
  <2> QED BY <1>1, <1>2, <2>1 DEF Numbered, pending
<1>4. /\ failed' \subseteq 1 .. client.asked
      /\ foreign' \subseteq (1 .. client.asked) \X (1 .. client.asked)
  <2>1. ASSUME NEW p \in foreign' \ foreign
        PROVE  p \in (1 .. client.asked) \X (1 .. client.asked)
    <3>1. /\ answers # <<>> /\ Head(answers).seq \in DOMAIN pending
          /\ p = <<pending[Head(answers).seq].id, Head(answers).id>>
      BY ReportsMove
    <3>2. Head(answers).id \in 1 .. client.asked
      <4>1. Head(answers) \in ToSet(answers)
        BY <1>1, <3>1, Taken
      <4> QED BY <1>2, <4>1 DEF OnItsWay
    <3> QED BY <1>3, <3>1, <3>2
  <2>2. foreign' \subseteq (1 .. client.asked) \X (1 .. client.asked)
    <3> DEFINE pairs == (1 .. client.asked) \X (1 .. client.asked)
    <3>1. foreign \subseteq pairs /\ \A p \in foreign' \ foreign : p \in pairs
      BY <1>2, <2>1
    <3> HIDE DEF pairs
    <3>2. foreign' \subseteq pairs
      BY <3>1
    <3> QED BY <3>2 DEF pairs
  <2>3. ASSUME NEW i \in failed' \ failed PROVE i \in 1 .. client.asked
    BY <1>3, ReportsMove
  <2> QED BY <1>2, <2>2, <2>3
<1>5. \A x \in ToSet(inbox') \cup ToSet(answers') : OnItsWay(x, client, forgotten)
  <2>1. ASSUME NEW x \in ToSet(inbox') \cup ToSet(answers')
        PROVE  OnItsWay(x, client, forgotten)
    <3>1. PICK y \in Line \cup ToSet(answers) : y.id = x.id /\ y.seq = x.seq
      BY LineMoves
    <3> QED BY <1>2, <3>1 DEF OnItsWay
  <2> QED BY <2>1
<1>6. \A x \in ToSet(client.queue) : OnItsWay(x, client, forgotten)
  BY <1>2 DEF Line
<1>7. CASE Clear
  <2>1. /\ client'.queue = client.queue /\ client'.asked = client.asked
        /\ client'.m.seq = 1 /\ DOMAIN client'.m.pending = {} /\ forgotten' = client.asked
    BY <1>1, <1>7, ClearEffect DEF Clear
  <2>2. NumberOf(client.asked + 1, client.asked) = 1
    <3>1. MaxSeq \in Nat \ {0} /\ 0 \in 0 .. MaxSeq - 1
          /\ (client.asked + 1) - client.asked - 1 = 0
      BY <1>1, MonitorClientAssumption
    <3>2. 0 % MaxSeq = 0
      BY <3>1, ModSmall
    <3> QED BY <3>1, <3>2 DEF NumberOf
  <2>3. Numbered(client, forgotten)'
    BY <1>1, <2>1, <2>2 DEF Numbered
  <2>4. ASSUME NEW x, OnItsWay(x, client, forgotten) PROVE OnItsWay(x, client', forgotten')
    BY <1>1, <2>1, <2>4 DEF OnItsWay
  <2>5. \A x \in (Line \cup ToSet(answers))' : OnItsWay(x, client', forgotten')
    BY <1>5, <1>6, <2>1, <2>4 DEF Line
  <2> QED BY <1>4, <2>1, <2>3, <2>5 DEF NumbersInv
<1>8. CASE Moves(client, client')
  <2>1. CASE Clear
    BY <1>7, <2>1
  <2>2. CASE ~Clear
    <3>1. forgotten' = forgotten
      BY <2>2, SendFacts
         DEF Next, monitorRead, Apply, Respond, Receive, Timer, SetPoll, ChangeLink, vars
    <3>2. /\ Numbered(client', forgotten) /\ client.asked <= client'.asked /\ client' \in Clients
          /\ \A x : OnItsWay(x, client, forgotten) => OnItsWay(x, client', forgotten)
          /\ \A x \in ToSet(client'.queue) \ ToSet(client.queue) : OnItsWay(x, client', forgotten)
      BY <1>1, <1>2, <1>8, NumbersMove
    <3>3. client'.asked \in Nat
      BY <3>2, ClientParts
    <3>4. \A x \in ToSet(client'.queue) \cup ToSet(inbox') \cup ToSet(answers') :
            OnItsWay(x, client', forgotten)
      BY <1>5, <1>6, <3>2
    <3>5. /\ failed' \subseteq 1 .. client'.asked
          /\ foreign' \subseteq (1 .. client'.asked) \X (1 .. client'.asked)
      <4>1. 1 .. client.asked \subseteq 1 .. client'.asked
        BY <1>1, <3>2, <3>3
      <4> QED BY <1>4, <4>1
    <3> QED BY <3>1, <3>2, <3>4, <3>5 DEF NumbersInv, Line
  <2> QED BY <2>1, <2>2
<1> QED BY <1>7, <1>8, ClientMoves

LEMMA Numbering == Spec => [](KindsInv /\ RoomInv /\ NumbersInv)
<1>1. Init => KindsInv /\ RoomInv /\ NumbersInv
  BY RequestsInit
<1>2. KindsInv /\ RoomInv /\ NumbersInv /\ [Next]_vars => (KindsInv /\ RoomInv /\ NumbersInv)'
  BY KindsStep, RoomStep, NumbersStep
<1> QED BY <1>1, <1>2, PTL DEF Spec

(* Every variable holds a value of its kind, numbers stay within 1 to      *)
(* MaxSeq, an expired request is not kept, and no request is pending under *)
(* two numbers: whatever is asked, lost, cleared and repeated.             *)
THEOREM TypeCorrect == Spec => []TypeOK
<1>1. KindsInv /\ RoomInv /\ NumbersInv => TypeOK
  <2> SUFFICES ASSUME KindsInv, RoomInv, NumbersInv PROVE TypeOK
    OBVIOUS
  <2>1. /\ client \in Clients /\ client.asked \in Nat /\ client.m.seq \in 1 .. MaxSeq
        /\ DOMAIN pending \subseteq 1 .. MaxSeq
        /\ \A s \in DOMAIN pending : pending[s] \in Entries
        /\ applies \in Seq(Calls)
    BY ClientParts DEF KindsInv, pending
  <2>2. client.asked \in 0 .. MaxRequests
    <3>1. Owed = OwedOf(applies)
      BY TwoRegisters DEF Owed, OwedOf
    <3>2. Cardinality(Owed) \in Nat
      BY <2>1, <3>1, OwedFinite
    <3> QED BY <2>1, <3>2, RequestsAssumption DEF RoomInv
  <2>3. /\ \A s \in DOMAIN pending : /\ pending[s].id \in 1 .. client.asked
                                     /\ s = NumberOf(pending[s].id, forgotten)
        /\ failed \subseteq 1 .. client.asked
        /\ foreign \subseteq (1 .. client.asked) \X (1 .. client.asked)
    <3>1. \A s \in DOMAIN pending : /\ pending[s].id \in Nat
                                    /\ forgotten < pending[s].id /\ pending[s].id <= client.asked
                                    /\ s = NumberOf(pending[s].id, forgotten)
      BY <2>1 DEF NumbersInv, Numbered, pending, Entries
    <3>2. forgotten \in Nat
      BY DEF KindsInv
    <3> QED BY <2>1, <3>1, <3>2 DEF NumbersInv
  <2>4. 1 .. client.asked \subseteq Ids
    BY <2>1, <2>2, RequestsAssumption DEF Ids
  <2>5. \A s \in DOMAIN pending : pending[s].id \in Ids /\ pending[s].age < Timeout
    BY <2>1, <2>3, <2>4, RequestsAssumption DEF Entries
  <2>6. \A s, t \in DOMAIN pending : pending[s].id = pending[t].id => s = t
    BY <2>3
  <2>7. failed \subseteq Ids /\ foreign \subseteq Ids \X Ids
    <3>1. failed \subseteq Ids
      BY <2>3, <2>4
    <3>2. foreign \subseteq Ids \X Ids
      <4> DEFINE A == 1 .. client.asked
      <4>1. A \subseteq Ids /\ foreign \subseteq A \X A
        BY <2>3, <2>4
      <4> HIDE DEF A
      <4> QED BY <4>1
    <3> QED BY <3>1, <3>2
  <2> QED BY <2>1, <2>2, <2>5, <2>6, <2>7 DEF TypeOK, KindsInv
<1> QED BY <1>1, Numbering, PTL

(* An answer settles the request it answers.  What settles a request has   *)
(* its number; of two requests since the last Clear that have the same     *)
(* number the pending one is the later, and all other numbers have been    *)
(* used in between.                                                        *)
THEOREM AnswersSettleTheirOwn == Spec => []AnswerIsOwn
<1> DEFINE Inv == KindsInv /\ RoomInv /\ NumbersInv
<1>1. Init => AnswerIsOwn
  BY DEF Init, AnswerIsOwn
<1>2. Inv /\ AnswerIsOwn /\ [Next]_vars => AnswerIsOwn'
  <2> SUFFICES ASSUME Inv, AnswerIsOwn, [Next]_vars, NEW p \in foreign'
               PROVE  p[2] <= forgotten' \/ p[1] - p[2] >= MaxSeq
    BY DEF AnswerIsOwn
  <2>1. /\ client \in Clients /\ client.asked \in Nat /\ forgotten \in Nat /\ MaxSeq \in Nat
        /\ answers \in Seq(Responses) /\ forgotten <= client.asked
    BY ClientParts, MonitorClientAssumption DEF KindsInv, NumbersInv, Numbered
  <2>2. forgotten' \in Nat /\ forgotten <= forgotten'
    <3>1. forgotten' \in {forgotten, client.asked}
      BY SendFacts
         DEF Next, monitorRead, Apply, Respond, Receive, Timer, SetPoll, Clear, ChangeLink, vars
    <3> QED BY <2>1, <3>1
  <2>3. CASE p \in foreign
    <3>1. p[1] \in Nat /\ p[2] \in Nat
      BY <2>1, <2>3 DEF NumbersInv
    <3>2. p[2] <= forgotten \/ p[1] - p[2] >= MaxSeq
      BY <2>3 DEF AnswerIsOwn
    <3> QED BY <2>1, <2>2, <3>1, <3>2
  <2>4. CASE p \notin foreign
    <3> DEFINE r == Head(answers)
               i == pending[r.seq].id
    <3>1. answers # <<>> /\ r.seq \in DOMAIN pending /\ p = <<i, r.id>> /\ p[1] # p[2]
      BY <2>4, ReportsMove
    <3>2. r \in ToSet(answers)
      BY <2>1, <3>1, Taken
    <3>3. OnItsWay(r, client, forgotten)
      BY <3>2 DEF NumbersInv
    <3>4. /\ forgotten < i /\ i <= client.asked /\ client.asked - i < MaxSeq
          /\ r.seq = NumberOf(i, forgotten)
      BY <3>1 DEF NumbersInv, Numbered, pending
    <3>5. i \in Nat
      BY <2>1, <3>1, ClientParts DEF pending, Entries
    <3> DEFINE j == r.id
    <3>6. /\ j \in 1 .. client.asked
          /\ forgotten < j => r.seq = NumberOf(j, forgotten)
      BY <3>3 DEF OnItsWay
    <3> HIDE DEF i, j, r
    <3>7. p[1] = i /\ p[2] = j /\ i # j
      BY <3>1 DEF j
    <3>8. CASE j <= forgotten
      BY <2>1, <2>2, <3>6, <3>7, <3>8
    <3>9. CASE forgotten < j
      <4>1. NumberOf(i, forgotten) = NumberOf(j, forgotten) /\ j \in Nat
        BY <3>4, <3>6, <3>9
      <4>2. i < j => j - i >= MaxSeq
        BY <2>1, <3>5, <4>1, NumberSame
      <4>3. j < i => i - j >= MaxSeq
        BY <2>1, <3>5, <4>1, NumberSame
      <4>4. j <= client.asked
        BY <3>6
      <4> QED BY <2>1, <3>4, <3>5, <3>7, <4>1, <4>2, <4>3, <4>4
    <3> QED BY <2>1, <3>6, <3>8, <3>9
  <2> QED BY <2>3, <2>4
<1>3. Spec => []Inv
  BY Numbering
<1> QED BY <1>1, <1>2, <1>3, PTL DEF Spec

-----------------------------------------------------------------------------
(* The line of requests through a step.                                    *)
LEMMA AscendingJoin ==
  ASSUME NEW q \in Seq(Messages), Ascending(q), NEW x \in Messages,
         \A y \in ToSet(q) : y.id < x.id
  PROVE  Ascending(Append(q, x))
<1> DEFINE longer == Append(q, x)
           n == Len(q)
<1>1. /\ Len(longer) = n + 1 /\ n \in Nat /\ longer[n + 1] = x
      /\ \A i \in 1 .. n : longer[i] = q[i] /\ q[i] \in ToSet(q)
  BY Joined, Members
<1> HIDE DEF longer, n
<1>2. \A i \in 1 .. n + 1 : i \in 1 .. n \/ i = n + 1
  BY <1>1
<1>3. ASSUME NEW i \in 1 .. n + 1, NEW j \in 1 .. n + 1, i < j PROVE longer[i].id < longer[j].id
  <2>1. i \in 1 .. n
    BY <1>1, <1>3
  <2>2. CASE j \in 1 .. n
    BY <1>1, <1>3, <2>1, <2>2 DEF Ascending, n
  <2>3. CASE j = n + 1
    BY <1>1, <2>1, <2>3
  <2> QED BY <1>2, <2>2, <2>3
<1> QED BY <1>1, <1>3 DEF Ascending, longer

LEMMA AscendingRest ==
  ASSUME NEW q \in Seq(Messages), Ascending(q), q # <<>>
  PROVE  Ascending(Tail(q)) /\ \A y \in ToSet(Tail(q)) : Head(q).id < y.id
<1> DEFINE rest == Tail(q)
<1>1. /\ rest \in Seq(Messages) /\ Len(q) \in Nat /\ Len(rest) = Len(q) - 1
      /\ Head(q) = q[1] /\ 1 \in 1 .. Len(q)
      /\ \A i \in 1 .. Len(rest) : rest[i] = q[i + 1] /\ i + 1 \in 2 .. Len(q)
  BY Taken
<1> HIDE DEF rest
<1>2. \A y \in ToSet(rest) : \E i \in 1 .. Len(rest) : rest[i] = y
  BY <1>1, Members
<1>3. Ascending(rest)
  <2>1. ASSUME NEW i \in 1 .. Len(rest), NEW j \in 1 .. Len(rest), i < j
        PROVE  rest[i].id < rest[j].id
    <3>1. i + 1 \in 1 .. Len(q) /\ j + 1 \in 1 .. Len(q) /\ i + 1 < j + 1
      BY <1>1, <2>1
    <3> QED BY <1>1, <3>1 DEF Ascending
  <2> QED BY <2>1 DEF Ascending
<1>4. ASSUME NEW y \in ToSet(rest) PROVE q[1].id < y.id
  <2>1. PICK i \in 1 .. Len(rest) : rest[i] = y
    BY <1>2
  <2>2. y = q[i + 1] /\ 1 < i + 1 /\ i + 1 \in 1 .. Len(q)
    BY <1>1, <2>1
  <2> QED BY <1>1, <2>2 DEF Ascending
<1> QED BY <1>1, <1>3, <1>4 DEF rest

(* A request is the last in the queue, and pending.                        *)
Joins(c, d, x) ==
  /\ x.id = c.asked + 1 /\ d.asked = c.asked + 1 /\ d \in Clients
  /\ d.queue = Append(c.queue, x) /\ ToSet(d.queue) = ToSet(c.queue) \cup {x}
  /\ \E s \in DOMAIN d.m.pending : d.m.pending[s].id = c.asked + 1

LEMMA AskQueue ==
  ASSUME NEW c \in Clients, NEW op \in {"read", "write"}, NEW addr \in Addrs, NEW value \in Nat,
         NEW d, d = Ask(c, op, addr, value)
  PROVE  \E x \in Messages : x.op = op /\ x.addr = addr /\ x.value = value /\ Joins(c, d, x)
<1> DEFINE x == [op |-> op, seq |-> c.m.seq, id |-> c.asked + 1, addr |-> addr, value |-> value]
<1>1. /\ c.asked \in Nat /\ c.m.seq \in 1 .. MaxSeq /\ c.queue \in Seq(Messages)
  BY ClientParts
<1>2. x \in Messages
  BY <1>1 DEF Messages
<1>3. /\ d \in Clients /\ d.asked = c.asked + 1 /\ d.queue = Append(c.queue, x)
      /\ c.m.seq \in DOMAIN d.m.pending /\ d.m.pending[c.m.seq].id = c.asked + 1
  BY AskEffect
<1>4. x.op = op /\ x.addr = addr /\ x.value = value /\ x.id = c.asked + 1
  OBVIOUS
<1> HIDE DEF x
<1>5. ToSet(d.queue) = ToSet(c.queue) \cup {x}
  BY <1>1, <1>2, <1>3, Joined
<1> QED BY <1>2, <1>3, <1>4, <1>5 DEF Joins

(* In queue q stand requests up to the id n, in order.                     *)
Queues(q, n) == Ascending(q) /\ \A x \in ToSet(q) : x.id <= n

LEMMA QueueAsks ==
  ASSUME NEW c \in Clients, NEW d, Asks(c, d), Queues(c.queue, c.asked)
  PROVE  /\ Queues(d.queue, d.asked) /\ ToSet(c.queue) \subseteq ToSet(d.queue)
         /\ d.asked = c.asked + 1
         /\ \A x \in ToSet(d.queue) : x \in ToSet(c.queue) \/ x.id = c.asked + 1
         /\ \E x \in ToSet(d.queue) : x.id = c.asked + 1
<1>1. PICK op \in {"read", "write"}, addr \in Addrs, value \in Nat : d = Ask(c, op, addr, value)
  BY DEF Asks
<1>2. PICK x \in Messages : Joins(c, d, x)
  BY <1>1, AskQueue
<1>3. c.queue \in Seq(Messages) /\ c.asked \in Nat /\ \A y \in ToSet(c.queue) : y.id \in Nat
  <2>1. c.queue \in Seq(Messages) /\ c.asked \in Nat
    BY ClientParts
  <2>2. ToSet(c.queue) \subseteq Messages
    BY <2>1, Members
  <2> QED BY <2>1, <2>2 DEF Messages
<1>4. \A y \in ToSet(c.queue) : y.id < x.id
  BY <1>2, <1>3 DEF Queues, Joins
<1>5. Ascending(d.queue)
  BY <1>2, <1>3, <1>4, AscendingJoin DEF Queues, Joins
<1>6. \A y \in ToSet(d.queue) : y.id <= d.asked
  BY <1>2, <1>3 DEF Queues, Joins
<1> QED BY <1>2, <1>5, <1>6 DEF Queues, Joins

(* Only sending takes a request out of the queue.                          *)
LEMMA QueueKept ==
  ASSUME KindsInv, [Next]_vars, ~Send, Queues(client.queue, client.asked)
  PROVE  /\ Queues(client'.queue, client'.asked)
         /\ ToSet(client.queue) \subseteq ToSet(client'.queue)
         /\ \A x \in ToSet(client'.queue) : x \in ToSet(client.queue) \/ x.id > client.asked
<1>1. client \in Clients /\ client.asked \in Nat
  BY ClientParts DEF KindsInv
<1>2. ASSUME client'.queue = client.queue, client'.asked = client.asked
      PROVE  /\ Queues(client'.queue, client'.asked)
             /\ ToSet(client.queue) \subseteq ToSet(client'.queue)
             /\ \A x \in ToSet(client'.queue) : x \in ToSet(client.queue) \/ x.id > client.asked
  BY <1>2
<1>3. ASSUME NEW e \in Clients, e.queue = client.queue, e.asked = client.asked,
             Asks(e, client') \/ \E f \in Clients : Asks(e, f) /\ Asks(f, client')
      PROVE  /\ Queues(client'.queue, client'.asked)
             /\ ToSet(client.queue) \subseteq ToSet(client'.queue)
             /\ \A x \in ToSet(client'.queue) : x \in ToSet(client.queue) \/ x.id > client.asked
  <2>1. Queues(e.queue, e.asked)
    BY <1>3
  <2>2. CASE Asks(e, client')
    BY <1>1, <1>3, <2>1, <2>2, QueueAsks
  <2>3. ASSUME NEW f \in Clients, Asks(e, f), Asks(f, client')
        PROVE  /\ Queues(client'.queue, client'.asked)
               /\ ToSet(client.queue) \subseteq ToSet(client'.queue)
               /\ \A x \in ToSet(client'.queue) : x \in ToSet(client.queue) \/ x.id > client.asked
    <3>1. /\ Queues(f.queue, f.asked) /\ ToSet(e.queue) \subseteq ToSet(f.queue)
          /\ f.asked = e.asked + 1
          /\ \A x \in ToSet(f.queue) : x \in ToSet(e.queue) \/ x.id = e.asked + 1
      BY <2>1, <2>3, QueueAsks
    <3>2. /\ Queues(client'.queue, client'.asked) /\ ToSet(f.queue) \subseteq ToSet(client'.queue)
          /\ \A x \in ToSet(client'.queue) : x \in ToSet(f.queue) \/ x.id = f.asked + 1
      BY <2>3, <3>1, QueueAsks
    <3> QED BY <1>1, <1>3, <3>1, <3>2
  <2> QED BY <1>3, <2>2, <2>3
<1>4. ASSUME NEW addr \in ReadAddrs, monitorRead(addr) PROVE Asks(client, client')
  BY <1>4, RequestsAssumption DEF Asks, monitorRead, Addrs
<1>5. CASE Apply
  <2>1. /\ client' = Ask(client, "write", Registers[1], Last(configs')[Registers[1]])
        /\ Last(configs')[Registers[1]] \in Nat /\ Registers[1] \in Addrs
    BY <1>5, ApplyFacts, TwoRegisters
  <2>2. Asks(client, client')
    BY <2>1 DEF Asks
  <2> QED BY <1>1, <1>3, <2>2
<1>6. CASE Timer
  <2> DEFINE e == [client EXCEPT !.m = expireMonitorPending(client.m)]
  <2>1. e \in Clients /\ e.queue = client.queue /\ e.asked = client.asked
    BY <1>1, ExpiryEffect DEF Less
  <2>2. client' = e \/ client' = ReadAll(e)
    BY <1>6 DEF Timer
  <2> HIDE DEF e
  <2>3. CASE client' = ReadAll(e)
    <3> DEFINE f == Ask(e, "read", Registers[1], 0)
    <3>1. /\ client' = Ask(f, "read", Registers[2], 0)
          /\ Registers[1] \in Addrs /\ Registers[2] \in Addrs
      BY <2>3, TwoRegisters DEF ReadAll
    <3>2. Asks(e, f)
      BY <3>1 DEF Asks
    <3> HIDE DEF f
    <3>3. Asks(f, client') /\ f \in Clients
      BY <2>1, <3>1, <3>2, AsksClients DEF Asks
    <3> QED BY <1>3, <2>1, <3>2, <3>3
  <2> QED BY <1>2, <2>1, <2>2, <2>3
<1>7. CASE Receive \/ Respond \/ SetPoll \/ Clear \/ ChangeLink \/ UNCHANGED vars
  <2>1. client'.queue = client.queue /\ client'.asked = client.asked
    BY <1>1, <1>7, SwitchEffect, ClearEffect
       DEF Receive, Respond, SetPoll, Clear, ChangeLink, vars, Less, Clients
  <2> QED BY <1>2, <2>1
<1> QED BY <1>1, <1>3, <1>4, <1>5, <1>6, <1>7 DEF Next

LEMMA InOrder ==
  ASSUME KindsInv, NumbersInv, LineInv
  PROVE  /\ Queues(client.queue, client.asked) /\ Queues(inbox, client.asked)
         /\ \A x \in Line \cup ToSet(answers) : x.id \in Nat /\ x.id <= client.asked
<1>1. client.asked \in Nat
  BY ClientParts DEF KindsInv
<1>2. \A x \in Line \cup ToSet(answers) : x.id \in Nat /\ x.id <= client.asked
  BY <1>1 DEF NumbersInv, OnItsWay
<1> QED BY <1>2 DEF Queues, LineInv, Line

LEMMA LineStep == KindsInv /\ NumbersInv /\ LineInv /\ [Next]_vars => LineInv'
<1> SUFFICES ASSUME KindsInv, NumbersInv, LineInv, [Next]_vars PROVE LineInv'
  OBVIOUS
<1>1. /\ client \in Clients /\ client.asked \in Nat /\ inbox \in Seq(Messages)
      /\ applies \in Seq(Calls) /\ client.queue \in Seq(Messages) /\ Len(applies) \in Nat
  BY ClientParts DEF KindsInv
<1>2. /\ Queues(client.queue, client.asked) /\ Queues(inbox, client.asked)
      /\ \A x \in Line \cup ToSet(answers) : x.id \in Nat /\ x.id <= client.asked
  BY InOrder
<1>3. /\ \A x \in ToSet(inbox), y \in ToSet(client.queue) : x.id < y.id
      /\ \A a \in 1 .. Len(applies) : applies[a].next = 2 =>
           \E x \in ToSet(client.queue) : x.id = applies[a].awaits
      /\ \A a, b \in 1 .. Len(applies) :
           applies[a].next = 2 /\ applies[b].next = 2 /\ applies[a].awaits = applies[b].awaits
           => a = b
  BY DEF LineInv
<1>4. CASE Send
  <2> DEFINE e == [client EXCEPT !.queue = Tail(@)]
             head == Head(client.queue)
  <2>1. client.queue # <<>> /\ Continue(head.id, e) /\ inbox' \in {inbox, Append(inbox, head)}
    BY <1>4, SendFacts
  <2>2. e \in Clients /\ e.queue = Tail(client.queue) /\ e.asked = client.asked
    BY <1>1, <2>1, SentEffect DEF Less
  <2>3. /\ head \in Messages /\ head \in ToSet(client.queue)
        /\ ToSet(Tail(client.queue)) \subseteq ToSet(client.queue)
        /\ \A x \in ToSet(client.queue) : x = head \/ x \in ToSet(Tail(client.queue))
    BY <1>1, <2>1, Taken
  <2>4. Ascending(Tail(client.queue)) /\ \A y \in ToSet(Tail(client.queue)) : head.id < y.id
    BY <1>1, <1>2, <2>1, AscendingRest DEF Queues
  <2> HIDE DEF e, head
  <2>5. Queues(e.queue, e.asked)
    BY <1>2, <2>2, <2>3, <2>4 DEF Queues
  <2>6. client' = e \/ Asks(e, client')
    BY <2>1, <2>2, ContinueMoves
  <2>7. /\ Queues(client'.queue, client'.asked) /\ ToSet(e.queue) \subseteq ToSet(client'.queue)
        /\ \A x \in ToSet(client'.queue) : x \in ToSet(e.queue) \/ x.id = client.asked + 1
    BY <2>2, <2>5, <2>6, QueueAsks
  <2>8. head.id \in Nat /\ head.id <= client.asked
    BY <1>2, <2>3 DEF Line
  <2>9. Ascending(inbox')
    <3>1. \A y \in ToSet(inbox) : y.id < head.id
      BY <1>3, <2>3
    <3> QED BY <1>1, <1>2, <2>1, <2>3, <3>1, AscendingJoin DEF Queues
  <2>10. ASSUME NEW x \in ToSet(inbox'), NEW y \in ToSet(client'.queue) PROVE x.id < y.id
    <3>1. x \in ToSet(inbox) \/ x = head
      <4>1. ToSet(Append(inbox, head)) = ToSet(inbox) \cup {head}
        BY <1>1, <2>3, Joined
      <4> QED BY <2>1, <4>1
    <3>2. y \in ToSet(e.queue) \/ y.id = client.asked + 1
      BY <2>7
    <3>3. x.id \in Nat /\ x.id <= client.asked
      BY <1>2, <2>8, <3>1 DEF Line
    <3> QED BY <1>1, <1>3, <2>2, <2>3, <2>4, <3>1, <3>2, <3>3
  <2>11. CASE Stays(head.id, e)
    <3>1. applies' = applies /\ \A a \in 1 .. Len(applies) : applies[a].next = 2 =>
            applies[a].awaits # head.id
      BY <2>11 DEF Stays
    <3>2. ASSUME NEW a \in 1 .. Len(applies), applies[a].next = 2
          PROVE  \E x \in ToSet(client'.queue) : x.id = applies[a].awaits
      <4>1. PICK x \in ToSet(client.queue) : x.id = applies[a].awaits
        BY <1>3, <3>2
      <4>2. x # head
        BY <3>1, <3>2, <4>1
      <4>3. x \in ToSet(client'.queue)
        BY <2>2, <2>3, <2>7, <4>2
      <4> QED BY <4>1, <4>3
    <3> QED BY <1>3, <2>7, <2>9, <2>10, <3>1, <3>2 DEF LineInv, Queues
  <2>12. ASSUME NEW a \in 1 .. Len(applies), Goes(a, head.id, e) PROVE LineInv'
    <3>1. /\ Len(applies') = Len(applies) /\ applies'[a].next = 3
          /\ applies[a].next = 2 /\ applies[a].awaits = head.id
          /\ \A b \in 1 .. Len(applies) : b # a => applies'[b] = applies[b]
      BY <2>12 DEF Goes
    <3>2. ASSUME NEW b \in 1 .. Len(applies), applies'[b].next = 2
          PROVE  /\ applies'[b] = applies[b] /\ applies[b].next = 2
                 /\ \E x \in ToSet(client'.queue) : x.id = applies'[b].awaits
      <4>1. b # a /\ applies'[b] = applies[b] /\ applies[b].next = 2
        BY <3>1, <3>2
      <4>2. PICK x \in ToSet(client.queue) : x.id = applies[b].awaits
        BY <1>3, <4>1
      <4>3. applies[b].awaits # head.id
        BY <1>3, <3>1, <4>1
      <4>4. x \in ToSet(client'.queue)
        BY <2>2, <2>3, <2>7, <4>2, <4>3
      <4> QED BY <4>1, <4>2, <4>4
    <3>3. ASSUME NEW b \in 1 .. Len(applies), NEW c \in 1 .. Len(applies),
                 applies'[b].next = 2, applies'[c].next = 2,
                 applies'[b].awaits = applies'[c].awaits
          PROVE  b = c
      BY <1>3, <3>2, <3>3
    <3>4. Ascending(client'.queue)
      BY <2>7 DEF Queues
    <3> QED BY <2>9, <2>10, <3>1, <3>2, <3>3, <3>4 DEF LineInv
  <2> QED BY <2>1, <2>2, <2>11, <2>12, ContinueEffect
<1>5. CASE ~Send
  <2>1. /\ Queues(client'.queue, client'.asked)
        /\ ToSet(client.queue) \subseteq ToSet(client'.queue)
        /\ \A x \in ToSet(client'.queue) : x \in ToSet(client.queue) \/ x.id > client.asked
    BY <1>2, <1>5, QueueKept
  <2>2. Ascending(inbox') /\ ToSet(inbox') \subseteq ToSet(inbox)
    <3>1. CASE Respond
      <4>1. inbox # <<>> /\ inbox' = Tail(inbox)
        BY <3>1 DEF Respond
      <4> QED BY <1>1, <1>2, <4>1, AscendingRest, Taken DEF Queues
    <3>2. CASE inbox' = inbox
      BY <1>2, <3>2 DEF Queues
    <3> QED BY <1>5, <3>1, <3>2
            DEF Next, monitorRead, Apply, Receive, Timer, SetPoll, Clear, ChangeLink, vars
  <2>3. ASSUME NEW x \in ToSet(inbox'), NEW y \in ToSet(client'.queue) PROVE x.id < y.id
    <3>1. x \in ToSet(inbox) /\ x.id \in Nat /\ x.id <= client.asked
      BY <1>2, <2>2 DEF Line
    <3>2. CASE y \in ToSet(client.queue)
      BY <1>3, <3>1, <3>2
    <3>3. CASE y.id > client.asked
      <4>1. client' \in Clients
        BY KindsStep DEF KindsInv
      <4>2. ToSet(client'.queue) \subseteq Messages
        BY <4>1, ClientParts, Members
      <4>3. y.id \in Nat
        BY <4>2 DEF Messages
      <4> QED BY <1>1, <3>1, <3>3, <4>3
    <3> QED BY <2>1, <3>2, <3>3
  <2>4. CASE Apply
    <3> DEFINE call == [object |-> Len(configs), next |-> 2, awaits |-> client.asked + 1]
               n == Len(applies)
    <3>1. /\ applies' = Append(applies, call) /\ call \in Calls
          /\ client' = Ask(client, "write", Registers[1], Last(configs')[Registers[1]])
          /\ Last(configs')[Registers[1]] \in Nat /\ Registers[1] \in Addrs
      BY <2>4, ApplyFacts, TwoRegisters
    <3>2. \E x \in ToSet(client'.queue) : x.id = client.asked + 1
      <4>1. Asks(client, client')
        BY <3>1 DEF Asks
      <4> QED BY <1>1, <1>2, <4>1, QueueAsks
    <3>3. call.awaits = client.asked + 1
      OBVIOUS
    <3> HIDE DEF call, n
    <3>4. /\ Len(applies') = n + 1 /\ applies'[n + 1] = call /\ n \in Nat
          /\ \A a \in 1 .. n : applies'[a] = applies[a]
      BY <1>1, <3>1 DEF n
    <3>5. \A a \in 1 .. n + 1 : a \in 1 .. n \/ a = n + 1
      BY <3>4
    <3>6. ASSUME NEW a \in 1 .. n, applies'[a].next = 2
          PROVE  /\ applies'[a] = applies[a] /\ applies'[a].awaits # client.asked + 1
                 /\ \E x \in ToSet(client'.queue) : x.id = applies'[a].awaits
      <4>1. applies'[a] = applies[a]
        BY <3>4
      <4>2. PICK x \in ToSet(client.queue) : x.id = applies[a].awaits
        BY <1>3, <3>6, <4>1 DEF n
      <4>3. x.id \in Nat /\ x.id <= client.asked
        BY <1>2, <4>2 DEF Line
      <4> QED BY <1>1, <2>1, <4>1, <4>2, <4>3
    <3>7. \A a \in 1 .. n + 1 : applies'[a].next = 2 =>
            \E x \in ToSet(client'.queue) : x.id = applies'[a].awaits
      BY <3>2, <3>3, <3>4, <3>5, <3>6
    <3>8. ASSUME NEW a \in 1 .. n + 1, NEW b \in 1 .. n + 1,
                 applies'[a].next = 2, applies'[b].next = 2,
                 applies'[a].awaits = applies'[b].awaits
          PROVE  a = b
      <4>1. CASE a \in 1 .. n /\ b \in 1 .. n
        BY <1>3, <3>6, <3>8, <4>1 DEF n
      <4>2. CASE a = n + 1 \/ b = n + 1
        BY <3>3, <3>4, <3>5, <3>6, <3>8, <4>2
      <4> QED BY <3>5, <4>1, <4>2
    <3> QED BY <2>1, <2>2, <2>3, <3>4, <3>7, <3>8 DEF LineInv, Queues
  <2>5. CASE applies' = applies
    <3>1. \A a \in 1 .. Len(applies) : applies[a].next = 2 =>
            \E x \in ToSet(client'.queue) : x.id = applies[a].awaits
      BY <1>3, <2>1
    <3> QED BY <1>3, <2>1, <2>2, <2>3, <2>5, <3>1 DEF LineInv, Queues
  <2> QED BY <1>5, <2>4, <2>5
          DEF Next, monitorRead, Respond, Receive, Timer, SetPoll, Clear, ChangeLink, vars
<1> QED BY <1>4, <1>5

-----------------------------------------------------------------------------
(* The request that writes a register last, through a step: another        *)
(* request moves, or this one is made.                                     *)
LEMMA HoldsAsks ==
  ASSUME NEW c \in Clients, NEW first \in Nat, Numbered(c, first), NEW d, Asks(c, d),
         NEW w \in Nat, Holds(c, w)
  PROVE  Holds(d, w)
<1>1. PICK op \in {"read", "write"}, addr \in Addrs, value \in Nat : d = Ask(c, op, addr, value)
  BY DEF Asks
<1>2. d.asked = c.asked + 1 /\ c.asked \in Nat
  <2>1. d.asked = c.asked + 1
    BY <1>1 DEF Ask
  <2>2. c.asked \in Nat
    BY ClientParts
  <2> QED BY <2>1, <2>2
<1>3. CASE \E s \in DOMAIN c.m.pending : c.m.pending[s].id = w
  <2>1. \A s \in DOMAIN c.m.pending : Holds(d, c.m.pending[s].id)
    BY <1>1, NumbersAsk
  <2> QED BY <1>3, <2>1
<1>4. CASE c.asked - w >= MaxSeq
  BY <1>2, <1>4, MonitorClientAssumption DEF Holds
<1> QED BY <1>3, <1>4 DEF Holds

LEMMA LastStays ==
  ASSUME NEW r \in Addrs, LastWriteInv(r), lastWrite'[r] = lastWrite[r],
         client.asked \in Nat, client'.asked \in Nat, lastWrite[r] \in Nat,
         client.asked <= client'.asked,
         \A x \in Line' : x \in Line \/ (x.id > client.asked /\ ~(x.op = "write" /\ x.addr = r)),
         ToSet(answers') \subseteq ToSet(answers),
         Owes(r) => Owes(r)', Owes(r)' \/ Last(configs')[r] = Last(configs)[r],
         device' = device, Owes(r)' \/ (applies = <<>> => applies' = <<>>),
         failed \subseteq failed',
         Holds(client, lastWrite[r]) =>
           Holds(client', lastWrite[r]) \/ lastWrite[r] \in failed' \/ Reached(r)
  PROVE  LastWriteInv(r)'
<1> DEFINE w == lastWrite[r]
<1>1. /\ w <= client.asked
      /\ \A x \in WritesTo(r) : x.id <= w
      /\ \A x \in Line : x.id = w => x \in WritesTo(r) /\ (Owes(r) \/ x.value = Last(configs)[r])
      /\ \A x \in ToSet(answers) : x.id = w /\ x.status = OK => Reached(r)
      /\ w = 0 => Owes(r) \/ applies = <<>>
      /\ w # 0 => Holds(client, w) \/ w \in failed \/ Reached(r)
  BY DEF LastWriteInv
<1> HIDE DEF w
<1>2. lastWrite'[r] = w /\ w \in Nat
  BY DEF w
<1>3. WritesTo(r)' \subseteq WritesTo(r)
  BY DEF WritesTo
<1>4. Reached(r) => Reached(r)'
  BY <1>3 DEF Reached
<1>5. \A x \in WritesTo(r)' : x.id <= w
  BY <1>1, <1>3
<1>6. ASSUME NEW x \in Line', x.id = w
      PROVE  x \in WritesTo(r)' /\ (Owes(r)' \/ x.value = Last(configs')[r])
  <2>1. x \in Line
    BY <1>1, <1>2, <1>6
  <2>2. x \in WritesTo(r) /\ (Owes(r) \/ x.value = Last(configs)[r])
    BY <1>1, <1>6, <2>1
  <2> QED BY <2>2 DEF WritesTo
<1>7. w <= client'.asked
  BY <1>1, <1>2
<1>8. \A x \in ToSet(answers') : x.id = w /\ x.status = OK => Reached(r)'
  BY <1>1, <1>4
<1>9. w = 0 => Owes(r)' \/ applies' = <<>>
  BY <1>1
<1>10. w # 0 => Holds(client', w) \/ w \in failed' \/ Reached(r)'
  BY <1>1, <1>4 DEF w
<1> QED BY <1>2, <1>5, <1>6, <1>7, <1>8, <1>9, <1>10 DEF LastWriteInv

LEMMA LastMade ==
  ASSUME NEW r \in Addrs, client.asked \in Nat, lastWrite'[r] = client.asked + 1,
         NEW x \in Messages, x.op = "write", x.addr = r, x.id = client.asked + 1,
         x.value = Last(configs')[r], client'.asked = client.asked + 1,
         \A y \in Line' : y = x \/ y \in Line,
         \A y \in Line \cup ToSet(answers) : y.id \in Nat /\ y.id <= client.asked,
         answers' = answers, Holds(client', client.asked + 1)
  PROVE  LastWriteInv(r)'
<1> DEFINE w == client.asked + 1
<1>1. w \in Nat /\ w # 0 /\ lastWrite'[r] = w /\ w = client'.asked
  OBVIOUS
<1>2. \A y \in Line : y.id < w
  OBVIOUS
<1>3. \A y \in ToSet(answers') : y.id # w
  BY <1>1
<1>4. ASSUME NEW y \in WritesTo(r)' PROVE y.id <= w
  <2>1. y = x \/ y \in Line
    BY DEF WritesTo
  <2> QED BY <2>1
<1>5. ASSUME NEW y \in Line', y.id = w
      PROVE  y \in WritesTo(r)' /\ y.value = Last(configs')[r]
  <2>1. y = x
    BY <1>2, <1>5
  <2> QED BY <1>5, <2>1 DEF WritesTo
<1> HIDE DEF w
<1> QED BY <1>1, <1>3, <1>4, <1>5 DEF LastWriteInv, w

(* Requests that read change nothing of it.                                *)
LEMMA LastRead ==
  ASSUME NEW r \in Addrs, LastWriteInv(r), client.asked \in Nat, lastWrite[r] \in Nat,
         client' \in Clients, client.asked <= client'.asked,
         \A x \in ToSet(client'.queue) :
           x \in ToSet(client.queue) \/ (x.id > client.asked /\ x.op = "read"),
         UNCHANGED <<inbox, answers, device, configs, applies, lastWrite>>,
         failed \subseteq failed',
         Holds(client, lastWrite[r]) =>
           Holds(client', lastWrite[r]) \/ lastWrite[r] \in failed' \/ Reached(r)
  PROVE  LastWriteInv(r)'
<1>1. client'.asked \in Nat
  BY ClientParts
<1>2. \A x \in Line' : x \in Line \/ (x.id > client.asked /\ ~(x.op = "write" /\ x.addr = r))
  BY DEF Line
<1>3. Owes(r) => Owes(r)'
  BY DEF Owes
<1> QED BY <1>1, <1>2, <1>3, LastStays

LEMMA ReadsOf ==
  ASSUME NEW c \in Clients, NEW addr \in Addrs
  PROVE  /\ Ask(c, "read", addr, 0) \in Clients /\ Asks(c, Ask(c, "read", addr, 0))
         /\ Ask(c, "read", addr, 0).asked = c.asked + 1
         /\ \A x \in ToSet(Ask(c, "read", addr, 0).queue) :
              x \in ToSet(c.queue) \/ (x.id = c.asked + 1 /\ x.op = "read")
<1> DEFINE d == Ask(c, "read", addr, 0)
<1>1. PICK x \in Messages : x.op = "read" /\ Joins(c, d, x)
  BY AskQueue
<1>2. Asks(c, d)
  BY DEF Asks
<1> HIDE DEF d
<1>3. /\ d \in Clients /\ d.asked = c.asked + 1
      /\ \A y \in ToSet(d.queue) : y \in ToSet(c.queue) \/ (y.id = c.asked + 1 /\ y.op = "read")
  BY <1>1 DEF Joins
<1> QED BY <1>2, <1>3 DEF d

LEMMA LastTimer ==
  ASSUME KindsInv, NumbersInv, Timer, NEW r \in Addrs, LastWriteInv(r)
  PROVE  LastWriteInv(r)'
<1> DEFINE e == [client EXCEPT !.m = expireMonitorPending(client.m)]
           w == lastWrite[r]
<1>1. /\ client \in Clients /\ client.asked \in Nat /\ forgotten \in Nat /\ w \in Nat
      /\ Numbered(client, forgotten)
  BY ClientParts DEF KindsInv, NumbersInv
<1>2. /\ Less(client, e) /\ e.queue = client.queue
      /\ DOMAIN e.m.pending = DOMAIN client.m.pending \ Overdue(client.m)
  BY <1>1, ExpiryEffect
<1>3. /\ client' = e \/ client' = ReadAll(e)
      /\ failed' = failed \cup {pending[s].id : s \in Overdue(client.m)}
      /\ UNCHANGED <<inbox, answers, device, configs, applies, lastWrite>>
  BY DEF Timer
<1> HIDE DEF e, w
<1>4. e \in Clients /\ e.asked = client.asked /\ Numbered(e, forgotten)
  BY <1>1, <1>2, NumbersLess DEF Less
<1>5. Holds(client, w) => Holds(e, w) \/ w \in failed'
  <2>1. ASSUME NEW s \in DOMAIN client.m.pending, client.m.pending[s].id = w
        PROVE  Holds(e, w) \/ w \in failed'
    <3>1. CASE s \in Overdue(client.m)
      BY <1>3, <2>1, <3>1 DEF pending
    <3>2. CASE s \notin Overdue(client.m)
      BY <1>2, <2>1, <3>2 DEF Less, Holds
    <3> QED BY <3>1, <3>2
  <2> QED BY <1>4, <2>1 DEF Holds
<1>6. CASE client' = e
  BY <1>1, <1>2, <1>3, <1>4, <1>5, <1>6, LastRead DEF w
<1>7. CASE client' = ReadAll(e)
  <2> DEFINE f == Ask(e, "read", Registers[1], 0)
             g == Ask(f, "read", Registers[2], 0)
  <2>1. client' = g /\ Registers[1] \in Addrs /\ Registers[2] \in Addrs
    BY <1>7, TwoRegisters DEF ReadAll
  <2>2. /\ f \in Clients /\ Asks(e, f) /\ f.asked = e.asked + 1
        /\ \A x \in ToSet(f.queue) : x \in ToSet(e.queue) \/ (x.id = e.asked + 1 /\ x.op = "read")
    BY <1>4, <2>1, ReadsOf
  <2> HIDE DEF f
  <2>3. /\ g \in Clients /\ Asks(f, g) /\ g.asked = f.asked + 1
        /\ \A x \in ToSet(g.queue) : x \in ToSet(f.queue) \/ (x.id = f.asked + 1 /\ x.op = "read")
    BY <2>1, <2>2, ReadsOf
  <2> HIDE DEF g
  <2>4. Numbered(f, forgotten)
    <3>1. e.queue = e.queue /\ Less(e, e)
      BY <1>4, LessSelf
    <3>2. Moves(e, f)
      BY <1>4, <2>2, <3>1 DEF Moves
    <3> QED BY <1>1, <1>4, <3>2, NumbersMove
  <2>5. Holds(e, w) => Holds(g, w)
    <3>1. Holds(e, w) => Holds(f, w)
      BY <1>1, <1>4, <2>2, HoldsAsks
    <3>2. Holds(f, w) => Holds(g, w)
      BY <1>1, <2>2, <2>3, <2>4, HoldsAsks
    <3> QED BY <3>1, <3>2
  <2>6. client.asked <= g.asked
    BY <1>1, <1>4, <2>2, <2>3
  <2>7. \A x \in ToSet(g.queue) :
          x \in ToSet(client.queue) \/ (x.id > client.asked /\ x.op = "read")
    BY <1>1, <1>2, <1>4, <2>2, <2>3
  <2> QED BY <1>1, <1>3, <1>5, <2>1, <2>3, <2>5, <2>6, <2>7, LastRead DEF w
<1> QED BY <1>3, <1>6, <1>7

LEMMA LastReceive ==
  ASSUME KindsInv, NumbersInv, Receive, foreign' = {}, NEW r \in Addrs, LastWriteInv(r)
  PROVE  LastWriteInv(r)'
<1> DEFINE w == lastWrite[r]
           a == Head(answers)
<1>1. /\ client \in Clients /\ client.asked \in Nat /\ w \in Nat
      /\ answers \in Seq(Responses)
  BY ClientParts DEF KindsInv
<1>2. /\ answers # <<>> /\ answers' = Tail(answers)
      /\ UNCHANGED <<inbox, device, configs, applies, lastWrite>>
  BY DEF Receive
<1>3. a \in ToSet(answers) /\ ToSet(answers') \subseteq ToSet(answers) /\ a \in Responses
  BY <1>1, <1>2, Taken
<1>4. Owes(r) => Owes(r)'
  BY <1>2 DEF Owes
<1>5. CASE UNCHANGED <<client, failed>>
  <2>1. \A x \in Line' : x \in Line
    BY <1>2, <1>5 DEF Line
  <2> QED BY <1>1, <1>2, <1>3, <1>4, <1>5, <2>1, LastStays
<1>6. CASE /\ client' = [client EXCEPT !.m = Kept(decodeMonitorResponse(@, a))]
           /\ IF a.seq \in DOMAIN pending
              THEN LET id == pending[a.seq].id
                   IN /\ failed' = IF a.status = OK THEN failed ELSE failed \cup {id}
                      /\ foreign' = IF id = a.id THEN foreign ELSE foreign \cup {<<id, a.id>>}
              ELSE UNCHANGED <<failed, foreign>>
  <2>1. /\ Less(client, client') /\ client'.queue = client.queue
        /\ DOMAIN client'.m.pending = DOMAIN client.m.pending \ {a.seq}
    BY <1>1, <1>3, <1>6, AnswerEffect
  <2>2. failed \subseteq failed'
    BY <1>6
  <2>3. client'.asked = client.asked
    BY <2>1 DEF Less
  <2>4. \A x \in Line' : x \in Line
    BY <1>2, <2>1 DEF Line
  <2>5. ASSUME Holds(client, w)
        PROVE  Holds(client', w) \/ w \in failed' \/ Reached(r)
    <3>1. CASE client.asked - w >= MaxSeq
      BY <2>3, <3>1 DEF Holds
    <3>2. ASSUME NEW s \in DOMAIN client.m.pending, client.m.pending[s].id = w
          PROVE  Holds(client', w) \/ w \in failed' \/ Reached(r)
      <4>1. CASE s # a.seq
        BY <2>1, <3>2, <4>1 DEF Less, Holds
      <4>2. CASE s = a.seq
        <5>1. a.id = w
          <6>1. foreign' = IF w = a.id THEN foreign ELSE foreign \cup {<<w, a.id>>}
            BY <1>6, <3>2, <4>2 DEF pending
          <6> HIDE DEF w, a
          <6> QED BY <6>1
        <5>2. CASE a.status = OK
          BY <1>3, <5>1, <5>2 DEF LastWriteInv
        <5>3. CASE a.status # OK
          BY <1>6, <3>2, <4>2, <5>3 DEF pending
        <5> QED BY <5>2, <5>3
      <4> QED BY <4>1, <4>2
    <3> QED BY <2>5, <3>1, <3>2 DEF Holds
  <2> QED BY <1>1, <1>2, <1>3, <1>4, <2>2, <2>3, <2>4, <2>5, LastStays
<1> QED BY <1>5, <1>6 DEF Receive

LEMMA LastRespond ==
  ASSUME KindsInv, NumbersInv, LineInv, Respond, NEW r \in Addrs, LastWriteInv(r)
  PROVE  LastWriteInv(r)'
<1> DEFINE w == lastWrite[r]
           h == Head(inbox)
           new == IF h.op = "write" /\ status(h) = OK THEN h.value ELSE device[h.addr]
           answer == [kind |-> h.op, seq |-> h.seq, id |-> h.id, addr |-> h.addr,
                      status |-> status(h), value |-> new]
<1>1. /\ inbox # <<>> /\ inbox' = Tail(inbox) /\ device' = [device EXCEPT ![h.addr] = new]
      /\ answers' = Append(answers, answer) /\ answer \in Responses
  BY DeviceAnswers
<1>2. /\ client \in Clients /\ client.asked \in Nat /\ w \in Nat
      /\ answers \in Seq(Responses) /\ inbox \in Seq(Messages) /\ device \in [Addrs -> Nat]
  BY ClientParts DEF KindsInv
<1>3. UNCHANGED <<client, configs, applies, lastWrite, failed>>
  BY DEF Respond
<1>4. /\ h \in Messages /\ h \in ToSet(inbox) /\ ToSet(inbox') \subseteq ToSet(inbox)
      /\ h \in Line
  BY <1>1, <1>2, Taken DEF Line
<1>5. ToSet(answers') = ToSet(answers) \cup {answer}
  BY <1>1, <1>2, Joined
<1>6. \A x \in Line' : x \in Line /\ h.id < x.id
  <2>1. \A x \in ToSet(inbox') : h.id < x.id
    BY <1>1, <1>2, AscendingRest DEF LineInv
  <2>2. \A x \in ToSet(client.queue) : h.id < x.id
    BY <1>4 DEF LineInv
  <2> QED BY <1>3, <1>4, <2>1, <2>2 DEF Line
<1>7. /\ w <= client.asked
      /\ \A x \in WritesTo(r) : x.id <= w
      /\ \A x \in Line : x.id = w => x \in WritesTo(r) /\ (Owes(r) \/ x.value = Last(configs)[r])
      /\ \A x \in ToSet(answers) : x.id = w /\ x.status = OK => Reached(r)
      /\ w = 0 => Owes(r) \/ applies = <<>>
      /\ w # 0 => Holds(client, w) \/ w \in failed \/ Reached(r)
  BY DEF LastWriteInv
<1>8. answer.id = h.id /\ answer.status = status(h)
  OBVIOUS
<1> HIDE DEF w, answer, new
<1>9. WritesTo(r)' \subseteq WritesTo(r)
  BY <1>6 DEF WritesTo
<1>10. /\ lastWrite'[r] = w /\ w <= client'.asked
       /\ \A x \in WritesTo(r)' : x.id <= w
       /\ \A x \in Line' : x.id = w =>
            x \in WritesTo(r)' /\ (Owes(r)' \/ x.value = Last(configs')[r])
       /\ w = 0 => Owes(r)' \/ applies' = <<>>
  <2>1. \A x \in Line' : x \in WritesTo(r) => x \in WritesTo(r)'
    BY DEF WritesTo
  <2>2. Owes(r)' = Owes(r)
    BY <1>3 DEF Owes
  <2>3. lastWrite'[r] = w /\ client' = client /\ configs' = configs /\ applies' = applies
    BY <1>3 DEF w
  <2> QED BY <1>6, <1>7, <1>9, <2>1, <2>2, <2>3
<1>11. ASSUME \A x \in ToSet(answers') : x.id = w /\ x.status = OK => Reached(r)',
              Reached(r) => Reached(r)'
       PROVE  LastWriteInv(r)'
  <2>1. w # 0 => Holds(client', w) \/ w \in failed' \/ Reached(r)'
    BY <1>3, <1>7, <1>11
  <2> QED BY <1>10, <1>11, <2>1 DEF LastWriteInv
<1>12. CASE h \notin WritesTo(r)
  <2>1. h.op # "write" \/ h.addr # r
    BY <1>4, <1>12 DEF WritesTo
  <2>2. device'[r] = device[r]
    BY <1>1, <1>2, <1>4, <2>1 DEF new
  <2>3. Reached(r) => Reached(r)'
    BY <1>3, <1>9, <2>2 DEF Reached, Owes
  <2>4. h.id # w
    BY <1>4, <1>7, <1>12
  <2>5. \A x \in ToSet(answers') : x.id = w /\ x.status = OK => Reached(r)'
    BY <1>5, <1>7, <1>8, <2>3, <2>4
  <2> QED BY <1>11, <2>3, <2>5
<1>13. CASE h \in WritesTo(r)
  <2>1. ~Reached(r) /\ h.op = "write" /\ h.addr = r /\ h.id <= w
    BY <1>7, <1>13 DEF Reached, WritesTo
  <2>2. ASSUME h.id = w, status(h) = OK PROVE Reached(r)'
    <3>1. WritesTo(r)' = {}
      <4>1. ASSUME NEW x \in WritesTo(r)' PROVE FALSE
        <5>1. h.id < x.id /\ x.id <= w /\ x \in Messages
          <6>1. x \in Line' /\ x \in Line
            BY <1>6 DEF WritesTo
          <6>2. Line \subseteq Messages
            BY <1>2, ClientParts, Members DEF Line
          <6> QED BY <1>6, <1>10, <6>1, <6>2
        <5>2. x.id \in Nat /\ h.id \in Nat
          BY <1>4, <5>1 DEF Messages
        <5> QED BY <1>2, <2>2, <5>1, <5>2
      <4> QED BY <4>1
    <3>2. device'[r] = h.value
      BY <1>1, <1>2, <2>1, <2>2 DEF new
    <3>3. Owes(r) \/ h.value = Last(configs)[r]
      BY <1>4, <1>7, <2>2
    <3> QED BY <1>3, <3>1, <3>2, <3>3 DEF Reached, Owes
  <2>3. \A x \in ToSet(answers') : x.id = w /\ x.status = OK => Reached(r)'
    BY <1>5, <1>7, <1>8, <2>1, <2>2
  <2> QED BY <1>11, <2>1, <2>3
<1> QED BY <1>12, <1>13

LEMMA LastApply ==
  ASSUME KindsInv, NumbersInv, LineInv, Apply, NEW r \in Addrs, LastWriteInv(r)
  PROVE  LastWriteInv(r)'
<1> DEFINE call == [object |-> Len(configs), next |-> 2, awaits |-> client.asked + 1]
           value == Last(configs')[Registers[1]]
<1>1. /\ client \in Clients /\ client.asked \in Nat /\ forgotten \in Nat
      /\ lastWrite \in [Addrs -> Nat] /\ applies \in Seq(Calls) /\ Numbered(client, forgotten)
  BY ClientParts DEF KindsInv, NumbersInv
<1>2. \A x \in Line \cup ToSet(answers) : x.id \in Nat /\ x.id <= client.asked
  BY InOrder
<1>3. /\ client' = Ask(client, "write", Registers[1], value) /\ value \in Nat
      /\ lastWrite' = [lastWrite EXCEPT ![Registers[1]] = client.asked + 1]
      /\ applies' = Append(applies, call) /\ call \in Calls
  BY ApplyFacts
<1>4. UNCHANGED <<inbox, answers, device, failed>>
  BY DEF Apply
<1>5. PICK x \in Messages : /\ x.op = "write" /\ x.addr = Registers[1] /\ x.value = value
                            /\ Joins(client, client', x)
  <2> DEFINE addr == Registers[1]
             op == "write"
  <2>1. addr \in Addrs /\ op \in {"read", "write"}
    BY TwoRegisters
  <2>2. client \in Clients /\ value \in Nat /\ client' = Ask(client, op, addr, value)
    BY <1>1, <1>3
  <2> HIDE DEF addr, op, value
  <2>3. \E x \in Messages : x.op = op /\ x.addr = addr /\ x.value = value
                            /\ Joins(client, client', x)
    BY <2>1, <2>2, AskQueue
  <2> QED BY <2>3 DEF addr, op
<1>6. /\ x.id = client.asked + 1 /\ client'.asked = client.asked + 1
      /\ \A y \in Line' : y = x \/ y \in Line
      /\ Holds(client', client.asked + 1)
  BY <1>4, <1>5 DEF Joins, Line, Holds
<1>7. CASE r = Registers[1]
  BY <1>1, <1>2, <1>3, <1>4, <1>5, <1>6, <1>7, LastMade
<1>8. CASE r = Registers[2]
  <2>1. r # Registers[1]
    BY <1>8, TwoRegisters
  <2>2. lastWrite'[r] = lastWrite[r] /\ lastWrite[r] \in Nat
    BY <1>1, <1>3, <2>1
  <2>3. Owes(r)'
    <3>1. call.next = 2
      OBVIOUS
    <3> HIDE DEF call
    <3>2. Len(applies') = Len(applies) + 1 /\ applies'[Len(applies) + 1] = call
          /\ Len(applies) + 1 \in 1 .. Len(applies')
      BY <1>1, <1>3
    <3> QED BY <1>8, <3>1, <3>2 DEF Owes
  <2>4. Holds(client, lastWrite[r]) => Holds(client', lastWrite[r])
    <3>1. Asks(client, client')
      BY <1>3, TwoRegisters DEF Asks
    <3> QED BY <1>1, <2>2, <3>1, HoldsAsks
  <2>5. \A y \in Line' : y \in Line \/ (y.id > client.asked /\ ~(y.op = "write" /\ y.addr = r))
    BY <1>1, <1>5, <1>6, <2>1
  <2>6. client.asked <= client'.asked /\ client'.asked \in Nat
    BY <1>1, <1>6
  <2> QED BY <1>1, <1>4, <2>2, <2>3, <2>4, <2>5, <2>6, LastStays
<1> QED BY <1>7, <1>8, TwoRegisters

LEMMA LastSend ==
  ASSUME KindsInv, NumbersInv, LineInv, Send, Len(configs) = 1, NEW r \in Addrs, LastWriteInv(r)
  PROVE  LastWriteInv(r)'
<1> DEFINE e == [client EXCEPT !.queue = Tail(@)]
           h == Head(client.queue)
<1>1. /\ client \in Clients /\ client.asked \in Nat /\ forgotten \in Nat
      /\ lastWrite \in [Addrs -> Nat] /\ applies \in Seq(Calls) /\ Numbered(client, forgotten)
      /\ inbox \in Seq(Messages) /\ client.queue \in Seq(Messages)
  BY ClientParts DEF KindsInv, NumbersInv
<1>2. \A x \in Line \cup ToSet(answers) : x.id \in Nat /\ x.id <= client.asked
  BY InOrder
<1>3. /\ client.queue # <<>> /\ Continue(h.id, e) /\ inbox' \in {inbox, Append(inbox, h)}
      /\ UNCHANGED <<answers, device, configs, failed>>
  BY SendFacts
<1>4. Less(client, e) /\ e.queue = Tail(client.queue) /\ e.m.pending = client.m.pending
  BY <1>1, <1>3, SentEffect
<1>5. /\ e \in Clients /\ e.asked = client.asked /\ Numbered(e, forgotten)
  BY <1>1, <1>4, NumbersLess DEF Less
<1>6. \A w : Holds(client, w) <=> Holds(e, w)
  BY <1>4, <1>5 DEF Holds
<1>7. /\ h \in Messages /\ h \in ToSet(client.queue)
      /\ ToSet(Tail(client.queue)) \subseteq ToSet(client.queue)
  BY <1>1, <1>3, Taken
<1>8. ToSet(inbox') \subseteq Line
  <2>1. ToSet(Append(inbox, h)) = ToSet(inbox) \cup {h}
    BY <1>1, <1>7, Joined
  <2> QED BY <1>3, <1>7, <2>1 DEF Line
<1> HIDE DEF e, h
<1>9. CASE Stays(h.id, e)
  <2>1. client' = e /\ UNCHANGED <<lastWrite, applies>>
    BY <1>9 DEF Stays
  <2>2. \A x \in Line' : x \in Line
    BY <1>4, <1>7, <1>8, <2>1 DEF Line
  <2>3. Owes(r) => Owes(r)'
    BY <2>1 DEF Owes
  <2>4. lastWrite[r] \in Nat /\ client.asked <= client'.asked /\ client'.asked \in Nat
    BY <1>1, <1>5, <2>1
  <2> QED BY <1>1, <1>3, <1>6, <2>1, <2>2, <2>3, <2>4, LastStays
<1>10. ASSUME NEW a \in 1 .. Len(applies), Goes(a, h.id, e) PROVE LastWriteInv(r)'
  <2> DEFINE value == configs[applies[a].object][Registers[2]]
  <2>1. /\ client' = Ask(e, "write", Registers[2], value)
        /\ configs[applies[a].object] \in [Addrs -> Nat]
        /\ lastWrite' = [lastWrite EXCEPT ![Registers[2]] = client.asked + 1]
        /\ Len(applies') = Len(applies)
    BY <1>5, <1>10 DEF Goes
  <2>2. value \in Nat /\ value = Last(configs')[Registers[2]]
    <3>1. applies[a] \in Calls
      BY <1>1
    <3>2. applies[a].object = 1
      <4>1. applies[a].object <= 1 /\ applies[a].object \in Nat \ {0}
        BY <3>1 DEF KindsInv, Calls
      <4> QED BY <4>1
    <3>3. Last(configs') = configs[1]
      BY <1>3 DEF Last
    <3> QED BY <2>1, <3>2, <3>3, TwoRegisters
  <2> HIDE DEF value
  <2>3. PICK x \in Messages : /\ x.op = "write" /\ x.addr = Registers[2] /\ x.value = value
                              /\ Joins(e, client', x)
    BY <1>5, <2>1, <2>2, TwoRegisters, AskQueue
  <2>4. /\ x.id = client.asked + 1 /\ client'.asked = client.asked + 1
        /\ \A y \in Line' : y = x \/ y \in Line
        /\ Holds(client', client.asked + 1)
    BY <1>4, <1>5, <1>7, <1>8, <2>3 DEF Joins, Line, Holds
  <2>5. CASE r = Registers[2]
    BY <1>1, <1>2, <1>3, <2>1, <2>2, <2>3, <2>4, <2>5, LastMade
  <2>6. CASE r = Registers[1]
    <3>1. r # Registers[2] /\ ~Owes(r)
      BY <2>6, TwoRegisters DEF Owes
    <3>2. lastWrite'[r] = lastWrite[r] /\ lastWrite[r] \in Nat
      BY <1>1, <2>1, <3>1
    <3>3. Holds(client, lastWrite[r]) => Holds(client', lastWrite[r])
      <4>1. Asks(e, client')
        BY <2>1, <2>2, TwoRegisters DEF Asks
      <4> QED BY <1>1, <1>5, <1>6, <3>2, <4>1, HoldsAsks
    <3>4. \A y \in Line' : y \in Line \/ (y.id > client.asked /\ ~(y.op = "write" /\ y.addr = r))
      BY <1>1, <2>3, <2>4, <3>1
    <3>5. client.asked <= client'.asked /\ client'.asked \in Nat
      BY <1>1, <2>4
    <3>6. applies = <<>> => applies' = <<>>
      BY <1>1
    <3> QED BY <1>1, <1>3, <3>1, <3>2, <3>3, <3>4, <3>5, <3>6, LastStays
  <2> QED BY <2>5, <2>6, TwoRegisters
<1> QED BY <1>3, <1>5, <1>9, <1>10, ContinueEffect

LEMMA LastStep ==
  ASSUME KindsInv, NumbersInv, LineInv, [Next]_vars, ~Clear, foreign' = {}, Len(configs) = 1,
         NEW r \in Addrs, LastWriteInv(r)
  PROVE  LastWriteInv(r)'
<1>1. /\ client \in Clients /\ client.asked \in Nat /\ forgotten \in Nat
      /\ lastWrite[r] \in Nat /\ Numbered(client, forgotten)
  BY ClientParts DEF KindsInv, NumbersInv
<1>2. ASSUME NEW addr \in ReadAddrs, monitorRead(addr) PROVE LastWriteInv(r)'
  <2>1. addr \in Addrs
    BY RequestsAssumption DEF Addrs
  <2>2. /\ client' = Ask(client, "read", addr, 0)
        /\ UNCHANGED <<inbox, answers, device, configs, applies, lastWrite, failed>>
    BY <1>2 DEF monitorRead
  <2>3. /\ client' \in Clients /\ Asks(client, client') /\ client'.asked = client.asked + 1
        /\ \A x \in ToSet(client'.queue) :
             x \in ToSet(client.queue) \/ (x.id = client.asked + 1 /\ x.op = "read")
    BY <1>1, <2>1, <2>2, ReadsOf
  <2>4. Holds(client, lastWrite[r]) => Holds(client', lastWrite[r])
    BY <1>1, <2>3, HoldsAsks
  <2>5. /\ client.asked <= client'.asked
        /\ \A x \in ToSet(client'.queue) :
             x \in ToSet(client.queue) \/ (x.id > client.asked /\ x.op = "read")
    BY <1>1, <2>3
  <2> QED BY <1>1, <2>2, <2>3, <2>4, <2>5, LastRead
<1>3. CASE SetPoll
  <2>1. /\ Less(client, client') /\ client'.queue = client.queue
        /\ client'.m.pending = client.m.pending
    BY <1>1, <1>3, SwitchEffect DEF SetPoll
  <2>2. client' \in Clients /\ client'.asked = client.asked
    BY <2>1 DEF Less
  <2>3. Holds(client, lastWrite[r]) => Holds(client', lastWrite[r])
    BY <2>1, <2>2 DEF Holds
  <2> QED BY <1>1, <1>3, <2>1, <2>2, <2>3, LastRead DEF SetPoll
<1>4. CASE ChangeLink \/ UNCHANGED vars
  <2>1. UNCHANGED <<client, inbox, answers, device, configs, applies, lastWrite, failed>>
    BY <1>4 DEF ChangeLink, vars
  <2> QED BY <1>1, <2>1, LastRead
<1> QED BY <1>2, <1>3, <1>4, LastTimer, LastReceive, LastRespond, LastApply, LastSend DEF Next

LEMMA ConfigStep ==
  KindsInv /\ NumbersInv /\ LineInv /\ ConfigInv /\ [Next]_vars => ConfigInv'
<1> SUFFICES ASSUME KindsInv, NumbersInv, LineInv, ConfigInv, [Next]_vars,
                    clears' = 0, foreign' = {}
             PROVE  Len(configs') = 1 /\ \A r \in Addrs : LastWriteInv(r)'
  BY DEF ConfigInv
<1>1. clears \in Nat
  BY DEF KindsInv
<1>2. ~Clear
  BY <1>1 DEF Clear
<1>3. clears = 0
  BY <1>2, SendFacts
     DEF Next, monitorRead, Apply, Respond, Receive, Timer, SetPoll, ChangeLink, vars
<1>4. foreign = {}
  <2>1. foreign \subseteq foreign'
    BY SendFacts
       DEF Next, monitorRead, Apply, Respond, Receive, Timer, SetPoll, Clear, ChangeLink, vars
  <2> QED BY <2>1
<1>5. Len(configs) = 1 /\ \A r \in Addrs : LastWriteInv(r)
  BY <1>3, <1>4 DEF ConfigInv
<1>6. Len(configs') = 1
  <2>1. CASE Apply
    BY <1>5, <2>1, ApplyFacts
  <2>2. CASE configs' = configs
    BY <1>5, <2>2
  <2> QED BY <1>2, <2>1, <2>2, SendFacts
          DEF Next, monitorRead, Respond, Receive, Timer, SetPoll, ChangeLink, vars
<1> QED BY <1>2, <1>5, <1>6, LastStep

LEMMA LineInit == Init => LineInv /\ ConfigInv
<1> SUFFICES ASSUME Init PROVE LineInv /\ ConfigInv
  OBVIOUS
<1>1. /\ client.queue = <<>> /\ client.asked = 0 /\ inbox = <<>> /\ answers = <<>>
      /\ applies = <<>> /\ lastWrite = [r \in Addrs |-> 0] /\ configs = <<device>>
  BY DEF Init
<1>2. ToSet(<<>>) = {}
  BY DEF ToSet
<1>3. Len(applies) = 0 /\ Len(client.queue) = 0 /\ Len(inbox) = 0 /\ Len(configs) = 1
  BY <1>1
<1>4. LineInv
  BY <1>1, <1>2, <1>3 DEF LineInv, Ascending
<1>5. Line = {} /\ \A r \in Addrs : WritesTo(r) = {}
  BY <1>1, <1>2 DEF Line, WritesTo
<1>6. ASSUME NEW r \in Addrs PROVE LastWriteInv(r)
  <2>1. lastWrite[r] = 0
    BY <1>1
  <2> QED BY <1>1, <1>2, <1>5, <2>1 DEF LastWriteInv
<1> QED BY <1>3, <1>4, <1>6 DEF ConfigInv

(* Settings that were applied arrive, or the user is told which did not:   *)
(* when nothing is under way any more, either the analyzer has the last    *)
(* settings, or the write of each that it lacks was reported, whatever was *)
(* lost and however the writes of two calls were mixed.                    *)
THEOREM SettingsArrive == Spec => []ConfigAppliedOrReported
<1> DEFINE Inv == KindsInv /\ RoomInv /\ NumbersInv
<1>1. Init => LineInv /\ ConfigInv
  BY LineInit
<1>2. Inv /\ LineInv /\ ConfigInv /\ [Next]_vars => (LineInv /\ ConfigInv)'
  BY LineStep, ConfigStep
<1>3. Inv /\ LineInv /\ ConfigInv => ConfigAppliedOrReported
  <2> SUFFICES ASSUME Inv, LineInv, ConfigInv, Settled, applies # <<>>, clears = 0, foreign = {},
                      NEW r \in Addrs
               PROVE  \/ device[r] = Last(configs)[r] \/ lastWrite[r] \in failed
                      \/ client.asked - lastWrite[r] >= MaxSeq
    BY DEF ConfigAppliedOrReported
  <2>1. LastWriteInv(r)
    BY DEF ConfigInv
  <2>2. ToSet(client.queue) = {}
    BY DEF Settled, ToSet
  <2>3. ~Owes(r)
    BY <2>2 DEF Owes, LineInv
  <2>4. lastWrite[r] # 0
    BY <2>1, <2>3 DEF LastWriteInv
  <2>5. Holds(client, lastWrite[r]) \/ lastWrite[r] \in failed \/ Reached(r)
    BY <2>1, <2>4 DEF LastWriteInv
  <2>6. Holds(client, lastWrite[r]) => client.asked - lastWrite[r] >= MaxSeq
    BY DEF Holds, Settled, pending
  <2> QED BY <2>3, <2>5, <2>6 DEF Reached
<1>4. Spec => []Inv
  BY Numbering
<1> QED BY <1>1, <1>2, <1>3, <1>4, PTL DEF Spec
=============================================================================
