----------------------------- MODULE WireProofs -----------------------------
(***************************************************************************)
(* The path of a command into the device, for every value of the           *)
(* constants.  The frame parser and the host's parse_frame on any bytes,   *)
(* with any number of byte values and any longest payload: only whole      *)
(* frames are taken, both hunts agree, an answer is final (LineInv: the    *)
(* line ends with what the parser holds, the frames it has taken stand     *)
(* on the line one after the other, and the first sync word decides its    *)
(* first entry), and noise costs at most two copies of a repeated request  *)
(* (ResyncInv: the parser is in a frame the noise began, hunts for a copy, *)
(* or is in step with one); undamaged traffic arrives complete at both     *)
(* ends (TrafficInv: where the frames stand).  Below it the serial line:   *)
(* every byte arrives though both clocks run at rates of their own         *)
(* (UartInv: how far the receiver is, told by when the line fell for the   *)
(* byte or the noise on it).  And the FIFO behind the UART receiver: its   *)
(* counters are exact and it implements the bounded queue of FifoSpec.     *)
(***************************************************************************)
EXTENDS FrameLine, UartLink, FifoSync, NaturalRecursion, SequenceTheorems

\* What the parser holds of a frame it has begun.
Prefix(p) ==
  IF p.st = "HUNT" THEN <<>>
  ELSE IF p.st = "SYNC1" THEN <<SYNC0>>
  ELSE <<SYNC0, SYNC1>> \o p.body

ParserStates == {"HUNT", "SYNC1", "RCMD", "RLEN", "RPAY", "RCRC"}

\* The length a body announces is the length it gets.
ParserOK(p) ==
  /\ p.st \in ParserStates /\ p.body \in Seq(Bytes)
  /\ p.st \in {"HUNT", "SYNC1", "RCMD"} => p.body = <<>>
  /\ p.st = "RLEN" => Len(p.body) = 1
  /\ p.st \in {"RPAY", "RCRC"} => Len(p.body) >= 2 /\ p.body[2] <= MaxPayload
  /\ p.st = "RPAY" => Len(p.body) < p.body[2] + 2
  /\ p.st = "RCRC" => Len(p.body) = p.body[2] + 2

\* What can be sent and what can be dispatched.
Sendable(f) == f.cmd \in Bytes /\ f.payload \in Seq(Bytes) /\ Len(f.payload) \in Bytes

Outcomes == {"", "BAD_CMD", "BAD_LEN", "BAD_CRC"}

Entries ==
  {d \in [whole : BOOLEAN, nak : Outcomes, cmd : Bytes, payload : Seq(Bytes)] : Sendable(d)}

\* bytes stand on the line l from position at + 1 on.
Carries(l, at, bytes) ==
  at + Len(bytes) <= Len(l) /\ \A i \in 1 .. Len(bytes) : l[at + i] = bytes[i]

\* The line ends with what the parser holds.
Trails(l, p) ==
  Len(Prefix(p)) <= Len(l) /\ Carries(l, Len(l) - Len(Prefix(p)), Prefix(p))

IsFrame(d) == d.whole

\* The frames taken in g stand on the line l one after the other,
\* the last one at most up to bound; e is where they end.
EndsAt(e, l, g, i) ==
  IF ~IsFrame(g[i]) THEN e[i] = e[i - 1]
  ELSE /\ e[i - 1] + Len(Wire(g[i])) <= e[i]
       /\ Carries(l, e[i] - Len(Wire(g[i])), Wire(g[i]))

Placed(l, g, bound) ==
  \E e : /\ \A i \in 0 .. Len(g) : e[i] \in Nat
         /\ e[0] = 0 /\ e[Len(g)] <= bound
         /\ \A i \in 1 .. Len(g) : EndsAt(e, l, g, i)

\* No sync word begins at one of the first k positions.
NoSyncBefore(l, k) == \A i \in 0 .. Len(l) - 2 : i < k => ~SyncAt(l, i)

\* The frame whose sync is at s gives entry d.
Verdict(l, s, d) ==
  LET end == s + 4 + l[s + 4]
  IN \/ /\ ~IsFrame(d) /\ d.nak = "BAD_LEN" /\ l[s + 4] > MaxPayload
     \/ /\ ~IsFrame(d) /\ d.nak = "BAD_CRC" /\ end + 1 <= Len(l)
        /\ Crc(SubSeq(l, s + 3, end)) # l[end + 1]
     \/ /\ IsFrame(d) /\ end + 1 <= Len(l)
        /\ Crc(SubSeq(l, s + 3, end)) = l[end + 1]
        /\ d.cmd = l[s + 3] /\ d.payload = SubSeq(l, s + 5, end)

\* The first sync word of the line decides the first entry.
FirstFrame(l, p, g) ==
  IF g # <<>>
  THEN \E s \in Nat : /\ s + 4 <= Len(l) /\ SyncAt(l, s) /\ NoSyncBefore(l, s)
                      /\ Verdict(l, s, g[1])
  ELSE /\ NoSyncBefore(l, IF p.st \in {"HUNT", "SYNC1"} THEN Len(l) ELSE Len(l) - Len(Prefix(p)))
       /\ p.st = "HUNT" /\ Len(l) > 0 => l[Len(l)] # SYNC0

\* The parser, on the line l from the start, is in state p and has dispatched g.
HasParsed(l, p, g) ==
  /\ l \in Seq(Bytes) /\ g \in Seq(Entries) /\ ParserOK(p)
  /\ Trails(l, p) /\ Placed(l, g, Len(l) - Len(Prefix(p))) /\ FirstFrame(l, p, g)

----------------------------------------------------------------------------

\* The sync words are two distinct bytes.
LEMMA SyncBytes == SYNC0 \in Bytes /\ SYNC1 \in Bytes /\ SYNC0 # SYNC1 /\ Bytes \subseteq Nat
BY LineAssumption DEF SYNC0, SYNC1, Bytes

\* The bytes of a prefix.
LEMMA PrefixShape ==
  ASSUME NEW p, ParserOK(p)
  PROVE  /\ Prefix(p) \in Seq(Bytes)
         /\ p.st = "HUNT" => Prefix(p) = <<>> /\ Len(Prefix(p)) = 0
         /\ p.st = "SYNC1" => Len(Prefix(p)) = 1 /\ Prefix(p)[1] = SYNC0
         /\ p.st \notin {"HUNT", "SYNC1"} =>
              /\ Len(Prefix(p)) = 2 + Len(p.body)
              /\ Prefix(p)[1] = SYNC0 /\ Prefix(p)[2] = SYNC1
              /\ \A i \in 1 .. Len(p.body) : Prefix(p)[2 + i] = p.body[i]
<1>1. p.body \in Seq(Bytes) /\ SYNC0 \in Bytes /\ SYNC1 \in Bytes
  BY SyncBytes DEF ParserOK
<1>2. CASE p.st = "HUNT"
  BY <1>2 DEF Prefix
<1>3. CASE p.st = "SYNC1"
  BY <1>1, <1>3 DEF Prefix
<1>4. CASE p.st \notin {"HUNT", "SYNC1"}
  <2> DEFINE head == <<SYNC0, SYNC1>>
  <2>1. head \in Seq(Bytes) /\ Len(head) = 2 /\ head[1] = SYNC0 /\ head[2] = SYNC1
    BY <1>1
  <2>2. Prefix(p) = head \o p.body
    BY <1>4 DEF Prefix
  <2> HIDE DEF head
  <2>3. /\ Prefix(p) \in Seq(Bytes) /\ Len(Prefix(p)) = 2 + Len(p.body)
        /\ \A i \in 1 .. 2 + Len(p.body) :
             Prefix(p)[i] = IF i <= 2 THEN head[i] ELSE p.body[i - 2]
    <3>1. /\ head \o p.body \in Seq(Bytes) /\ Len(head \o p.body) = Len(head) + Len(p.body)
          /\ \A i \in 1 .. Len(head) + Len(p.body) :
               (head \o p.body)[i] = IF i <= Len(head) THEN head[i] ELSE p.body[i - Len(head)]
      BY <1>1, <2>1, ConcatProperties
    <3> QED
      BY <2>1, <2>2, <3>1
  <2>4. Len(p.body) \in Nat
    BY <1>1
  <2>5. Prefix(p)[1] = SYNC0 /\ Prefix(p)[2] = SYNC1
    BY <2>1, <2>3, <2>4
  <2>6. ASSUME NEW i \in 1 .. Len(p.body) PROVE Prefix(p)[2 + i] = p.body[i]
    <3>1. 2 + i \in 1 .. 2 + Len(p.body) /\ ~(2 + i <= 2) /\ 2 + i - 2 = i
      BY <2>4
    <3> QED
      BY <2>3, <3>1
  <2> QED
    BY <1>4, <2>3, <2>5, <2>6
<1> QED
  BY <1>2, <1>3, <1>4

\* What a byte does to the parser.  Grows: the frame goes on; Starts: the byte
\* may be the first of a frame; Waits: it is not.
Grows(p, q, b) == q.dispatched = <<>> /\ Prefix(q) = Append(Prefix(p), b)
                  /\ q.st \notin {"HUNT", "SYNC1"} /\ p.st # "HUNT"
                  /\ (p.st = "SYNC1" => b = SYNC1)
Begins(p, q, b) == q.dispatched = <<>> /\ q.st = "SYNC1" /\ b = SYNC0
                   /\ p.st \in {"HUNT", "SYNC1"}
Waits(p, q, b) == /\ q.dispatched = <<>> /\ q.st = "HUNT" /\ b # SYNC0
                  /\ p.st \in {"HUNT", "SYNC1"} /\ (p.st = "SYNC1" => b # SYNC1)
Refuses(p, q, b) == /\ q.dispatched = Nak("BAD_LEN") /\ q.st = "HUNT"
                    /\ p.st = "RLEN" /\ b > MaxPayload
Ends(p, q, b) == /\ q.dispatched = IF b = Crc(p.body) THEN Take(p.body) ELSE Nak("BAD_CRC")
                 /\ q.st = "HUNT" /\ p.st = "RCRC"

\* Every byte is one of these five cases and keeps ParserOK.
LEMMA StepCases ==
  ASSUME NEW p, ParserOK(p), NEW b \in Bytes, NEW q, q = ParserStep(p, b)
  PROVE  /\ ParserOK(q)
         /\ \/ Grows(p, q, b) \/ Begins(p, q, b) \/ Waits(p, q, b)
            \/ Refuses(p, q, b) \/ Ends(p, q, b)
<1>1. p.body \in Seq(Bytes) /\ b \in Nat /\ Bytes \subseteq Nat /\ MaxPayload \in Nat /\ SYNC0 # SYNC1
  BY SyncBytes, LineAssumption DEF ParserOK
<1>2. /\ Idle.st = "HUNT" /\ Idle.body = <<>> /\ Idle.dispatched = <<>>
      /\ \A s, c : At(s, c).st = s /\ At(s, c).body = c /\ At(s, c).dispatched = <<>>
      /\ \A d : /\ [Idle EXCEPT !.dispatched = d].st = "HUNT"
                /\ [Idle EXCEPT !.dispatched = d].body = <<>>
                /\ [Idle EXCEPT !.dispatched = d].dispatched = d
  BY DEF Idle, At
<1>3. <<>> \in Seq(Bytes) /\ Len(<<>>) = 0
  OBVIOUS
<1>4. /\ Append(p.body, b) \in Seq(Bytes) /\ Len(Append(p.body, b)) = Len(p.body) + 1
      /\ Append(p.body, b)[Len(p.body) + 1] = b
      /\ \A i \in 1 .. Len(p.body) : Append(p.body, b)[i] = p.body[i]
      /\ Len(p.body) \in Nat
  BY <1>1
<1>6. <<SYNC0, SYNC1>> \o Append(p.body, b) = Append(<<SYNC0, SYNC1>> \o p.body, b)
  <2> DEFINE head == <<SYNC0, SYNC1>>
  <2>1. head \in Seq(Bytes) /\ <<b>> \in Seq(Bytes)
    BY SyncBytes
  <2> HIDE DEF head
  <2>2. head \o p.body \in Seq(Bytes)
    BY <1>1, <2>1, ConcatProperties
  <2>3. /\ Append(p.body, b) = p.body \o <<b>>
        /\ Append(head \o p.body, b) = (head \o p.body) \o <<b>>
    <3>1. \A s \in Seq(Bytes) : Append(s, b) = s \o <<b>>
      BY AppendIsConcat
    <3> QED
      BY <1>1, <2>2, <3>1
  <2>4. (head \o p.body) \o <<b>> = head \o (p.body \o <<b>>)
    <3>1. \A s, t, u \in Seq(Bytes) : (s \o t) \o u = s \o (t \o u)
      BY ConcatAssociative
    <3> QED
      BY <1>1, <2>1, <3>1, Zenon
  <2>5. head \o Append(p.body, b) = Append(head \o p.body, b)
    <3> DEFINE long == Append(p.body, b)
               all == Append(head \o p.body, b)
    <3>1. long = p.body \o <<b>> /\ all = (head \o p.body) \o <<b>>
      BY <2>3, Zenon
    <3> HIDE DEF long, all
    <3>2. head \o long = all
      BY <2>4, <3>1
    <3> QED
      BY <3>2 DEF long, all
  <2> QED
    BY <2>5 DEF head
<1>7. CASE p.st = "HUNT"
  <2>1. q = IF b = SYNC0 THEN At("SYNC1", <<>>) ELSE Idle
    BY <1>7 DEF ParserStep
  <2>2. CASE b = SYNC0
    <3>1. q.st = "SYNC1" /\ q.body = <<>> /\ q.dispatched = <<>>
      BY <1>2, <2>1, <2>2
    <3> QED
      BY <1>3, <1>7, <2>2, <3>1 DEF ParserOK, ParserStates, Begins
  <2>3. CASE b # SYNC0
    <3>1. q.st = "HUNT" /\ q.body = <<>> /\ q.dispatched = <<>>
      BY <1>2, <2>1, <2>3
    <3> QED
      BY <1>3, <1>7, <2>3, <3>1 DEF ParserOK, ParserStates, Waits
  <2> QED
    BY <2>2, <2>3
<1>8. CASE p.st = "SYNC1"
  <2>1. q = IF b = SYNC1 THEN At("RCMD", <<>>) ELSE IF b = SYNC0 THEN At("SYNC1", <<>>) ELSE Idle
    BY <1>8 DEF ParserStep, Sync
  <2>2. CASE b = SYNC1
    <3>1. q.st = "RCMD" /\ q.body = <<>> /\ q.dispatched = <<>>
      BY <1>2, <2>1, <2>2
    <3>2. Prefix(q) = <<SYNC0, SYNC1>> \o <<>> /\ Prefix(p) = <<SYNC0>>
      BY <1>8, <3>1 DEF Prefix
    <3>3. <<SYNC0, SYNC1>> \o <<>> = Append(<<SYNC0>>, SYNC1)
      OBVIOUS
    <3>4. Prefix(q) = Append(Prefix(p), b)
      BY <2>2, <3>2, <3>3
    <3> QED
      BY <1>3, <1>8, <2>2, <3>1, <3>4 DEF ParserOK, ParserStates, Grows
  <2>3. CASE b = SYNC0
    <3>1. q.st = "SYNC1" /\ q.body = <<>> /\ q.dispatched = <<>>
      BY <1>1, <1>2, <2>1, <2>3
    <3> QED
      BY <1>3, <1>8, <2>3, <3>1 DEF ParserOK, ParserStates, Begins
  <2>4. CASE b \notin {SYNC0, SYNC1}
    <3>1. q.st = "HUNT" /\ q.body = <<>> /\ q.dispatched = <<>>
      BY <1>2, <2>1, <2>4
    <3> QED
      BY <1>3, <1>8, <2>4, <3>1 DEF ParserOK, ParserStates, Waits
  <2> QED
    BY <2>2, <2>3, <2>4
<1>9. CASE p.st = "RCMD"
  <2>1. q = At("RLEN", <<b>>) /\ p.body = <<>> /\ <<b>> = Append(p.body, b)
    BY <1>9 DEF ParserStep, ParserOK
  <2>2. q.st = "RLEN" /\ q.body = Append(p.body, b) /\ q.dispatched = <<>>
    BY <1>2, <2>1
  <2>3. Len(q.body) = 1 /\ q.body \in Seq(Bytes)
    BY <1>4, <2>1, <2>2
  <2>4. Prefix(q) = Append(Prefix(p), b)
    BY <1>6, <1>9, <2>2 DEF Prefix
  <2> QED
    BY <1>9, <2>2, <2>3, <2>4 DEF ParserOK, ParserStates, Grows
<1>10. CASE p.st = "RLEN"
  <2>1. q = IF b > MaxPayload THEN [Idle EXCEPT !.dispatched = Nak("BAD_LEN")]
            ELSE At(IF b = 0 THEN "RCRC" ELSE "RPAY", Append(p.body, b))
    BY <1>10 DEF ParserStep, Length
  <2>2. CASE b > MaxPayload
    <3>1. q.st = "HUNT" /\ q.body = <<>> /\ q.dispatched = Nak("BAD_LEN")
      BY <1>2, <2>1, <2>2
    <3> QED
      BY <1>3, <1>10, <2>2, <3>1 DEF ParserOK, ParserStates, Refuses
  <2>3. CASE ~(b > MaxPayload)
    <3>1. /\ q.st = (IF b = 0 THEN "RCRC" ELSE "RPAY") /\ q.body = Append(p.body, b)
          /\ q.dispatched = <<>>
      <4> DEFINE r == IF b = 0 THEN "RCRC" ELSE "RPAY"
      <4>1. q = At(r, Append(p.body, b))
        BY <2>1, <2>3
      <4>2. \A c : q = At(r, c) => q.st = r /\ q.body = c /\ q.dispatched = <<>>
        BY <1>2
      <4> HIDE DEF r
      <4>3. q.st = r /\ q.body = Append(p.body, b) /\ q.dispatched = <<>>
        BY <4>1, <4>2, Zenon
      <4> QED
        BY <4>3 DEF r
    <3>2. Len(p.body) = 1 /\ q.body[2] = b /\ Len(q.body) = 2 /\ b <= MaxPayload
      BY <1>1, <1>4, <1>10, <2>3, <3>1 DEF ParserOK
    <3>3. Prefix(q) = Append(Prefix(p), b)
      BY <1>6, <1>10, <3>1 DEF Prefix
    <3>4. b = 0 \/ 2 < b + 2
      BY <1>1
    <3> QED
      BY <1>1, <1>4, <1>10, <3>1, <3>2, <3>3, <3>4 DEF ParserOK, ParserStates, Grows
  <2> QED
    BY <2>2, <2>3
<1>11. CASE p.st = "RPAY"
  <2> DEFINE next == Append(p.body, b)
  <2>1. q = At(IF Len(next) - 2 >= next[2] THEN "RCRC" ELSE "RPAY", next)
    BY <1>11 DEF ParserStep, Data
  <2>2. /\ q.st = (IF Len(next) - 2 >= next[2] THEN "RCRC" ELSE "RPAY") /\ q.body = next
        /\ q.dispatched = <<>>
    <3> DEFINE r == IF Len(next) - 2 >= next[2] THEN "RCRC" ELSE "RPAY"
    <3>1. q = At(r, next)
      BY <2>1
    <3> HIDE DEF r, next
    <3>2. q.st = r /\ q.body = next /\ q.dispatched = <<>>
      BY <1>2, <3>1
    <3> QED
      BY <3>2 DEF r
  <2>3. /\ Len(p.body) >= 2 /\ p.body[2] <= MaxPayload /\ Len(p.body) < p.body[2] + 2
        /\ 2 \in 1 .. Len(p.body) /\ p.body[2] \in Nat
    <3>1. Len(p.body) >= 2 /\ p.body[2] <= MaxPayload /\ Len(p.body) < p.body[2] + 2
      BY <1>11 DEF ParserOK
    <3>2. 2 \in 1 .. Len(p.body)
      BY <1>4, <3>1
    <3>3. p.body[2] \in Bytes
      BY <1>1, <3>2, ElementOfSeq
    <3> QED
      BY <1>1, <3>1, <3>2, <3>3
  <2>4. next[2] = p.body[2] /\ Len(next) = Len(p.body) + 1
    BY <1>4, <2>3
  <2>5. Prefix(q) = Append(Prefix(p), b)
    BY <1>6, <1>11, <2>2 DEF Prefix
  <2>6. Len(next) - 2 >= next[2] => Len(next) = next[2] + 2
    BY <1>4, <2>3, <2>4
  <2>7. ~(Len(next) - 2 >= next[2]) => Len(next) < next[2] + 2
    BY <1>4, <2>3, <2>4
  <2>8. Len(next) >= 2 /\ next[2] <= MaxPayload /\ next \in Seq(Bytes)
    BY <1>4, <2>3, <2>4
  <2> HIDE DEF next
  <2> QED
    BY <1>11, <2>2, <2>5, <2>6, <2>7, <2>8 DEF ParserOK, ParserStates, Grows
<1>12. CASE p.st = "RCRC"
  <2>1. q = [Idle EXCEPT !.dispatched = IF b = Crc(p.body) THEN Take(p.body) ELSE Nak("BAD_CRC")]
    BY <1>12 DEF ParserStep, Dispatch
  <2>2. /\ q.st = "HUNT" /\ q.body = <<>>
        /\ q.dispatched = IF b = Crc(p.body) THEN Take(p.body) ELSE Nak("BAD_CRC")
    BY <1>2, <2>1
  <2> QED
    BY <1>3, <1>12, <2>2 DEF ParserOK, ParserStates, Ends
<1> QED
  BY <1>7, <1>8, <1>9, <1>10, <1>11, <1>12 DEF ParserOK, ParserStates

----------------------------------------------------------------------------
(* The CRC of bytes is a byte.                                             *)

\* A set of numbers up to n that is not empty has a largest element.
LEMMA LargestElement ==
  ASSUME NEW n \in Nat, NEW s \in SUBSET (1 .. n), s # {}
  PROVE  Max(s) \in s /\ \A x \in s : Max(s) >= x
<1> DEFINE above == {n - x : x \in s}
<1>1. above \in SUBSET Nat /\ above # {}
  <2>1. \A x \in s : n - x \in Nat
    OBVIOUS
  <2> QED
    BY <2>1
<1>2. PICK a \in above : \A y \in above : a <= y
  BY <1>1, LeastNatural
<1>3. PICK x \in s : a = n - x
  BY <1>2
<1>4. \A y \in s : x >= y
  <2> SUFFICES ASSUME NEW y \in s PROVE x >= y
    OBVIOUS
  <2>1. n - x <= n - y /\ x \in Nat /\ y \in Nat
    BY <1>2, <1>3
  <2> QED
    BY <2>1
<1>5. \E z \in s : \A y \in s : z >= y
  BY <1>4
<1> QED
  BY <1>5, Zenon DEF Max

CrcStep(f, body, s) == IF s = {} THEN 1 ELSE (f[s \ {Max(s)}] + body[Max(s)]) % Base

\* crc holds the fold of every part of the body's positions.
CrcTable(crc, body) ==
  crc = [s \in SUBSET (1 .. Len(body)) |-> CrcStep(crc, body, s)]

\* The fold that defines the CRC has a table.
LEMMA CrcTableExists ==
  ASSUME NEW body \in Seq(Bytes)
  PROVE  \E crc : CrcTable(crc, body)
<1> DEFINE n == Len(body)
           D == SUBSET (1 .. n)
           V == [D -> Int]
           step == [p \in Nat \X V |-> [s \in D |-> CrcStep(p[2], body, s)]]
           start == [s \in D |-> 1]
<1>1. n \in Nat /\ \A i \in 1 .. n : body[i] \in Nat
  BY LenProperties, ElementOfSeq, SyncBytes
<1> HIDE DEF n
<1>2. ASSUME NEW s \in D, s # {}
      PROVE  /\ Max(s) \in 1 .. n /\ Max(s) \in s /\ s \ {Max(s)} \in D
             /\ \A x \in s : Max(s) >= x
  BY <1>1, <1>2, LargestElement
<1>3. ASSUME NEW f \in V, NEW s \in D PROVE CrcStep(f, body, s) \in Int
  <2>1. CASE s = {}
    BY <2>1 DEF CrcStep
  <2>2. CASE s # {}
    <3>1. f[s \ {Max(s)}] \in Int /\ body[Max(s)] \in Int
      BY <1>1, <1>2, <2>2
    <3>2. CrcStep(f, body, s) = (f[s \ {Max(s)}] + body[Max(s)]) % Base
      BY <2>2 DEF CrcStep
    <3>3. \A x, y \in Int : (x + y) % Base \in Int
      <4>1. Base \in Nat \ {0}
        BY LineAssumption
      <4> QED
        BY <4>1
    <3>4. (f[s \ {Max(s)}] + body[Max(s)]) % Base \in Int
      BY <3>1, <3>3
    <3> QED
      BY <3>2, <3>4
  <2> QED
    BY <2>1, <2>2
<1>4. start \in V
  OBVIOUS
<1>5. step \in [Nat \X V -> V]
  <2> SUFFICES ASSUME NEW k \in Nat, NEW f \in V
               PROVE  [s \in D |-> CrcStep(f, body, s)] \in V
    OBVIOUS
  <2> QED
    BY <1>3
<1>6. \A k \in Nat, f \in V, s \in D : step[<<k, f>>][s] = CrcStep(f, body, s)
  OBVIOUS
<1> HIDE DEF start, step, V, D
<1>7. PICK h : Solution(h, V, start, step)
  BY <1>4, <1>5, Recursion
<1>8. h \in [Nat -> V] /\ h[0] = start /\ \A k \in Nat : h[k + 1] = step[<<k + 1, h[k]>>]
  BY <1>7 DEF Solution
<1>9. ASSUME NEW k \in Nat, NEW s \in D PROVE h[k + 1][s] = CrcStep(h[k], body, s)
  <2>1. h[k] \in V /\ k + 1 \in Nat
    BY <1>8
  <2>2. h[k + 1] = step[<<k + 1, h[k]>>]
    BY <1>8, Zenon
  <2>3. step[<<k + 1, h[k]>>][s] = CrcStep(h[k], body, s)
    BY <1>6, <2>1, Zenon
  <2> QED
    BY <2>2, <2>3, Zenon
\* A set of numbers up to k has its value after k rounds.
<1> DEFINE Fixed == {k \in Nat : \A s \in D : s \subseteq 1 .. k => h[k][s] = h[k + 1][s]}
<1>10. 0 \in Fixed
  <2> SUFFICES ASSUME NEW s \in D, s \subseteq 1 .. 0 PROVE h[0][s] = h[0 + 1][s]
    OBVIOUS
  <2>1. s = {}
    OBVIOUS
  <2>2. h[0 + 1][s] = 1
    BY <1>9, <2>1 DEF CrcStep
  <2>3. h[0][s] = 1
    BY <1>8 DEF start
  <2> QED
    BY <2>2, <2>3
<1>11. ASSUME NEW k \in Nat, k \in Fixed PROVE k + 1 \in Fixed
  <2> SUFFICES ASSUME NEW s \in D, s \subseteq 1 .. k + 1
               PROVE  h[k + 1][s] = h[k + 1 + 1][s]
    OBVIOUS
  <2>1. h[k + 1][s] = CrcStep(h[k], body, s) /\ h[k + 1 + 1][s] = CrcStep(h[k + 1], body, s)
    BY <1>9
  <2>2. CASE s = {}
    BY <2>1, <2>2 DEF CrcStep
  <2>3. CASE s # {}
    <3> DEFINE t == s \ {Max(s)}
    <3>1. t \in D /\ \A x \in t : x < Max(s)
      <4>1. Max(s) \in 1 .. n /\ t \in D /\ \A x \in s : Max(s) >= x /\ x \in Nat
        BY <1>2, <2>3 DEF D
      <4> QED
        BY <4>1
    <3>2. t \subseteq 1 .. k
      <4>1. Max(s) \in 1 .. k + 1 /\ t \subseteq 1 .. k + 1
        BY <1>2, <2>3
      <4> SUFFICES ASSUME NEW x \in t PROVE x \in 1 .. k
        OBVIOUS
      <4>2. x \in 1 .. k + 1 /\ x < Max(s)
        BY <3>1, <4>1
      <4> QED
        BY <4>1, <4>2
    <3>3. h[k][t] = h[k + 1][t]
      BY <1>11, <3>1, <3>2
    <3> QED
      BY <2>1, <2>3, <3>3 DEF CrcStep
  <2> QED
    BY <2>2, <2>3
<1>12. n \in Fixed
  BY <1>1, <1>10, <1>11, SetInduction
<1>13. ASSUME NEW s \in D PROVE h[n + 1][s] = CrcStep(h[n + 1], body, s)
  <2>1. h[n + 1][s] = CrcStep(h[n], body, s)
    BY <1>1, <1>9
  <2>2. CASE s = {}
    BY <2>1, <2>2 DEF CrcStep
  <2>3. CASE s # {}
    <3> DEFINE t == s \ {Max(s)}
    <3>1. t \in D /\ t \subseteq 1 .. n
      BY <1>2, <2>3 DEF D
    <3>2. h[n][t] = h[n + 1][t]
      BY <1>12, <3>1
    <3> QED
      BY <2>1, <2>3, <3>2 DEF CrcStep
  <2> QED
    BY <2>2, <2>3
<1>14. h[n + 1] = [s \in D |-> CrcStep(h[n + 1], body, s)]
  <2>1. h[n + 1] \in [D -> Int]
    BY <1>1, <1>8 DEF V
  <2> QED
    BY <1>13, <2>1
<1> QED
  BY <1>14 DEF CrcTable, D, n

\* The CRC of a body is a byte.
LEMMA CrcIsByte ==
  ASSUME NEW body \in Seq(Bytes)
  PROVE  Crc(body) \in Bytes
<1> DEFINE crc == CHOOSE f : f = [s \in SUBSET (DOMAIN body) |->
                                   IF s = {} THEN 1
                                   ELSE (f[s \ {Max(s)}] + body[Max(s)]) % Base]
<1>1. Crc(body) = crc[DOMAIN body]
  BY DEF Crc, FoldLeft, MapThenFoldSet
<1>2. DOMAIN body = 1 .. Len(body) /\ Len(body) \in Nat
  BY LenProperties
<1>3. \E f : f = [s \in SUBSET (DOMAIN body) |->
                  IF s = {} THEN 1 ELSE (f[s \ {Max(s)}] + body[Max(s)]) % Base]
  BY <1>2, CrcTableExists DEF CrcTable, CrcStep
<1>4. crc = [s \in SUBSET (DOMAIN body) |->
               IF s = {} THEN 1 ELSE (crc[s \ {Max(s)}] + body[Max(s)]) % Base]
  BY <1>3, Zenon
<1> HIDE DEF crc
<1>5. CrcTable(crc, body)
  BY <1>2, <1>4 DEF CrcTable, CrcStep
<1> DEFINE n == Len(body)
           Typed == {k \in Nat : \A s \in SUBSET (1 .. n) : s \subseteq 1 .. k => crc[s] \in Bytes}
<1>6. \A i \in 1 .. n : body[i] \in Nat
  BY ElementOfSeq, SyncBytes
<1>7. 1 \in Bytes /\ \A x, y \in Nat : (x + y) % Base \in Bytes
  BY LineAssumption DEF Bytes
<1> HIDE DEF n
<1>8. \A s \in SUBSET (1 .. n) : crc[s] = CrcStep(crc, body, s)
  BY <1>5 DEF CrcTable, n
<1>9. 0 \in Typed
  <2> SUFFICES ASSUME NEW s \in SUBSET (1 .. n), s \subseteq 1 .. 0 PROVE crc[s] \in Bytes
    OBVIOUS
  <2>1. s = {}
    OBVIOUS
  <2> QED
    BY <1>7, <1>8, <2>1 DEF CrcStep
<1>10. ASSUME NEW k \in Nat, k \in Typed PROVE k + 1 \in Typed
  <2> SUFFICES ASSUME NEW s \in SUBSET (1 .. n), s \subseteq 1 .. k + 1 PROVE crc[s] \in Bytes
    BY k + 1 \in Nat, Zenon
  <2>1. CASE s = {}
    BY <1>7, <1>8, <2>1 DEF CrcStep
  <2>2. CASE s # {}
    <3> DEFINE t == s \ {Max(s)}
    <3>1. Max(s) \in s /\ \A x \in s : Max(s) >= x
      BY <1>2, <2>2, LargestElement DEF n
    <3>2. t \in SUBSET (1 .. n) /\ t \subseteq 1 .. k
      <4> SUFFICES ASSUME NEW x \in t PROVE x \in 1 .. n /\ x \in 1 .. k
        BY Zenon
      <4>1. x \in 1 .. k + 1 /\ Max(s) \in 1 .. k + 1 /\ Max(s) >= x /\ x # Max(s) /\ x \in 1 .. n
        BY <3>1
      <4> QED
        BY <4>1
    <3>3. crc[t] \in Nat /\ body[Max(s)] \in Nat
      <4>1. crc[t] \in Bytes
        BY <1>10, <3>2
      <4> QED
        BY <1>6, <3>1, <4>1, SyncBytes
    <3>4. crc[s] = (crc[t] + body[Max(s)]) % Base
      BY <1>8, <2>2 DEF CrcStep
    <3> QED
      BY <1>7, <3>3, <3>4
  <2> QED
    BY <2>1, <2>2
<1>11. n \in Typed
  BY <1>2, <1>9, <1>10, SetInduction DEF n
<1>12. Crc(body) = crc[1 .. n]
  BY <1>1, <1>2 DEF n
<1> QED
  BY <1>11, <1>12

\* One more byte at the end of a sequence.
LEMMA Added ==
  ASSUME NEW S, NEW s \in Seq(S), NEW x \in S
  PROVE  /\ Append(s, x) \in Seq(S) /\ Len(Append(s, x)) = Len(s) + 1 /\ Len(s) \in Nat
         /\ Append(s, x)[Len(s) + 1] = x
         /\ \A i \in 1 .. Len(s) : Append(s, x)[i] = s[i]
BY AppendProperties, LenProperties

\* What a line carries it carries when it is longer.
LEMMA CarriesOn ==
  ASSUME NEW l \in Seq(Bytes), NEW b \in Bytes, NEW at \in Nat,
         NEW w \in Seq(Bytes), Carries(l, at, w)
  PROVE  Carries(Append(l, b), at, w)
<1>1. Len(w) \in Nat /\ Len(l) \in Nat /\ Len(Append(l, b)) = Len(l) + 1
  BY Added, LenProperties
<1>2. at + Len(w) <= Len(l)
  BY DEF Carries
<1>3. ASSUME NEW i \in 1 .. Len(w) PROVE Append(l, b)[at + i] = w[i]
  <2>1. at + i \in 1 .. Len(l)
    BY <1>1, <1>2
  <2>2. Append(l, b)[at + i] = l[at + i]
    BY <2>1, Added
  <2> QED
    BY <2>2 DEF Carries
<1> QED
  BY <1>1, <1>2, <1>3 DEF Carries

\* The line ends with what the parser holds, after the byte as before.
LEMMA TrailsOn ==
  ASSUME NEW l \in Seq(Bytes), NEW p, ParserOK(p), Trails(l, p), NEW b \in Bytes,
         NEW q, q = ParserStep(p, b)
  PROVE  /\ Trails(Append(l, b), q)
         /\ Len(l) - Len(Prefix(p)) \in Nat
         /\ Len(Append(l, b)) - Len(Prefix(q)) \in Nat
         /\ Len(l) - Len(Prefix(p)) <= Len(Append(l, b)) - Len(Prefix(q))
<1> DEFINE m == Append(l, b)
<1>1. ParserOK(q)
  BY StepCases
<1>2. /\ Prefix(p) \in Seq(Bytes) /\ Len(Prefix(p)) \in Nat
      /\ Prefix(q) \in Seq(Bytes) /\ Len(Prefix(q)) \in Nat
  BY <1>1, PrefixShape, LenProperties
<1>3. /\ m \in Seq(Bytes) /\ Len(m) = Len(l) + 1 /\ Len(l) \in Nat
      /\ m[Len(l) + 1] = b /\ \A i \in 1 .. Len(l) : m[i] = l[i]
  BY Added
<1> HIDE DEF m
<1>4. Len(Prefix(p)) <= Len(l) /\ Len(l) - Len(Prefix(p)) \in Nat
  BY <1>2, <1>3 DEF Trails
<1>5. CASE Grows(p, q, b)
  <2>1. Prefix(q) = Append(Prefix(p), b)
    BY <1>5 DEF Grows
  <2>2. /\ Len(Prefix(q)) = Len(Prefix(p)) + 1 /\ Prefix(q)[Len(Prefix(p)) + 1] = b
        /\ \A i \in 1 .. Len(Prefix(p)) : Prefix(q)[i] = Prefix(p)[i]
    BY <1>2, <2>1, Added
  <2>3. Len(m) - Len(Prefix(q)) = Len(l) - Len(Prefix(p)) /\ Len(Prefix(q)) <= Len(m)
    BY <1>2, <1>3, <1>4, <2>2
  <2>4. ASSUME NEW i \in 1 .. Len(Prefix(q))
        PROVE  m[Len(m) - Len(Prefix(q)) + i] = Prefix(q)[i]
    <3>1. CASE i = Len(Prefix(p)) + 1
      <4>1. Len(m) - Len(Prefix(q)) + i = Len(l) + 1
        <5>1. \A x, y \in Nat : x - y + (y + 1) = x + 1
          OBVIOUS
        <5>2. Len(l) - Len(Prefix(p)) + (Len(Prefix(p)) + 1) = Len(l) + 1
          BY <1>2, <1>3, <5>1, Zenon
        <5> QED
          BY <2>3, <3>1, <5>2, Zenon
      <4> QED
        BY <1>3, <2>2, <3>1, <4>1
    <3>2. CASE i # Len(Prefix(p)) + 1
      <4>1. i \in 1 .. Len(Prefix(p)) /\ Len(m) - Len(Prefix(q)) + i \in 1 .. Len(l)
        BY <1>2, <1>3, <1>4, <2>2, <2>3, <3>2
      <4>2. l[Len(l) - Len(Prefix(p)) + i] = Prefix(p)[i]
        BY <4>1 DEF Trails, Carries
      <4> QED
        BY <1>3, <2>2, <2>3, <4>1, <4>2
    <3> QED
      BY <3>1, <3>2
  <2>5. Len(m) - Len(Prefix(q)) + Len(Prefix(q)) <= Len(m)
    BY <1>2, <1>3
  <2>6. Trails(m, q)
    BY <2>3, <2>4, <2>5 DEF Trails, Carries
  <2> QED
    BY <1>4, <2>3, <2>6 DEF m
<1>6. CASE Begins(p, q, b)
  <2>1. Len(Prefix(q)) = 1 /\ Prefix(q)[1] = b
    BY <1>1, <1>6, PrefixShape DEF Begins
  <2>2. Len(Prefix(p)) \in 0 .. 1
    BY <1>6, PrefixShape DEF Begins
  <2>3. Len(m) - Len(Prefix(q)) = Len(l)
    BY <1>3, <2>1
  <2>4. ASSUME NEW i \in 1 .. Len(Prefix(q))
        PROVE  m[Len(m) - Len(Prefix(q)) + i] = Prefix(q)[i]
    BY <1>3, <2>1, <2>3
  <2>5. Trails(m, q)
    BY <1>3, <2>1, <2>3, <2>4 DEF Trails, Carries
  <2> QED
    BY <1>3, <1>4, <2>2, <2>3, <2>5 DEF m
<1>7. CASE q.st = "HUNT"
  <2>1. Len(Prefix(q)) = 0
    BY <1>1, <1>7, PrefixShape
  <2>2. Trails(m, q)
    BY <1>3, <2>1 DEF Trails, Carries
  <2> QED
    BY <1>2, <1>3, <1>4, <2>1, <2>2 DEF m
<1> QED
  BY <1>5, <1>6, <1>7, StepCases DEF Waits, Refuses, Ends

\* What a concatenation holds.
LEMMA Joined ==
  \A s, t \in Seq(Bytes) :
    /\ s \o t \in Seq(Bytes) /\ Len(s \o t) = Len(s) + Len(t)
    /\ \A i \in 1 .. Len(s) + Len(t) :
         (s \o t)[i] = IF i <= Len(s) THEN s[i] ELSE t[i - Len(s)]
BY ConcatProperties

\* Concatenation of bytes is associative.
LEMMA Associative == \A s, t, u \in Seq(Bytes) : (s \o t) \o u = s \o (t \o u)
BY ConcatAssociative

\* A body is its command, the length of its payload and its payload.
LEMMA BodyParts ==
  ASSUME NEW body \in Seq(Bytes), Len(body) >= 2, Len(body) = body[2] + 2,
         NEW rest, rest = SubSeq(body, 3, Len(body))
  PROVE  /\ body[1] \in Bytes /\ rest \in Seq(Bytes) /\ Len(rest) \in Bytes
         /\ <<body[1], Len(rest)>> \o rest = body
<1>1. Len(body) \in Nat
  BY LenProperties
<1>2. body[1] \in Bytes /\ body[2] \in Bytes /\ body[2] \in Nat
  <2>1. 1 \in 1 .. Len(body) /\ 2 \in 1 .. Len(body)
    BY <1>1
  <2>2. body[1] \in Bytes /\ body[2] \in Bytes
    BY <2>1, ElementOfSeq
  <2> QED
    BY <2>2, SyncBytes
<1>3. rest \in Seq(Bytes) /\ Len(rest) = Len(body) - 2
      /\ \A i \in 1 .. Len(body) - 2 : rest[i] = body[i + 2]
  <2>1. \A i \in 3 .. Len(body) : body[i] \in Bytes
    BY <1>1, ElementOfSeq
  <2>2. /\ rest \in Seq(Bytes)
        /\ Len(rest) = IF 3 <= Len(body) THEN Len(body) - 3 + 1 ELSE 0
        /\ \A i \in 1 .. Len(body) - 3 + 1 : rest[i] = body[3 + i - 1]
    BY <1>1, <2>1, SubSeqProperties
  <2>3. ASSUME NEW i \in 1 .. Len(body) - 2 PROVE rest[i] = body[i + 2]
    <3>1. i \in 1 .. Len(body) - 3 + 1 /\ 3 + i - 1 = i + 2
      BY <1>1
    <3> QED
      BY <2>2, <3>1
  <2> QED
    BY <1>1, <2>2, <2>3
<1>4. <<body[1], Len(rest)>> \o rest = body
  <2> DEFINE head == <<body[1], Len(rest)>>
  <2>1. Len(rest) = body[2]
    BY <1>1, <1>2, <1>3
  <2>2. head \in Seq(Bytes) /\ Len(head) = 2 /\ head[1] = body[1] /\ head[2] = body[2]
    BY <1>2, <2>1
  <2> HIDE DEF head
  <2>3. /\ head \o rest \in Seq(Bytes) /\ Len(head \o rest) = Len(head) + Len(rest)
        /\ \A i \in 1 .. Len(head) + Len(rest) :
             (head \o rest)[i] = IF i <= Len(head) THEN head[i] ELSE rest[i - Len(head)]
    BY <1>3, <2>2, Joined, Zenon
  <2>4. Len(head \o rest) = Len(body)
    <3>1. \A x \in Nat : 2 + (x - 2) = x
      OBVIOUS
    <3>2. Len(head \o rest) = 2 + (Len(body) - 2)
      BY <1>3, <2>2, <2>3, Zenon
    <3> QED
      BY <1>1, <3>1, <3>2, Zenon
  <2>5. ASSUME NEW i \in 1 .. Len(head \o rest) PROVE (head \o rest)[i] = body[i]
    <3>1. CASE i <= 2
      <4>1. i \in {1, 2}
        BY <1>1, <2>4, <3>1
      <4>2. i \in 1 .. Len(head) + Len(rest) /\ i <= Len(head)
        BY <2>2, <2>3, <3>1, Zenon
      <4>3. (head \o rest)[i] = head[i]
        BY <2>3, <4>2, Zenon
      <4> QED
        BY <2>2, <4>1, <4>3
    <3>2. CASE ~(i <= 2)
      <4>1. i - 2 \in 1 .. Len(body) - 2 /\ i - 2 + 2 = i
        BY <1>1, <2>4, <3>2
      <4>2. (head \o rest)[i] = rest[i - 2]
        BY <1>1, <1>3, <2>2, <2>3, <3>2
      <4> QED
        BY <1>3, <4>1, <4>2
    <3> QED
      BY <3>1, <3>2
  <2>6. head \o rest = body
    BY <1>1, <2>3, <2>4, <2>5, SeqEqual
  <2> QED
    BY <2>6 DEF head
<1>5. Len(rest) \in Bytes
  <2>1. Len(rest) = body[2]
    BY <1>1, <1>2, <1>3
  <2> QED
    BY <1>2, <2>1
<1> QED
  BY <1>2, <1>3, <1>4, <1>5

\* The last frame: what the parser held and the byte that made it whole.
LEMMA WholeFrame ==
  ASSUME NEW p, ParserOK(p), p.st = "RCRC", NEW b \in Bytes, b = Crc(p.body)
  PROVE  /\ Take(p.body) = <<Take(p.body)[1]>> /\ Take(p.body)[1] \in Entries
         /\ IsFrame(Take(p.body)[1])
         /\ Take(p.body)[1].cmd = p.body[1]
         /\ Take(p.body)[1].payload = SubSeq(p.body, 3, Len(p.body))
         /\ Wire(Take(p.body)[1]) = Append(Prefix(p), b)
<1> DEFINE body == p.body
           rest == SubSeq(body, 3, Len(body))
<1> HIDE DEF body, rest
<1>1. body \in Seq(Bytes) /\ Len(body) >= 2 /\ Len(body) = body[2] + 2
  BY DEF ParserOK, body
<1>2. /\ body[1] \in Bytes /\ rest \in Seq(Bytes) /\ Len(rest) \in Bytes
      /\ <<body[1], Len(rest)>> \o rest = body
  BY <1>1, BodyParts DEF rest
<1>3. /\ IsFrame(Take(p.body)[1]) /\ Take(p.body)[1].cmd = body[1]
      /\ Take(p.body)[1].payload = rest /\ Take(p.body) = <<Take(p.body)[1]>>
  BY Zenon DEF Take, rest, body, IsFrame
<1>6. Take(p.body)[1] \in Entries
  <2> DEFINE why == Refusal(body[1], rest)
  <2>1. Take(p.body)[1] = [whole |-> TRUE, nak |-> why, cmd |-> body[1], payload |-> rest]
    BY DEF Take, rest, body
  <2>2. why \in Outcomes /\ body[1] \in Bytes /\ rest \in Seq(Bytes)
    BY <1>2 DEF Outcomes, Refusal
  <2> DEFINE d == [whole |-> TRUE, nak |-> why, cmd |-> body[1], payload |-> rest]
  <2> HIDE DEF why
  <2>3. d \in [whole : BOOLEAN, nak : Outcomes, cmd : Bytes, payload : Seq(Bytes)]
    BY <2>2, Zenon
  <2>4. Sendable(d)
    BY <1>2 DEF Sendable
  <2>5. d \in Entries
    BY <2>3, <2>4, Zenon DEF Entries
  <2> QED
    BY <2>1, <2>5, Zenon
<1>7. Wire(Take(p.body)[1]) = <<SYNC0, SYNC1>> \o body \o <<Crc(body)>>
  <2>1. Wire(Take(p.body)[1]) = BuildFrame(body[1], rest)
    BY <1>3 DEF Wire
  <2>2. BuildFrame(body[1], rest)
          = <<SYNC0, SYNC1>> \o (<<body[1], Len(rest)>> \o rest)
              \o <<Crc(<<body[1], Len(rest)>> \o rest)>>
    BY DEF BuildFrame
  <2> QED
    BY <1>2, <2>1, <2>2
<1>8. Prefix(p) = <<SYNC0, SYNC1>> \o body /\ Prefix(p) \in Seq(Bytes)
  BY PrefixShape DEF Prefix, body
<1>9. Append(Prefix(p), b) = Prefix(p) \o <<b>>
  BY <1>8, AppendIsConcat
<1>10. Wire(Take(p.body)[1]) = Append(Prefix(p), b)
  BY <1>7, <1>8, <1>9, b = Crc(body), Zenon DEF body
<1> QED
  BY <1>3, <1>6, <1>10 DEF rest, body

\* A NAK for a length or a CRC is one entry of the log, and no frame.
LEMMA NakEntry ==
  ASSUME NEW why \in {"BAD_CRC", "BAD_LEN"}
  PROVE  /\ Nak(why) = <<Nak(why)[1]>> /\ Nak(why)[1] \in Entries /\ Nak(why)[1].nak = why
         /\ ~IsFrame(Nak(why)[1])
<1>1. Nak(why) = <<[whole |-> FALSE, nak |-> why, cmd |-> 0, payload |-> <<>>]>>
  BY DEF Nak
<1>2. 0 \in Bytes /\ <<>> \in Seq(Bytes)
  BY LineAssumption DEF Bytes
<1> DEFINE d == [whole |-> FALSE, nak |-> why, cmd |-> 0, payload |-> <<>>]
<1>3. why \in Outcomes
  BY Zenon DEF Outcomes
<1>4. d \in [whole : BOOLEAN, nak : Outcomes, cmd : Bytes, payload : Seq(Bytes)]
  BY <1>2, <1>3, Zenon
<1>5. Sendable(d)
  BY <1>2 DEF Sendable
<1>6. d \in Entries
  BY <1>4, <1>5, Zenon DEF Entries
<1>7. Nak(why)[1] = d /\ d.nak = why /\ d.whole = FALSE
  BY <1>1
<1>8. ~IsFrame(Nak(why)[1])
  BY <1>3, <1>7, Zenon DEF IsFrame
<1> QED
  BY <1>1, <1>6, <1>7, <1>8

\* A frame on the wire is bytes.
LEMMA WireBytes ==
  ASSUME NEW f, Sendable(f)
  PROVE  Wire(f) \in Seq(Bytes) /\ Len(Wire(f)) = 5 + Len(f.payload) /\ Len(f.payload) \in Nat
<1> DEFINE head == <<SYNC0, SYNC1>>
           start == <<f.cmd, Len(f.payload)>>
           body == start \o f.payload
           end == <<Crc(body)>>
<1>1. head \in Seq(Bytes) /\ Len(head) = 2
  BY SyncBytes
<1>2. start \in Seq(Bytes) /\ Len(start) = 2 /\ f.payload \in Seq(Bytes) /\ Len(f.payload) \in Nat
  BY LenProperties DEF Sendable
<1>3. Wire(f) = (head \o body) \o end
  BY DEF Wire, BuildFrame
<1> HIDE DEF head, start
<1>4. body \in Seq(Bytes) /\ Len(body) = 2 + Len(f.payload)
  <2>1. body \in Seq(Bytes) /\ Len(body) = Len(start) + Len(f.payload)
    BY <1>2, Joined, Zenon
  <2> QED
    BY <1>2, <2>1, Zenon
<1> HIDE DEF body
<1>5. end \in Seq(Bytes) /\ Len(end) = 1
  BY <1>4, CrcIsByte
<1> HIDE DEF end
<1>6. head \o body \in Seq(Bytes) /\ Len(head \o body) = 4 + Len(f.payload)
  <2>1. head \o body \in Seq(Bytes) /\ Len(head \o body) = Len(head) + Len(body)
    BY <1>1, <1>4, Joined, Zenon
  <2> QED
    BY <1>1, <1>2, <1>4, <2>1
<1>7. (head \o body) \o end \in Seq(Bytes) /\ Len((head \o body) \o end) = 5 + Len(f.payload)
  <2>1. /\ (head \o body) \o end \in Seq(Bytes)
        /\ Len((head \o body) \o end) = Len(head \o body) + Len(end)
    BY <1>5, <1>6, Joined, Zenon
  <2> QED
    BY <1>2, <1>5, <1>6, <2>1
<1> QED
  BY <1>2, <1>3, <1>7

\* The frame of an entry is a row of bytes.
LEMMA EntryBytes ==
  ASSUME NEW d \in Entries
  PROVE  Wire(d) \in Seq(Bytes) /\ Len(Wire(d)) \in Nat
<1>1. Sendable(d)
  BY DEF Entries
<1> QED
  BY <1>1, WireBytes

\* The frames stay where they are when the line grows, and a NAK adds none.
LEMMA PlacedOn ==
  ASSUME NEW l \in Seq(Bytes), NEW b \in Bytes, NEW g \in Seq(Entries),
         NEW k \in Nat, NEW m \in Nat, k <= m, Placed(l, g, k)
  PROVE  Placed(Append(l, b), g, m)
<1>1. PICK e : /\ \A i \in 0 .. Len(g) : e[i] \in Nat
               /\ e[0] = 0 /\ e[Len(g)] <= k
               /\ \A i \in 1 .. Len(g) : EndsAt(e, l, g, i)
  BY DEF Placed
<1>2. Len(g) \in Nat
  BY LenProperties
<1>3. ASSUME NEW i \in 1 .. Len(g) PROVE EndsAt(e, Append(l, b), g, i)
  <2>1. EndsAt(e, l, g, i) /\ e[i] \in Nat /\ e[i - 1] \in Nat
    <3>1. i \in 0 .. Len(g) /\ i - 1 \in 0 .. Len(g)
      BY <1>2
    <3> QED
      BY <1>1, <3>1
  <2>2. CASE ~IsFrame(g[i])
    BY <2>1, <2>2 DEF EndsAt
  <2>3. CASE IsFrame(g[i])
    <3> DEFINE w == Wire(g[i])
    <3>1. w \in Seq(Bytes)
      BY ElementOfSeq, EntryBytes
    <3>2. e[i - 1] + Len(w) <= e[i] /\ Carries(l, e[i] - Len(w), w)
      BY <2>1, <2>3 DEF EndsAt
    <3> HIDE DEF w
    <3>3. Len(w) \in Nat
      BY <3>1, LenProperties
    <3>4. e[i] - Len(w) \in Nat
      BY <2>1, <3>2, <3>3
    <3>5. Carries(Append(l, b), e[i] - Len(w), w)
      BY <3>1, <3>2, <3>4, CarriesOn
    <3> QED
      BY <2>3, <3>2, <3>5 DEF EndsAt, w
  <2> QED
    BY <2>2, <2>3
<1>4. e[Len(g)] <= m
  BY <1>1, <1>2
<1> QED
  BY <1>1, <1>3, <1>4 DEF Placed

\* The next entry: a NAK without a frame, or a frame that begins after the others.
Follows(l, d, k, m) ==
  IF ~IsFrame(d) THEN k <= m
  ELSE k + Len(Wire(d)) <= m /\ Carries(l, m - Len(Wire(d)), Wire(d))

\* A frame that follows the last one is placed after it.
LEMMA PlacedNext ==
  ASSUME NEW l \in Seq(Bytes), NEW g \in Seq(Entries), NEW d \in Entries,
         NEW k \in Nat, NEW m \in Nat, Placed(l, g, k),
         Follows(l, d, k, m)
  PROVE  Placed(l, Append(g, d), m)
<1>1. PICK e : /\ \A i \in 0 .. Len(g) : e[i] \in Nat
               /\ e[0] = 0 /\ e[Len(g)] <= k
               /\ \A i \in 1 .. Len(g) : EndsAt(e, l, g, i)
  BY DEF Placed
<1> DEFINE h == Append(g, d)
           last == IF ~IsFrame(d) THEN e[Len(g)] ELSE m
           f == [i \in 0 .. Len(h) |-> IF i = Len(h) THEN last ELSE e[i]]
<1>2. /\ Len(h) = Len(g) + 1 /\ Len(g) \in Nat /\ h[Len(g) + 1] = d
      /\ \A i \in 1 .. Len(g) : h[i] = g[i]
  BY Added
<1> HIDE DEF h, f
<1>3. last \in Nat /\ last <= m
  <2>1. e[Len(g)] \in Nat /\ e[Len(g)] <= k
    BY <1>1, <1>2
  <2>2. CASE ~IsFrame(d)
    <3>1. k <= m
      BY <2>2, Zenon DEF Follows
    <3> QED
      BY <2>1, <2>2, <3>1
  <2>3. CASE IsFrame(d)
    BY <2>3
  <2> QED
    BY <2>2, <2>3
<1> HIDE DEF last
<1>4. f[Len(h)] = last /\ \A i \in 0 .. Len(g) : f[i] = e[i]
  BY <1>2 DEF f
<1>5. ASSUME NEW i \in 1 .. Len(h) PROVE EndsAt(f, l, h, i)
  <2>1. CASE i = Len(h)
    <3>1. h[i] = d /\ f[i] = last /\ f[i - 1] = e[Len(g)] /\ e[Len(g)] \in Nat /\ e[Len(g)] <= k
      BY <1>1, <1>2, <1>4, <2>1
    <3>2. CASE ~IsFrame(d)
      BY <3>1, <3>2 DEF EndsAt, last
    <3>3. CASE IsFrame(d)
      <4>1. e[Len(g)] + Len(Wire(d)) <= m /\ Carries(l, m - Len(Wire(d)), Wire(d))
        <5>1. k + Len(Wire(d)) <= m /\ Carries(l, m - Len(Wire(d)), Wire(d))
          BY <3>3, Zenon DEF Follows
        <5>2. Len(Wire(d)) \in Nat
          BY EntryBytes
        <5> QED
          BY <3>1, <5>1, <5>2
      <4> QED
        BY <3>1, <3>3, <4>1 DEF EndsAt, last
    <3> QED
      BY <3>2, <3>3
  <2>2. CASE i # Len(h)
    <3>1. i \in 1 .. Len(g) /\ i \in 0 .. Len(g) /\ i - 1 \in 0 .. Len(g)
      BY <1>2, <2>2
    <3>2. h[i] = g[i] /\ f[i] = e[i] /\ f[i - 1] = e[i - 1] /\ EndsAt(e, l, g, i)
      BY <1>1, <1>2, <1>4, <3>1
    <3> QED
      BY <3>2 DEF EndsAt
  <2> QED
    BY <2>1, <2>2
<1>6. f[0] = 0 /\ f[Len(h)] <= m
  BY <1>1, <1>2, <1>3, <1>4
<1>7. ASSUME NEW i \in 0 .. Len(h) PROVE f[i] \in Nat
  <2>1. i = Len(h) \/ i \in 0 .. Len(g)
    BY <1>2
  <2> QED
    BY <1>1, <1>3, <1>4, <2>1
<1> QED
  BY <1>5, <1>6, <1>7 DEF Placed, h

\* A sync word seen stays, and none appears before the end of the line.
LEMMA SyncsOn ==
  ASSUME NEW l \in Seq(Bytes), NEW b \in Bytes
  PROVE  /\ \A i \in 0 .. Len(l) - 2 : SyncAt(Append(l, b), i) <=> SyncAt(l, i)
         /\ \A k \in Nat : NoSyncBefore(l, k) /\ k <= Len(l) - 1 => NoSyncBefore(Append(l, b), k)
<1>1. ASSUME NEW i \in 0 .. Len(l) - 2 PROVE SyncAt(Append(l, b), i) <=> SyncAt(l, i)
  <2>1. i + 1 \in 1 .. Len(l) /\ i + 2 \in 1 .. Len(l)
    BY LenProperties
  <2>2. Append(l, b)[i + 1] = l[i + 1] /\ Append(l, b)[i + 2] = l[i + 2]
    BY <2>1, Added
  <2> QED
    BY <2>2 DEF SyncAt
<1>2. ASSUME NEW k \in Nat, NoSyncBefore(l, k), k <= Len(l) - 1
      PROVE  NoSyncBefore(Append(l, b), k)
  <2> SUFFICES ASSUME NEW i \in 0 .. Len(Append(l, b)) - 2, i < k
               PROVE  ~SyncAt(Append(l, b), i)
    BY DEF NoSyncBefore
  <2>1. i \in 0 .. Len(l) - 2
    BY <1>2, Added
  <2> QED
    BY <1>1, <1>2, <2>1 DEF NoSyncBefore
<1> QED
  BY <1>1, <1>2

\* A verdict is final.
LEMMA VerdictOn ==
  ASSUME NEW l \in Seq(Bytes), NEW b \in Bytes, NEW s \in Nat, s + 4 <= Len(l),
         NEW d, Verdict(l, s, d)
  PROVE  Verdict(Append(l, b), s, d)
<1> DEFINE m == Append(l, b)
           end == s + 4 + l[s + 4]
<1>1. Len(l) \in Nat /\ s + 4 \in 1 .. Len(l) /\ s + 3 \in 1 .. Len(l)
  BY LenProperties
<1>2. /\ m \in Seq(Bytes) /\ Len(m) = Len(l) + 1
      /\ \A i \in 1 .. Len(l) : m[i] = l[i]
  BY Added
<1>3. l[s + 4] \in Nat /\ m[s + 4] = l[s + 4] /\ m[s + 3] = l[s + 3]
  <2>1. l[s + 4] \in Bytes
    BY <1>1, ElementOfSeq
  <2> QED
    BY <1>1, <1>2, <2>1, SyncBytes
<1>4. end \in Nat /\ s + 4 + m[s + 4] = end
  BY <1>3
<1>5. ASSUME end + 1 <= Len(l), NEW from \in 1 .. Len(l)
      PROVE  SubSeq(m, from, end) = SubSeq(l, from, end)
  <2>1. \A i \in from .. end : l[i] \in Bytes /\ m[i] = l[i]
    <3> SUFFICES ASSUME NEW i \in from .. end PROVE l[i] \in Bytes /\ m[i] = l[i]
      OBVIOUS
    <3>1. i \in 1 .. Len(l)
      BY <1>1, <1>4, <1>5
    <3> QED
      BY <1>2, <3>1, ElementOfSeq
  <2> HIDE DEF m, end
  <2>2. /\ SubSeq(l, from, end) \in Seq(Bytes)
        /\ Len(SubSeq(l, from, end)) = IF from <= end THEN end - from + 1 ELSE 0
        /\ \A i \in 1 .. end - from + 1 : SubSeq(l, from, end)[i] = l[from + i - 1]
    BY <1>4, <2>1, SubSeqProperties
  <2>3. \A i \in from .. end : m[i] \in Bytes
    BY <2>1
  <2>4. /\ SubSeq(m, from, end) \in Seq(Bytes)
        /\ Len(SubSeq(m, from, end)) = IF from <= end THEN end - from + 1 ELSE 0
        /\ \A i \in 1 .. end - from + 1 : SubSeq(m, from, end)[i] = m[from + i - 1]
    BY <1>4, <2>3, SubSeqProperties
  <2>5. ASSUME NEW i \in 1 .. Len(SubSeq(m, from, end))
        PROVE  SubSeq(m, from, end)[i] = SubSeq(l, from, end)[i]
    <3>1. i \in 1 .. end - from + 1 /\ from + i - 1 \in from .. end
      BY <1>4, <2>4
    <3> QED
      BY <2>1, <2>2, <2>4, <3>1
  <2> QED
    BY <2>2, <2>4, <2>5, SeqEqual
<1>6. ASSUME end + 1 <= Len(l)
      PROVE  /\ m[end + 1] = l[end + 1] /\ SubSeq(m, s + 3, end) = SubSeq(l, s + 3, end)
             /\ SubSeq(m, s + 5, end) = SubSeq(l, s + 5, end)
  <2>1. end + 1 \in 1 .. Len(l) /\ s + 5 \in 1 .. Len(l)
    BY <1>1, <1>3, <1>6
  <2> QED
    BY <1>1, <1>2, <1>5, <1>6, <2>1
<1>7. CASE ~IsFrame(d) /\ d.nak = "BAD_LEN" /\ l[s + 4] > MaxPayload
  BY <1>3, <1>7 DEF Verdict
<1>8. CASE end + 1 <= Len(l)
  <2>1. end + 1 <= Len(m)
    BY <1>2, <1>4, <1>8, <1>1
  <2> QED
    BY <1>3, <1>4, <1>6, <1>8, <2>1 DEF Verdict
<1> QED
  BY <1>7, <1>8 DEF Verdict

\* The log after a step: what it was, with one entry more if there is one.
LEMMA LogStep ==
  ASSUME NEW l \in Seq(Bytes), NEW g \in Seq(Entries), NEW p, ParserOK(p), NEW b \in Bytes,
         NEW q, q = ParserStep(p, b), Trails(l, p),
         Placed(l, g, Len(l) - Len(Prefix(p)))
  PROVE  /\ g \o q.dispatched \in Seq(Entries)
         /\ Placed(Append(l, b), g \o q.dispatched, Len(Append(l, b)) - Len(Prefix(q)))
<1> DEFINE m == Append(l, b)
           k == Len(l) - Len(Prefix(p))
           n == Len(m) - Len(Prefix(q))
<1>1. m \in Seq(Bytes) /\ Len(m) = Len(l) + 1 /\ Len(l) \in Nat
  BY Added
<1>2. k \in Nat /\ n \in Nat /\ k <= n /\ Trails(m, q)
  BY TrailsOn
<1>3. ParserOK(q)
  BY StepCases
<1>4. Len(Prefix(p)) \in Nat /\ Prefix(p) \in Seq(Bytes)
  BY PrefixShape, LenProperties
<1>5. Placed(m, g, n) /\ Placed(m, g, k)
  <2> HIDE DEF n, k
  <2>1. \A j \in Nat : k <= j => Placed(m, g, j)
    BY <1>2, PlacedOn DEF k
  <2> QED
    BY <1>2, <2>1
<1>6. CASE q.dispatched = <<>>
  <2>1. g \o q.dispatched = g
    BY <1>6, ConcatEmptySeq
  <2> QED
    BY <1>5, <2>1
<1>7. ASSUME NEW d \in Entries, q.dispatched = <<d>>, Follows(m, d, k, n)
      PROVE  /\ g \o q.dispatched \in Seq(Entries)
             /\ Placed(m, g \o q.dispatched, n)
  <2>1. g \o q.dispatched = Append(g, d)
    BY <1>7, AppendIsConcat
  <2> HIDE DEF k, n, m
  <2>2. Append(g, d) \in Seq(Entries) /\ Placed(m, Append(g, d), n)
    BY <1>1, <1>2, <1>5, <1>7, PlacedNext, Added
  <2> QED
    BY <2>1, <2>2
<1>8. CASE q.st = "HUNT" /\ \E why \in {"BAD_CRC", "BAD_LEN"} : q.dispatched = Nak(why)
  <2>1. PICK why \in {"BAD_CRC", "BAD_LEN"} : q.dispatched = Nak(why)
    BY <1>8
  <2>2. Follows(m, Nak(why)[1], k, n)
    BY <1>2, NakEntry, Zenon DEF Follows
  <2> QED
    BY <1>7, <2>1, <2>2, NakEntry
<1>9. CASE Ends(p, q, b) /\ b = Crc(p.body)
  <2> DEFINE d == Take(p.body)[1]
  <2>1. p.st = "RCRC" /\ q.st = "HUNT" /\ q.dispatched = Take(p.body)
    BY <1>9 DEF Ends
  <2>2. d \in Entries /\ IsFrame(d) /\ q.dispatched = <<d>> /\ Wire(d) = Append(Prefix(p), b)
    BY <1>9, <2>1, WholeFrame
  <2> HIDE DEF d
  <2>3. Len(Prefix(q)) = 0
    BY <1>3, <2>1, PrefixShape
  <2>4. n = Len(m) /\ Len(Wire(d)) = Len(Prefix(p)) + 1 /\ k + Len(Wire(d)) = n
    BY <1>1, <1>4, <2>2, <2>3, Added
  <2>5. Wire(d)[Len(Prefix(p)) + 1] = b /\ \A i \in 1 .. Len(Prefix(p)) : Wire(d)[i] = Prefix(p)[i]
    BY <1>4, <2>2, Added
  <2>6. ASSUME NEW i \in 1 .. Len(Wire(d)) PROVE m[n - Len(Wire(d)) + i] = Wire(d)[i]
    <3>1. n - Len(Wire(d)) = k
      BY <1>1, <1>4, <2>4
    <3>2. CASE i = Len(Prefix(p)) + 1
      <4>1. k + i = Len(l) + 1
        BY <1>1, <1>4, <3>2
      <4>2. m[Len(l) + 1] = b
        BY Added
      <4> QED
        BY <2>5, <3>1, <3>2, <4>1, <4>2
    <3>3. CASE i # Len(Prefix(p)) + 1
      <4>1. i \in 1 .. Len(Prefix(p)) /\ k + i \in 1 .. Len(l)
        BY <1>1, <1>2, <1>4, <2>4, <3>3
      <4>2. l[k + i] = Prefix(p)[i]
        BY <4>1 DEF Trails, Carries
      <4>3. m[k + i] = l[k + i]
        BY <4>1, Added
      <4> QED
        BY <2>5, <3>1, <4>1, <4>2, <4>3
    <3> QED
      BY <3>2, <3>3
  <2>7. n - Len(Wire(d)) + Len(Wire(d)) <= Len(m)
    BY <1>1, <1>4, <2>4
  <2>8. Carries(m, n - Len(Wire(d)), Wire(d))
    BY <2>6, <2>7, Zenon DEF Carries
  <2>9. k + Len(Wire(d)) <= n
    BY <1>2, <2>4
  <2>10. Follows(m, d, k, n)
    BY <2>2, <2>8, <2>9, Zenon DEF Follows
  <2> QED
    BY <1>7, <2>2, <2>10, Zenon
<1>10. CASE Ends(p, q, b) /\ b # Crc(p.body)
  BY <1>8, <1>10 DEF Ends
<1>11. CASE Refuses(p, q, b)
  BY <1>8, <1>11 DEF Refuses
<1> QED
  BY <1>6, <1>9, <1>10, <1>11, StepCases DEF Grows, Begins, Waits

\* A frame begun stands at s: its sync word and what follows it.
Begun(l, p, s) ==
  /\ s \in Nat /\ Len(l) = s + 2 + Len(p.body) /\ SyncAt(l, s)
  /\ p.body \in Seq(Bytes) /\ Len(p.body) \in Nat
  /\ \A i \in 1 .. Len(p.body) : l[s + 2 + i] = p.body[i]

\* What the parser holds of a frame stands at the end of the line.
LEMMA FrameBegun ==
  ASSUME NEW l \in Seq(Bytes), NEW p, ParserOK(p), Trails(l, p), p.st \notin {"HUNT", "SYNC1"}
  PROVE  Begun(l, p, Len(l) - Len(Prefix(p)))
<1> DEFINE s == Len(l) - Len(Prefix(p))
<1>1. /\ Len(Prefix(p)) = 2 + Len(p.body) /\ Prefix(p)[1] = SYNC0 /\ Prefix(p)[2] = SYNC1
      /\ \A i \in 1 .. Len(p.body) : Prefix(p)[2 + i] = p.body[i]
  BY PrefixShape
<1>2. p.body \in Seq(Bytes) /\ Len(p.body) \in Nat /\ Len(l) \in Nat
  BY LenProperties DEF ParserOK
<1>3. /\ Len(Prefix(p)) <= Len(l)
      /\ \A i \in 1 .. Len(Prefix(p)) : l[s + i] = Prefix(p)[i]
  BY DEF Trails, Carries
<1>4. s \in Nat /\ Len(l) = s + 2 + Len(p.body)
  BY <1>1, <1>2, <1>3
<1>5. SyncAt(l, s)
  <2>1. 1 \in 1 .. Len(Prefix(p)) /\ 2 \in 1 .. Len(Prefix(p))
    BY <1>1, <1>2
  <2> QED
    BY <1>1, <1>3, <2>1 DEF SyncAt
<1>6. ASSUME NEW i \in 1 .. Len(p.body) PROVE l[s + 2 + i] = p.body[i]
  <2>1. 2 + i \in 1 .. Len(Prefix(p)) /\ s + (2 + i) = s + 2 + i
    <3>1. \A x, n \in Nat : \A y \in 1 .. n : 2 + y \in 1 .. 2 + n /\ x + (2 + y) = x + 2 + y
      OBVIOUS
    <3> QED
      BY <1>1, <1>2, <1>4, <3>1, Zenon
  <2>2. l[s + (2 + i)] = Prefix(p)[2 + i]
    BY <1>3, <2>1
  <2> QED
    BY <1>1, <2>1, <2>2
<1> QED
  BY <1>2, <1>4, <1>5, <1>6 DEF Begun

\* A part of a sequence that stands in another one.
LEMMA PartOf ==
  ASSUME NEW w \in Seq(Bytes), NEW m \in Seq(Bytes), NEW at \in Nat,
         at + Len(w) <= Len(m), \A i \in 1 .. Len(w) : m[at + i] = w[i],
         NEW from \in 1 .. Len(w) + 1
  PROVE  SubSeq(m, at + from, at + Len(w)) = SubSeq(w, from, Len(w))
<1> DEFINE n == Len(w)
           x == SubSeq(m, at + from, at + n)
           y == SubSeq(w, from, n)
<1>1. n \in Nat /\ Len(m) \in Nat
  BY LenProperties
<1>2. \A i \in from .. n : w[i] \in Bytes
  BY <1>1, ElementOfSeq
<1>3. \A i \in at + from .. at + n : m[i] \in Bytes
  <2> SUFFICES ASSUME NEW i \in at + from .. at + n PROVE m[i] \in Bytes
    OBVIOUS
  <2>1. i \in 1 .. Len(m)
    BY <1>1
  <2> QED
    BY <2>1, ElementOfSeq
<1>4. \A i \in 1 .. n : m[at + i] = w[i]
  OBVIOUS
<1> HIDE DEF n
<1>5. /\ y \in Seq(Bytes) /\ Len(y) = IF from <= n THEN n - from + 1 ELSE 0
      /\ \A i \in 1 .. n - from + 1 : y[i] = w[from + i - 1]
  BY <1>1, <1>2, SubSeqProperties
<1>6. /\ x \in Seq(Bytes)
      /\ Len(x) = IF at + from <= at + n THEN (at + n) - (at + from) + 1 ELSE 0
      /\ \A i \in 1 .. (at + n) - (at + from) + 1 : x[i] = m[(at + from) + i - 1]
  BY <1>1, <1>3, SubSeqProperties
<1> HIDE DEF x, y
<1>7. Len(x) = Len(y)
  BY <1>1, <1>5, <1>6
<1>8. ASSUME NEW i \in 1 .. Len(x) PROVE x[i] = y[i]
  <2>1. /\ i \in 1 .. n - from + 1 /\ i \in 1 .. (at + n) - (at + from) + 1
        /\ from + i - 1 \in 1 .. n /\ (at + from) + i - 1 = at + (from + i - 1)
    BY <1>1, <1>6
  <2>2. x[i] = m[at + (from + i - 1)] /\ y[i] = w[from + i - 1]
    BY <1>5, <1>6, <2>1
  <2> QED
    BY <1>4, <2>1, <2>2
<1>9. x = y
  BY <1>5, <1>6, <1>7, <1>8, SeqEqual
<1> QED
  BY <1>9 DEF x, y, n

\* What a step dispatches are entries.
LEMMA StepDispatches ==
  ASSUME NEW p, ParserOK(p), NEW b \in Bytes
  PROVE  ParserOK(ParserStep(p, b)) /\ ParserStep(p, b).dispatched \in Seq(Entries)
<1> DEFINE q == ParserStep(p, b)
<1>1. <<>> \in Seq(Entries) /\ \A d \in Entries : <<d>> \in Seq(Entries)
  OBVIOUS
<1>2. Nak("BAD_LEN") \in Seq(Entries) /\ Nak("BAD_CRC") \in Seq(Entries)
  BY <1>1, NakEntry
<1>3. p.st = "RCRC" /\ b = Crc(p.body) => Take(p.body) \in Seq(Entries)
  BY <1>1, WholeFrame
<1>4. ParserOK(q)
  BY StepCases
<1>5. CASE Ends(p, q, b)
  <2>1. /\ p.st = "RCRC" /\ q.dispatched \in {Take(p.body), Nak("BAD_CRC")}
        /\ b # Crc(p.body) => q.dispatched = Nak("BAD_CRC")
    BY <1>5 DEF Ends
  <2> QED
    BY <1>2, <1>3, <1>4, <2>1
<1>6. CASE q.dispatched \in {<<>>, Nak("BAD_LEN")}
  BY <1>1, <1>2, <1>4, <1>6
<1> QED
  BY <1>5, <1>6, StepCases DEF Grows, Begins, Waits, Refuses

\* The first entry is the verdict on the first sync word.
LEMMA FirstStep ==
  ASSUME NEW l \in Seq(Bytes), NEW g \in Seq(Entries), NEW p, ParserOK(p), NEW b \in Bytes,
         NEW q, q = ParserStep(p, b), Trails(l, p), FirstFrame(l, p, g)
  PROVE  FirstFrame(Append(l, b), q, g \o q.dispatched)
<1> DEFINE m == Append(l, b)
<1>1. /\ m \in Seq(Bytes) /\ Len(m) = Len(l) + 1 /\ Len(l) \in Nat /\ m[Len(l) + 1] = b
      /\ \A i \in 1 .. Len(l) : m[i] = l[i]
  BY Added
<1>2. /\ \A i \in 0 .. Len(l) - 2 : SyncAt(m, i) <=> SyncAt(l, i)
      /\ \A k \in Nat : NoSyncBefore(l, k) /\ k <= Len(l) - 1 => NoSyncBefore(m, k)
  BY SyncsOn
<1>3. ParserOK(q) /\ q.dispatched \in Seq(Entries)
  BY StepDispatches
<1> HIDE DEF m
<1>4. CASE g # <<>>
  <2>1. PICK s \in Nat : /\ s + 4 <= Len(l) /\ SyncAt(l, s) /\ NoSyncBefore(l, s)
                         /\ Verdict(l, s, g[1])
    BY <1>4 DEF FirstFrame
  <2>2. SyncAt(m, s) /\ NoSyncBefore(m, s) /\ s + 4 <= Len(m)
    <3>1. s \in 0 .. Len(l) - 2 /\ s <= Len(l) - 1 /\ s + 4 <= Len(m)
      BY <1>1, <2>1
    <3> QED
      BY <1>2, <2>1, <3>1
  <2>3. Verdict(m, s, g[1])
    BY <2>1, VerdictOn DEF m
  <2>4. g \o q.dispatched # <<>> /\ (g \o q.dispatched)[1] = g[1]
    <3>1. Len(g) \in Nat \ {0} /\ Len(q.dispatched) \in Nat
      BY <1>3, <1>4, EmptySeq, LenProperties
    <3>2. /\ Len(g \o q.dispatched) = Len(g) + Len(q.dispatched)
          /\ \A i \in 1 .. Len(g) + Len(q.dispatched) :
               (g \o q.dispatched)[i] = IF i <= Len(g) THEN g[i] ELSE q.dispatched[i - Len(g)]
      BY <1>3, ConcatProperties
    <3>3. 1 \in 1 .. Len(g) + Len(q.dispatched) /\ 1 <= Len(g) /\ Len(g) + Len(q.dispatched) # 0
      BY <3>1
    <3>4. Len(<<>>) = 0
      OBVIOUS
    <3> QED
      BY <3>2, <3>3, <3>4
  <2> QED
    BY <2>1, <2>2, <2>3, <2>4 DEF FirstFrame, m
<1>5. CASE g = <<>>
  <2>1. g \o q.dispatched = q.dispatched
    BY <1>3, <1>5, ConcatEmptySeq
  <2>2. /\ NoSyncBefore(l, IF p.st \in {"HUNT", "SYNC1"} THEN Len(l) ELSE Len(l) - Len(Prefix(p)))
        /\ p.st = "HUNT" /\ Len(l) > 0 => l[Len(l)] # SYNC0
    BY <1>5 DEF FirstFrame
  <2>3. CASE Grows(p, q, b)
    <3> DEFINE k == Len(m) - Len(Prefix(q))
    <3>1. q.dispatched = <<>> /\ q.st \notin {"HUNT", "SYNC1"} /\ p.st # "HUNT"
      BY <2>3 DEF Grows
    <3>2. NoSyncBefore(m, k)
      <4>1. /\ Prefix(q) = Append(Prefix(p), b) /\ Prefix(p) \in Seq(Bytes)
            /\ Len(Prefix(q)) = Len(Prefix(p)) + 1 /\ Len(Prefix(p)) \in Nat
        BY <2>3, PrefixShape, Added DEF Grows
      <4>2. k = Len(l) - Len(Prefix(p))
        BY <1>1, <4>1
      <4>3. Len(Prefix(p)) >= 1 /\ Len(Prefix(p)) <= Len(l)
        <5>1. p.st = "SYNC1" => Len(Prefix(p)) = 1
          BY PrefixShape
        <5>2. p.body \in Seq(Bytes) /\ Len(p.body) \in Nat
          BY LenProperties DEF ParserOK
        <5>3. p.st # "SYNC1" => Len(Prefix(p)) = 2 + Len(p.body)
          BY <3>1, PrefixShape
        <5>4. Len(Prefix(p)) <= Len(l)
          BY DEF Trails
        <5>5. Len(Prefix(p)) >= 1
          <6>1. \A n : \A c \in Nat : n = 1 \/ n = 2 + c => n >= 1
            OBVIOUS
          <6> QED
            BY <5>1, <5>2, <5>3, <6>1, Zenon
        <5> QED
          BY <5>4, <5>5
      <4>4. k \in Nat /\ k <= Len(l) - 1
        BY <1>1, <4>1, <4>2, <4>3
      <4>5. NoSyncBefore(l, k)
        <5>1. CASE p.st = "SYNC1"
          <6>1. NoSyncBefore(l, Len(l))
            BY <2>2, <5>1
          <6> QED
            BY <1>1, <4>4, <6>1 DEF NoSyncBefore
        <5>2. CASE p.st # "SYNC1"
          BY <2>2, <3>1, <4>2, <5>2
        <5> QED
          BY <5>1, <5>2
      <4> QED
        BY <1>2, <4>4, <4>5
    <3> QED
      BY <2>1, <3>1, <3>2 DEF FirstFrame, m
  <2>4. CASE Begins(p, q, b) \/ Waits(p, q, b)
    <3>1. /\ q.dispatched = <<>> /\ p.st \in {"HUNT", "SYNC1"} /\ q.st \in {"HUNT", "SYNC1"}
          /\ q.st = "HUNT" => b # SYNC0
          /\ b = SYNC1 => p.st = "HUNT"
      BY <2>4, SyncBytes DEF Begins, Waits
    <3>2. ASSUME NEW i \in 0 .. Len(m) - 2 PROVE ~SyncAt(m, i)
      <4>1. CASE i \in 0 .. Len(l) - 2
        <5>1. NoSyncBefore(l, Len(l)) /\ i < Len(l)
          BY <1>1, <2>2, <3>1, <4>1
        <5> QED
          BY <1>2, <4>1, <5>1 DEF NoSyncBefore
      <4>2. CASE i \notin 0 .. Len(l) - 2
        <5>1. i + 1 = Len(l) /\ i + 2 = Len(l) + 1 /\ Len(l) \in 1 .. Len(l) /\ Len(l) > 0
          BY <1>1, <4>2
        <5>2. m[i + 1] = l[Len(l)] /\ m[i + 2] = b
          BY <1>1, <5>1
        <5> QED
          BY <2>2, <3>1, <5>1, <5>2 DEF SyncAt
      <4> QED
        BY <4>1, <4>2
    <3>3. NoSyncBefore(m, Len(m))
      BY <3>2 DEF NoSyncBefore
    <3>4. q.st = "HUNT" /\ Len(m) > 0 => m[Len(m)] # SYNC0
      BY <1>1, <3>1
    <3> QED
      BY <2>1, <3>1, <3>3, <3>4 DEF FirstFrame, m
  <2>5. CASE Refuses(p, q, b) \/ Ends(p, q, b)
    <3> DEFINE body == p.body
    <3>1. p.st \in {"RLEN", "RCRC"} /\ p.st \notin {"HUNT", "SYNC1"}
      BY <2>5 DEF Refuses, Ends
    <3>0. PICK s : s = Len(l) - Len(Prefix(p))
      OBVIOUS
    <3>2. /\ s \in Nat /\ Len(l) = s + 2 + Len(body) /\ SyncAt(l, s)
          /\ body \in Seq(Bytes) /\ Len(body) \in Nat
          /\ \A i \in 1 .. Len(body) : l[s + 2 + i] = body[i]
      <4>1. Begun(l, p, s)
        BY <3>0, <3>1, FrameBegun
      <4> QED
        BY <4>1 DEF Begun
    <3>3. NoSyncBefore(l, s)
      BY <2>2, <3>0, <3>1
    <3>4. Len(body) >= 1
      <4>1. Len(body) = 1 \/ Len(body) >= 2
        BY <3>1 DEF ParserOK
      <4>2. \A c \in Nat : c = 1 \/ c >= 2 => c >= 1
        OBVIOUS
      <4> QED
        BY <3>2, <4>1, <4>2, Zenon
    <3> HIDE DEF body
    <3>5. SyncAt(m, s) /\ NoSyncBefore(m, s) /\ s + 4 <= Len(m)
      <4>1. s \in 0 .. Len(l) - 2 /\ s <= Len(l) - 1 /\ s + 4 <= Len(m)
        BY <1>1, <3>2, <3>4
      <4> QED
        BY <1>2, <3>2, <3>3, <4>1
    <3>6. ASSUME NEW d, q.dispatched = <<d>>, Verdict(m, s, d)
          PROVE  FirstFrame(m, q, g \o q.dispatched)
      <4>1. <<d>>[1] = d /\ <<d>> # <<>>
        OBVIOUS
      <4> QED
        BY <2>1, <3>2, <3>5, <3>6, <4>1 DEF FirstFrame
    <3>7. CASE Refuses(p, q, b)
      <4>1. /\ q.dispatched = Nak("BAD_LEN") /\ b > MaxPayload /\ Len(body) = 1
        BY <3>7 DEF Refuses, ParserOK, body
      <4>2. m[s + 4] = b
        BY <1>1, <3>2, <4>1
      <4>3. Verdict(m, s, Nak("BAD_LEN")[1])
        BY <4>1, <4>2, NakEntry DEF Verdict
      <4> QED
        BY <3>6, <4>1, <4>3, NakEntry DEF m
    <3>8. CASE Ends(p, q, b)
      <4>1. /\ p.st = "RCRC" /\ Len(body) >= 2 /\ Len(body) = body[2] + 2
            /\ q.dispatched = IF b = Crc(body) THEN Take(body) ELSE Nak("BAD_CRC")
        BY <3>8 DEF Ends, ParserOK, body
      <4>2. ASSUME NEW i \in 1 .. Len(body) PROVE m[s + 2 + i] = body[i]
        <5>1. s + 2 + i \in 1 .. Len(l)
          BY <3>2
        <5> QED
          BY <1>1, <3>2, <5>1
      <4>3. body[2] \in Nat /\ m[s + 3] = body[1] /\ m[s + 4] = body[2]
        <5>1. 1 \in 1 .. Len(body) /\ 2 \in 1 .. Len(body) /\ s + 2 + 1 = s + 3 /\ s + 2 + 2 = s + 4
          BY <3>2, <4>1
        <5>2. body[2] \in Bytes
          BY <3>2, <5>1, ElementOfSeq
        <5> QED
          BY <4>2, <5>1, <5>2, SyncBytes
      <4> DEFINE end == s + 4 + m[s + 4]
      <4>4. end = s + 2 + Len(body) /\ end = Len(l) /\ end + 1 <= Len(m) /\ m[end + 1] = b
        <5>1. end = s + 4 + body[2]
          BY <4>3
        <5> HIDE DEF end
        <5>2. end = s + 2 + Len(body) /\ end = Len(l)
          <6>1. \A x, y \in Nat : x + 4 + y = x + 2 + (y + 2)
            OBVIOUS
          <6>2. s \in Nat /\ body[2] \in Nat /\ Len(body) = body[2] + 2
            BY <3>2, <4>1, <4>3
          <6>3. end = s + 2 + Len(body)
            BY <5>1, <6>1, <6>2, Zenon
          <6> QED
            BY <3>2, <6>3
        <5> QED
          BY <1>1, <5>2
      <4>5. /\ SubSeq(m, s + 3, end) = body
            /\ SubSeq(m, s + 5, end) = SubSeq(body, 3, Len(body))
        <5> DEFINE at == s + 2
        <5>1. /\ at \in Nat /\ at + Len(body) <= Len(m) /\ at + Len(body) = end
              /\ at + 1 = s + 3 /\ at + 3 = s + 5
              /\ 1 \in 1 .. Len(body) + 1 /\ 3 \in 1 .. Len(body) + 1
          BY <1>1, <3>2, <4>1, <4>4
        <5>2. \A i \in 1 .. Len(body) : m[at + i] = body[i]
          BY <4>2
        <5> HIDE DEF at, end
        <5>3. /\ SubSeq(m, at + 1, at + Len(body)) = SubSeq(body, 1, Len(body))
              /\ SubSeq(m, at + 3, at + Len(body)) = SubSeq(body, 3, Len(body))
          BY <1>1, <3>2, <5>1, <5>2, PartOf
        <5>4. SubSeq(body, 1, Len(body)) = body
          BY <3>2, SubSeqFull
        <5> QED
          BY <5>1, <5>3, <5>4
      <4>6. CASE b = Crc(body)
        <5> DEFINE d == Take(body)[1]
        <5>1. /\ Take(body) = <<d>> /\ IsFrame(d) /\ d.cmd = body[1]
              /\ d.payload = SubSeq(body, 3, Len(body))
          BY <4>1, <4>6, WholeFrame DEF body
        <5> HIDE DEF d
        <5>2. Verdict(m, s, d)
          BY <4>3, <4>4, <4>5, <4>6, <5>1 DEF Verdict
        <5> QED
          BY <3>6, <4>1, <4>6, <5>1, <5>2 DEF m
      <4>7. CASE b # Crc(body)
        <5>1. Verdict(m, s, Nak("BAD_CRC")[1])
          BY <4>4, <4>5, <4>7, NakEntry DEF Verdict
        <5> QED
          BY <3>6, <4>1, <4>7, <5>1, NakEntry DEF m
      <4> QED
        BY <4>6, <4>7
    <3> QED
      BY <2>5, <3>7, <3>8
  <2> QED
    BY <2>3, <2>4, <2>5, StepCases
<1> QED
  BY <1>4, <1>5

\* A byte keeps the invariant.
LEMMA ByteStep ==
  ASSUME NEW l, NEW p, NEW g, HasParsed(l, p, g), NEW b \in Bytes
  PROVE  HasParsed(Append(l, b), ParserStep(p, b), g \o ParserStep(p, b).dispatched)
<1> DEFINE q == ParserStep(p, b)
<1>1. /\ l \in Seq(Bytes) /\ g \in Seq(Entries) /\ ParserOK(p) /\ Trails(l, p)
      /\ Placed(l, g, Len(l) - Len(Prefix(p))) /\ FirstFrame(l, p, g)
  BY DEF HasParsed
<1>2. Append(l, b) \in Seq(Bytes)
  BY <1>1, Added
<1>3. ParserOK(q) /\ Trails(Append(l, b), q)
  BY <1>1, StepCases, TrailsOn
<1>4. /\ g \o q.dispatched \in Seq(Entries)
      /\ Placed(Append(l, b), g \o q.dispatched, Len(Append(l, b)) - Len(Prefix(q)))
  BY <1>1, LogStep
<1>5. FirstFrame(Append(l, b), q, g \o q.dispatched)
  BY <1>1, FirstStep
<1> QED
  BY <1>2, <1>3, <1>4, <1>5 DEF HasParsed

\* The parser on a row of bytes: its states and what it dispatches.
Runs(steps, p, bytes, n) ==
  steps[0] = p /\ \A i \in 1 .. n : steps[i] = ParserStep(steps[i - 1], bytes[i])

\* The parser has a run on every row of bytes.
LEMMA RunExists ==
  ASSUME NEW p, NEW bytes
  PROVE  \A n \in Nat : \E f : Runs(f, p, bytes, n)
<1> DEFINE Made == {n \in Nat : \E f : Runs(f, p, bytes, n)}
<1>1. 0 \in Made
  <2>1. Runs([i \in 0 .. 0 |-> p], p, bytes, 0)
    BY DEF Runs
  <2> QED
    BY <2>1
<1>2. ASSUME NEW n \in Nat, n \in Made PROVE n + 1 \in Made
  <2>1. PICK f : Runs(f, p, bytes, n)
    BY <1>2
  <2> DEFINE g == [i \in 0 .. n + 1 |-> IF i = n + 1 THEN ParserStep(f[n], bytes[n + 1]) ELSE f[i]]
  <2>2. g[0] = p
    BY <2>1 DEF Runs
  <2>3. ASSUME NEW i \in 1 .. n + 1 PROVE g[i] = ParserStep(g[i - 1], bytes[i])
    <3>1. CASE i = n + 1
      <4>1. g[i] = ParserStep(f[n], bytes[n + 1]) /\ g[i - 1] = f[n]
        BY <3>1
      <4> QED
        BY <3>1, <4>1
    <3>2. CASE i # n + 1
      <4>1. i \in 1 .. n /\ g[i] = f[i] /\ g[i - 1] = f[i - 1]
        BY <3>2
      <4> QED
        BY <2>1, <4>1 DEF Runs
    <3> QED
      BY <3>1, <3>2
  <2>4. Runs(g, p, bytes, n + 1)
    <3> HIDE DEF g
    <3> QED
      BY <2>2, <2>3 DEF Runs
  <2> QED
    BY <2>4
<1> QED
  BY <1>1, <1>2, SetInduction

\* A row of bytes keeps the invariant.
LEMMA BytesStep ==
  ASSUME NEW l, NEW p, NEW g, HasParsed(l, p, g), NEW bytes \in Seq(Bytes), bytes # <<>>,
         NEW steps, Runs(steps, p, bytes, Len(bytes))
  PROVE  HasParsed(l \o bytes, steps[Len(bytes)],
                   g \o FlattenSeq([i \in DOMAIN bytes |-> steps[i].dispatched]))
<1> DEFINE n == Len(bytes)
           parts == [i \in DOMAIN bytes |-> steps[i].dispatched]
<1>1. n \in Nat \ {0} /\ DOMAIN bytes = 1 .. n /\ \A i \in 1 .. n : bytes[i] \in Bytes
  BY EmptySeq, LenProperties, ElementOfSeq
<1>2. l \in Seq(Bytes) /\ g \in Seq(Entries) /\ ParserOK(p)
  BY DEF HasParsed
<1>3. /\ steps[0] = p
      /\ \A i \in 1 .. n : steps[i] = ParserStep(steps[i - 1], bytes[i])
  BY DEF Runs
<1> HIDE DEF n
<1> DEFINE Fine == {i \in Nat : i <= n => ParserOK(steps[i])}
<1>4. Nat \subseteq Fine
  <2>1. 0 \in Fine
    BY <1>2, <1>3
  <2>2. ASSUME NEW i \in Nat, i \in Fine PROVE i + 1 \in Fine
    <3> SUFFICES ASSUME i + 1 <= n PROVE ParserOK(steps[i + 1])
      OBVIOUS
    <3>1. i + 1 \in 1 .. n /\ i + 1 - 1 = i /\ i <= n
      BY <1>1
    <3>2. steps[i + 1] = ParserStep(steps[i], bytes[i + 1]) /\ bytes[i + 1] \in Bytes
      BY <1>1, <1>3, <3>1
    <3>3. ParserOK(steps[i])
      BY <2>2, <3>1
    <3> QED
      BY <3>2, <3>3, StepCases
  <2> QED
    BY <2>1, <2>2, SetInduction
<1>5. ASSUME NEW i \in 1 .. n
      PROVE  ParserOK(steps[i - 1]) /\ steps[i].dispatched \in Seq(Entries)
  <2>1. i - 1 \in Nat /\ i - 1 <= n
    BY <1>1
  <2>2. ParserOK(steps[i - 1])
    BY <1>4, <2>1
  <2> QED
    BY <1>1, <1>3, <2>2, StepDispatches
<1>6. parts \in [1 .. n -> Seq(Entries)] /\ \A i \in 1 .. n : parts[i] = steps[i].dispatched
  BY <1>1, <1>5
<1> HIDE DEF parts
<1>7. PICK f : /\ JoinsUp(f, parts, n) /\ FlattenSeq(parts) = f[n]
               /\ \A i \in 0 .. n : f[i] \in Seq(Entries)
  BY <1>1, <1>6, FlattenLaw
<1> DEFINE Kept == {i \in Nat : i <= n =>
                     HasParsed(l \o SubSeq(bytes, 1, i), steps[i], g \o f[i])}
<1>8. 0 \in Kept
  <2>1. SubSeq(bytes, 1, 0) = <<>> /\ f[0] = <<>>
    BY <1>7, SubSeqEmpty DEF JoinsUp
  <2>2. l \o SubSeq(bytes, 1, 0) = l /\ g \o f[0] = g
    BY <1>2, <2>1, ConcatEmptySeq
  <2> QED
    BY <1>3, <2>2
<1>9. ASSUME NEW i \in Nat, i \in Kept PROVE i + 1 \in Kept
  <2> SUFFICES ASSUME i + 1 <= n
               PROVE  HasParsed(l \o SubSeq(bytes, 1, i + 1), steps[i + 1], g \o f[i + 1])
    OBVIOUS
  <2> DEFINE x == SubSeq(bytes, 1, i)
             b == bytes[i + 1]
             d == steps[i + 1].dispatched
  <2>1. i + 1 \in 1 .. n /\ i + 1 - 1 = i /\ i <= n /\ i \in 0 .. n /\ 1 \in 1 .. i + 1
    BY <1>1
  <2>2. b \in Bytes /\ steps[i + 1] = ParserStep(steps[i], b) /\ d \in Seq(Entries)
    BY <1>1, <1>3, <1>5, <2>1
  <2>3. f[i + 1] = f[i] \o d /\ f[i] \in Seq(Entries)
    <3> DEFINE k == i + 1
    <3>1. \A j \in 1 .. n : f[j] = f[j - 1] \o parts[j]
      BY <1>7, Zenon DEF JoinsUp
    <3>2. k \in 1 .. n /\ k - 1 = i
      BY <2>1
    <3>3. parts[k] = d /\ f[i] \in Seq(Entries)
      BY <1>6, <1>7, <2>1
    <3> HIDE DEF k
    <3>4. f[k] = f[i] \o d
      BY <3>1, <3>2, <3>3, Zenon
    <3> QED
      BY <3>3, <3>4 DEF k
  <2>4. x \in Seq(Bytes) /\ SubSeq(bytes, 1, i + 1) = x \o <<b>>
    <3>1. \A j \in 1 .. i : bytes[j] \in Bytes
      BY <1>1, <2>1
    <3>2. x \in Seq(Bytes)
      BY <3>1, SubSeqProperties
    <3>3. SubSeq(bytes, 1, i + 1) = SubSeq(bytes, 1, i + 1 - 1) \o <<bytes[i + 1]>>
      BY <1>1, <2>1, SubSeqRecursiveSecond DEF n
    <3> QED
      BY <2>1, <3>2, <3>3
  <2>5. HasParsed(l \o x, steps[i], g \o f[i])
    BY <1>9, <2>1
  <2> HIDE DEF x, b, d
  <2>6. HasParsed(Append(l \o x, b), steps[i + 1], (g \o f[i]) \o d)
    BY <2>2, <2>5, ByteStep DEF d
  <2>7. Append(l \o x, b) = l \o (x \o <<b>>)
    <3>1. l \o x \in Seq(Bytes) /\ <<b>> \in Seq(Bytes)
      BY <1>2, <2>2, <2>4, ConcatProperties
    <3>2. Append(l \o x, b) = (l \o x) \o <<b>>
      BY <2>2, <3>1, AppendIsConcat
    <3>3. (l \o x) \o <<b>> = l \o (x \o <<b>>)
      BY <1>2, <2>4, <3>1, Associative, Zenon
    <3> QED
      BY <3>2, <3>3, Zenon
  <2>8. (g \o f[i]) \o d = g \o (f[i] \o d)
    <3>1. \A s, t, u \in Seq(Entries) : (s \o t) \o u = s \o (t \o u)
      BY ConcatAssociative
    <3> QED
      BY <1>2, <2>2, <2>3, <3>1, Zenon
  <2> QED
    BY <2>3, <2>4, <2>6, <2>7, <2>8
<1>10. n \in Kept
  BY <1>1, <1>8, <1>9, SetInduction
<1>11. HasParsed(l \o SubSeq(bytes, 1, n), steps[n], g \o f[n])
  BY <1>1, <1>10
<1>12. SubSeq(bytes, 1, n) = bytes
  BY SubSeqFull DEF n
<1> QED
  BY <1>7, <1>11, <1>12 DEF n, parts

----------------------------------------------------------------------------
(* The invariant of the line.                                              *)

LineInv == HasParsed(line, parser, log)

\* A quiet line.
LEMMA QuietLine == HasParsed(<<>>, Idle, <<>>)
<1>1. /\ Idle.st = "HUNT" /\ Idle.body = <<>>
  BY DEF Idle
<1>2. <<>> \in Seq(Bytes) /\ <<>> \in Seq(Entries) /\ Len(<<>>) = 0
  OBVIOUS
<1>3. ParserOK(Idle)
  BY <1>1, <1>2 DEF ParserOK, ParserStates
<1>4. Prefix(Idle) = <<>> /\ Len(Prefix(Idle)) = 0
  BY <1>1, <1>2 DEF Prefix
<1>5. Trails(<<>>, Idle)
  BY <1>2, <1>4 DEF Trails, Carries
<1>6. Placed(<<>>, <<>>, Len(<<>>) - Len(Prefix(Idle)))
  <2> DEFINE e == [i \in 0 .. 0 |-> 0]
  <2>1. /\ \A i \in 0 .. 0 : e[i] \in Nat
        /\ e[0] = 0 /\ 0 - 0 = 0 /\ e[0] <= 0 /\ 1 .. 0 = {}
    OBVIOUS
  <2> HIDE DEF e
  <2>2. Placed(<<>>, <<>>, 0)
    BY <1>2, <2>1 DEF Placed
  <2> QED
    BY <1>2, <1>4, <2>1, <2>2
<1>7. FirstFrame(<<>>, Idle, <<>>)
  BY <1>1, <1>2, <1>4 DEF FirstFrame, NoSyncBefore
<1> QED
  BY <1>2, <1>3, <1>5, <1>6, <1>7 DEF HasParsed

\* One byte keeps the invariant.
LEMMA ReceiveStep ==
  ASSUME LineInv, NEW b \in Bytes, Receive(b)
  PROVE  LineInv'
<1>1. /\ line' = Append(line, b) /\ parser' = ParserStep(parser, b)
      /\ log' = log \o ParserStep(parser, b).dispatched
  BY DEF Receive
<1>2. HasParsed(Append(line, b), ParserStep(parser, b), log \o ParserStep(parser, b).dispatched)
  BY ByteStep DEF LineInv
<1> QED
  BY <1>1, <1>2 DEF LineInv

\* A frame of the host is sendable and not empty on the wire.
LEMMA FrameBytes ==
  ASSUME NEW f \in Frames
  PROVE  Wire(f) \in Seq(Bytes) /\ Len(Wire(f)) \in Nat \ {0}
<1>1. Sendable(f)
  BY LineAssumption, Zenon DEF Sendable
<1> QED
  BY <1>1, WireBytes

RequestOK == request \in Seq(Bytes) /\ Len(request) \in Nat \ {0}

\* The retried request's next byte is a byte of it.
LEMMA RepeatTakes ==
  ASSUME LineInv, RequestOK, sentAt \in Nat, Repeat
  PROVE  (\E b \in Bytes : Receive(b)) /\ request' = request /\ sentAt' \in Nat
<1> DEFINE first == IF sentAt = 0 THEN Len(line) + 1 ELSE sentAt
           at == ((Len(line) + 1 - first) % Len(request)) + 1
<1>1. Receive(request[at]) /\ sentAt' = first /\ request' = request
  BY DEF Repeat
<1>2. Len(line) \in Nat
  BY LenProperties DEF LineInv, HasParsed
<1>3. first \in Nat
  BY <1>2
<1>4. at \in 1 .. Len(request)
  <2> DEFINE n == Len(request)
             x == Len(line) + 1 - first
  <2>1. n \in Nat \ {0} /\ x \in Int
    BY <1>2, <1>3 DEF RequestOK
  <2> HIDE DEF n, x
  <2> DEFINE y == x % n
  <2>2. y \in 0 .. n - 1
    BY <2>1
  <2> HIDE DEF y
  <2>3. y + 1 \in 1 .. n
    BY <2>1, <2>2
  <2> QED
    BY <2>3, Zenon DEF n, x, y
<1>5. request[at] \in Bytes
  BY <1>4, ElementOfSeq DEF RequestOK
<1> QED
  BY <1>1, <1>3, <1>5

\* So does the retried request.
LEMMA RepeatStep ==
  ASSUME LineInv, RequestOK, sentAt \in Nat, Repeat
  PROVE  LineInv' /\ RequestOK' /\ sentAt' \in Nat
BY RepeatTakes, ReceiveStep DEF RequestOK

\* A frame that arrives whole is its bytes one by one.
LEMMA SendRuns ==
  ASSUME NEW f \in Frames, Send(f)
  PROVE  \E steps :
           /\ Runs(steps, parser, Wire(f), Len(Wire(f)))
           /\ line' = line \o Wire(f) /\ parser' = steps[Len(Wire(f))]
           /\ log' = log \o FlattenSeq([i \in DOMAIN Wire(f) |-> steps[i].dispatched])
<1> DEFINE bytes == Wire(f)
           steps == CHOOSE h : h = [i \in 0 .. Len(bytes) |->
                                     IF i = 0 THEN parser ELSE ParserStep(h[i - 1], bytes[i])]
<1>1. /\ line' = line \o bytes /\ parser' = steps[Len(bytes)]
      /\ log' = log \o FlattenSeq([i \in DOMAIN bytes |-> steps[i].dispatched])
  BY DEF Send, ReceiveAll
<1>2. bytes \in Seq(Bytes) /\ Len(bytes) \in Nat \ {0}
  BY FrameBytes
<1> HIDE DEF bytes
<1>4. PICK h : Runs(h, parser, bytes, Len(bytes))
  BY <1>2, RunExists
<1>5. \E g : g = [i \in 0 .. Len(bytes) |->
                    IF i = 0 THEN parser ELSE ParserStep(g[i - 1], bytes[i])]
  <2> DEFINE n == Len(bytes)
             g == [i \in 0 .. n |-> h[i]]
  <2>1. ASSUME NEW i \in 0 .. n
        PROVE  g[i] = IF i = 0 THEN parser ELSE ParserStep(g[i - 1], bytes[i])
    <3>1. CASE i = 0
      BY <1>4, <3>1 DEF Runs
    <3>2. CASE i # 0
      <4>1. i \in 1 .. n /\ i - 1 \in 0 .. n
        BY <1>2, <3>2
      <4>2. g[i] = h[i] /\ g[i - 1] = h[i - 1]
        BY <4>1
      <4>3. h[i] = ParserStep(h[i - 1], bytes[i])
        BY <1>4, <4>1 DEF Runs
      <4> QED
        BY <3>2, <4>2, <4>3
    <3> QED
      BY <3>1, <3>2
  <2>2. g = [i \in 0 .. n |-> IF i = 0 THEN parser ELSE ParserStep(g[i - 1], bytes[i])]
    BY <2>1
  <2> HIDE DEF g
  <2> QED
    BY <2>2
<1>6. steps = [i \in 0 .. Len(bytes) |->
                 IF i = 0 THEN parser ELSE ParserStep(steps[i - 1], bytes[i])]
  BY <1>5, Zenon
<1> HIDE DEF steps
<1>7. Runs(steps, parser, bytes, Len(bytes))
  <2>1. 0 \in 0 .. Len(bytes) /\ 1 .. Len(bytes) \subseteq 0 .. Len(bytes) /\ 0 \notin 1 .. Len(bytes)
    BY <1>2
  <2>2. steps[0] = parser
    BY <1>6, <2>1
  <2>3. ASSUME NEW i \in 1 .. Len(bytes) PROVE steps[i] = ParserStep(steps[i - 1], bytes[i])
    <3>1. i \in 0 .. Len(bytes) /\ i # 0
      BY <2>1
    <3> QED
      BY <1>6, <3>1
  <2> QED
    BY <2>2, <2>3 DEF Runs
<1> QED
  BY <1>1, <1>7 DEF bytes

\* So it keeps the invariant.
LEMMA SendStep ==
  ASSUME LineInv, NEW f \in Frames, Send(f)
  PROVE  LineInv'
<1> DEFINE bytes == Wire(f)
<1>1. PICK steps :
        /\ Runs(steps, parser, bytes, Len(bytes))
        /\ line' = line \o bytes /\ parser' = steps[Len(bytes)]
        /\ log' = log \o FlattenSeq([i \in DOMAIN bytes |-> steps[i].dispatched])
  BY SendRuns
<1>2. bytes \in Seq(Bytes) /\ Len(bytes) \in Nat \ {0}
  BY FrameBytes
<1>3. bytes # <<>>
  BY <1>2, EmptySeq
<1> HIDE DEF bytes
<1>8. HasParsed(line \o bytes, steps[Len(bytes)],
                log \o FlattenSeq([i \in DOMAIN bytes |-> steps[i].dispatched]))
  BY <1>1, <1>2, <1>3, BytesStep DEF LineInv
<1> QED
  BY <1>1, <1>8 DEF LineInv

\* The invariant on a line of arbitrary bytes.
LEMMA LineInvariant == LineSpec => []LineInv
<1>1. LineInit => LineInv
  BY QuietLine DEF LineInit, LineInv
<1>2. LineInv /\ [Noise]_lineVars => LineInv'
  <2>1. ASSUME LineInv, Noise PROVE LineInv'
    BY <2>1, ReceiveStep DEF Noise
  <2>2. ASSUME LineInv, UNCHANGED lineVars PROVE LineInv'
    BY <2>2 DEF LineInv, lineVars
  <2> QED
    BY <2>1, <2>2
<1> QED
  BY <1>1, <1>2, PTL DEF LineSpec

RetryInv == LineInv /\ RequestOK /\ sentAt \in Nat

\* The invariant on a line that ends in a retried request.
LEMMA RetryInvariant == RetrySpec => []RetryInv
<1>1. ASSUME LineInit PROVE RetryInv
  <2>1. PICK f \in Frames : request = Wire(f)
    BY <1>1 DEF LineInit
  <2>2. RequestOK
    BY <2>1, FrameBytes DEF RequestOK
  <2>3. LineInv /\ sentAt \in Nat
    BY <1>1, QuietLine DEF LineInit, LineInv
  <2> QED
    BY <2>2, <2>3 DEF RetryInv
<1>2. RetryInv /\ [(sentAt = 0 /\ Noise) \/ Repeat]_lineVars => RetryInv'
  <2>1. ASSUME RetryInv, Noise PROVE RetryInv'
    BY <2>1, ReceiveStep DEF RetryInv, RequestOK, Noise
  <2>2. ASSUME RetryInv, Repeat PROVE RetryInv'
    BY <2>2, RepeatStep DEF RetryInv
  <2>3. ASSUME RetryInv, UNCHANGED lineVars PROVE RetryInv'
    BY <2>3 DEF RetryInv, RequestOK, LineInv, lineVars
  <2> QED
    BY <2>1, <2>2, <2>3
<1> QED
  BY <1>1, <1>2, PTL DEF RetrySpec

\* The invariant on a line of frames in noise.
LEMMA TrafficInvariant == TrafficSpec => []LineInv
<1>1. TrafficInit => LineInv
  BY QuietLine DEF TrafficInit, LineInv
<1>2. LineInv /\ [Hiss \/ \E f \in Frames : Send(f)]_lineVars => LineInv'
  <2>1. ASSUME LineInv, Hiss PROVE LineInv'
    BY <2>1, ReceiveStep DEF Hiss
  <2>2. ASSUME LineInv, NEW f \in Frames, Send(f) PROVE LineInv'
    BY <2>2, SendStep
  <2>3. ASSUME LineInv, UNCHANGED lineVars PROVE LineInv'
    BY <2>3 DEF LineInv, lineVars
  <2> QED
    BY <2>1, <2>2, <2>3
<1> QED
  BY <1>1, <1>2, PTL DEF TrafficSpec

----------------------------------------------------------------------------
(* The frames of the log are stretches of the line in their order.         *)

\* Min is the least element.
LEMMA LeastOf ==
  ASSUME NEW S \in SUBSET Nat, S # {}
  PROVE  Min(S) \in S /\ \A y \in S : Min(S) <= y
BY LeastNatural DEF Min

\* A carried stretch is a slice of the line.
LEMMA CarriedSlice ==
  ASSUME NEW l \in Seq(Bytes), NEW w \in Seq(Bytes), NEW at \in Nat, Carries(l, at, w)
  PROVE  SubSeq(l, at + 1, at + Len(w)) = w
<1> DEFINE n == Len(w)
           end == at + n
           x == SubSeq(l, at + 1, end)
<1>1. n \in Nat /\ Len(l) \in Nat /\ end \in Nat /\ end <= Len(l)
  BY LenProperties DEF Carries
<1>2. \A i \in 1 .. n : l[at + i] = w[i] /\ w[i] \in Bytes
  BY ElementOfSeq DEF Carries
<1>3. ASSUME NEW j \in at + 1 .. end PROVE l[j] \in Bytes
  <2>1. j \in 1 .. Len(l)
    BY <1>1
  <2> QED
    BY <2>1, ElementOfSeq
<1>4. end - (at + 1) + 1 = n /\ (at + 1 <= end <=> n # 0)
  BY <1>1
<1> HIDE DEF n, end
<1>5. /\ x \in Seq(Bytes)
      /\ Len(x) = IF at + 1 <= end THEN end - (at + 1) + 1 ELSE 0
      /\ \A i \in 1 .. end - (at + 1) + 1 : x[i] = l[at + 1 + i - 1]
  BY <1>1, <1>3, SubSeqProperties
<1>6. Len(x) = n
  BY <1>4, <1>5
<1>7. ASSUME NEW i \in 1 .. n PROVE x[i] = w[i]
  <2>1. x[i] = l[at + 1 + i - 1] /\ at + 1 + i - 1 = at + i
    BY <1>1, <1>4, <1>5
  <2> QED
    BY <1>2, <2>1
<1> HIDE DEF x
<1>8. x = w
  BY <1>5, <1>6, <1>7, SeqEqual DEF n
<1> QED
  BY <1>8 DEF x, end, n

\* The ends of the next frame, and what is covered with it.
Stretches(i, c) ==
  {e \in c + Len(Wire(log[i])) .. Len(line) :
     SubSeq(line, e - Len(Wire(log[i])) + 1, e) = Wire(log[i])}

Cover(i, c) ==
  IF ~IsFrame(log[i]) THEN c
  ELSE IF Stretches(i, c) = {} THEN Len(line) + 1 ELSE Min(Stretches(i, c))

\* CoveredTo satisfies its recursion.
LEMMA CoverLaw ==
  ASSUME LineInv
  PROVE  /\ CoveredTo[0] = 0
         /\ \A i \in 1 .. Len(log) : CoveredTo[i - 1] \in Nat
                                     /\ CoveredTo[i] = Cover(i, CoveredTo[i - 1])
         /\ CoveredTo[Len(log)] \in Nat
<1> DEFINE n == Len(log)
           covered == CHOOSE h : h = [i \in 0 .. n |-> IF i = 0 THEN 0 ELSE Cover(i, h[i - 1])]
           step == [q \in Nat \X Nat |-> IF q[1] \in 1 .. n THEN Cover(q[1], q[2]) ELSE 0]
<1>1. n \in Nat /\ Len(line) \in Nat /\ \A i \in 1 .. n : Len(Wire(log[i])) \in Nat
  <2>1. n \in Nat /\ Len(line) \in Nat /\ \A i \in 1 .. n : log[i] \in Entries
    BY LenProperties, ElementOfSeq DEF LineInv, HasParsed
  <2> QED
    BY <2>1, EntryBytes
<1>2. CoveredTo = covered
  BY Zenon DEF CoveredTo, Cover, Stretches, IsFrame
<1>3. ASSUME NEW i \in 1 .. n, NEW c \in Nat PROVE Cover(i, c) \in Nat
  <2>1. Stretches(i, c) \in SUBSET Nat
    BY <1>1 DEF Stretches
  <2>2. CASE Stretches(i, c) = {}
    BY <1>1, <2>2 DEF Cover
  <2>3. CASE Stretches(i, c) # {}
    BY <2>1, <2>3, LeastOf DEF Cover
  <2> QED
    BY <2>2, <2>3
<1> HIDE DEF n
<1>4. /\ step \in [Nat \X Nat -> Nat]
      /\ \A i \in 1 .. n, c \in Nat : step[<<i, c>>] = Cover(i, c)
  <2>1. \A i \in Nat, c \in Nat : (IF i \in 1 .. n THEN Cover(i, c) ELSE 0) \in Nat
    BY <1>3
  <2>2. step \in [Nat \X Nat -> Nat]
    BY <2>1
  <2>3. \A i \in Nat, c \in Nat : step[<<i, c>>] = IF i \in 1 .. n THEN Cover(i, c) ELSE 0
    OBVIOUS
  <2>4. \A i \in 1 .. n : i \in Nat
    BY <1>1
  <2> HIDE DEF step
  <2> QED
    BY <2>2, <2>3, <2>4
<1> HIDE DEF step
<1>5. PICK f : Solution(f, Nat, 0, step)
  BY <1>4, Recursion
<1>6. f \in [Nat -> Nat] /\ f[0] = 0 /\ \A i \in Nat : f[i + 1] = step[<<i + 1, f[i]>>]
  BY <1>5 DEF Solution
<1>7. ASSUME NEW i \in 1 .. n PROVE f[i] = Cover(i, f[i - 1])
  <2>4. i - 1 \in Nat /\ i - 1 + 1 = i
    BY <1>1
  <2>1. i - 1 \in Nat /\ i - 1 + 1 = i /\ f[i - 1] \in Nat
    BY <1>6, <2>4
  <2>2. f[i - 1 + 1] = step[<<i - 1 + 1, f[i - 1]>>]
    BY <1>6, <2>1
  <2>3. step[<<i, f[i - 1]>>] = Cover(i, f[i - 1])
    BY <1>4, <2>1
  <2> QED
    BY <2>1, <2>2, <2>3
<1>8. covered = [i \in 0 .. n |-> IF i = 0 THEN 0 ELSE Cover(i, covered[i - 1])]
  <2> DEFINE h == [i \in 0 .. n |-> f[i]]
  <2>1. ASSUME NEW i \in 0 .. n PROVE h[i] = IF i = 0 THEN 0 ELSE Cover(i, h[i - 1])
    <3>1. CASE i = 0
      BY <1>1, <1>6, <3>1
    <3>2. CASE i # 0
      <4>1. i \in 1 .. n /\ i - 1 \in 0 .. n
        BY <1>1, <3>2
      <4>2. h[i] = f[i] /\ h[i - 1] = f[i - 1]
        BY <4>1
      <4> QED
        BY <1>7, <3>2, <4>1, <4>2
    <3> QED
      BY <3>1, <3>2
  <2>2. h = [i \in 0 .. n |-> IF i = 0 THEN 0 ELSE Cover(i, h[i - 1])]
    BY <2>1
  <2> HIDE DEF h
  <2> QED
    BY <2>2, Zenon
<1> HIDE DEF covered
<1>9. covered[0] = 0 /\ \A i \in 1 .. n : covered[i] = Cover(i, covered[i - 1])
  <2>1. 0 \in 0 .. n /\ \A i \in 1 .. n : i \in 0 .. n /\ i # 0
    BY <1>1
  <2> QED
    BY <1>8, <2>1
<1> DEFINE Typed == {i \in Nat : i <= n => covered[i] \in Nat}
<1>10. Nat \subseteq Typed
  <2>1. 0 \in Typed
    BY <1>9
  <2>2. ASSUME NEW i \in Nat, i \in Typed PROVE i + 1 \in Typed
    <3> SUFFICES ASSUME i + 1 <= n PROVE covered[i + 1] \in Nat
      OBVIOUS
    <3> DEFINE k == i + 1
    <3>1. k \in 1 .. n /\ k - 1 = i /\ covered[i] \in Nat
      BY <1>1, <2>2
    <3> HIDE DEF k
    <3>2. covered[k] = Cover(k, covered[i])
      BY <1>9, <3>1
    <3>3. covered[k] \in Nat
      BY <1>3, <3>1, <3>2
    <3> QED
      BY <3>3 DEF k
  <2> QED
    BY <2>1, <2>2, SetInduction
<1>11. \A i \in 0 .. n : covered[i] \in Nat
  BY <1>10
<1>12. n \in 0 .. n /\ \A i \in 1 .. n : i - 1 \in 0 .. n
  BY <1>1
<1> QED
  BY <1>2, <1>9, <1>11, <1>12 DEF n

\* The least ends of CoveredTo do not exceed the ends where the frames stand.
LEMMA WholeFramesFit == LineInv => WholeFramesOnly
<1> SUFFICES ASSUME LineInv PROVE WholeFramesOnly
  OBVIOUS
<1> DEFINE n == Len(log)
<1>1. /\ n \in Nat /\ Len(line) \in Nat /\ line \in Seq(Bytes)
      /\ \A i \in 1 .. n : Wire(log[i]) \in Seq(Bytes) /\ Len(Wire(log[i])) \in Nat
  <2>1. n \in Nat /\ Len(line) \in Nat /\ \A i \in 1 .. n : log[i] \in Entries
    BY LenProperties, ElementOfSeq DEF LineInv, HasParsed
  <2> QED
    BY <2>1, EntryBytes DEF LineInv, HasParsed
<1>2. PICK e : /\ \A i \in 0 .. n : e[i] \in Nat
               /\ e[0] = 0 /\ e[n] <= Len(line) - Len(Prefix(parser))
               /\ \A i \in 1 .. n : EndsAt(e, line, log, i)
  BY DEF LineInv, HasParsed, Placed
<1>3. Len(Prefix(parser)) \in Nat
  BY PrefixShape, LenProperties DEF LineInv, HasParsed
<1>4. /\ CoveredTo[0] = 0 /\ CoveredTo[n] \in Nat
      /\ \A i \in 1 .. n : CoveredTo[i - 1] \in Nat /\ CoveredTo[i] = Cover(i, CoveredTo[i - 1])
  BY CoverLaw
<1> HIDE DEF n
<1>5. ASSUME NEW i \in 1 .. n, CoveredTo[i - 1] <= e[i - 1] PROVE CoveredTo[i] <= e[i]
  <2> DEFINE c == CoveredTo[i - 1]
             w == Wire(log[i])
  <2>1. c \in Nat /\ e[i - 1] \in Nat /\ e[i] \in Nat /\ CoveredTo[i] = Cover(i, c)
    <3>1. i - 1 \in 0 .. n /\ i \in 0 .. n
      BY <1>1
    <3> QED
      BY <1>2, <1>4, <3>1
  <2>2. EndsAt(e, line, log, i)
    BY <1>2
  <2>3. CASE ~IsFrame(log[i])
    BY <1>5, <2>1, <2>2, <2>3 DEF EndsAt, Cover
  <2>4. CASE IsFrame(log[i])
    <3>1. w \in Seq(Bytes) /\ Len(w) \in Nat
      BY <1>1
    <3>2. e[i - 1] + Len(w) <= e[i] /\ Carries(line, e[i] - Len(w), w)
      BY <2>2, <2>4 DEF EndsAt
    <3> HIDE DEF w
    <3>3. e[i] - Len(w) \in Nat /\ e[i] - Len(w) + Len(w) = e[i]
      BY <2>1, <3>1, <3>2
    <3>4. e[i] <= Len(line)
      BY <3>2, <3>3 DEF Carries
    <3>5. SubSeq(line, e[i] - Len(w) + 1, e[i]) = w
      BY <1>1, <3>1, <3>2, <3>3, CarriedSlice
    <3>6. e[i] \in c + Len(w) .. Len(line)
      BY <1>1, <1>5, <2>1, <3>1, <3>2, <3>4
    <3>7. e[i] \in Stretches(i, c)
      BY <3>5, <3>6 DEF Stretches, w
    <3>8. Stretches(i, c) \in SUBSET Nat
      BY <1>1, <2>1, <3>1 DEF Stretches, w
    <3>9. Min(Stretches(i, c)) <= e[i]
      BY <3>7, <3>8, LeastOf
    <3> QED
      BY <2>1, <2>4, <3>7, <3>9 DEF Cover
  <2> QED
    BY <2>3, <2>4
<1> DEFINE Below == {i \in Nat : i <= n => CoveredTo[i] <= e[i]}
<1>6. Nat \subseteq Below
  <2>1. 0 \in Below
    BY <1>2, <1>4
  <2>2. ASSUME NEW i \in Nat, i \in Below PROVE i + 1 \in Below
    <3> SUFFICES ASSUME i + 1 <= n PROVE CoveredTo[i + 1] <= e[i + 1]
      OBVIOUS
    <3> DEFINE k == i + 1
    <3>1. k \in 1 .. n /\ k - 1 = i /\ CoveredTo[i] <= e[i]
      BY <1>1, <2>2
    <3> HIDE DEF k
    <3>2. CoveredTo[k] <= e[k]
      BY <1>5, <3>1
    <3> QED
      BY <3>2 DEF k
  <2> QED
    BY <2>1, <2>2, SetInduction
<1>7. CoveredTo[n] <= e[n] /\ e[n] \in Nat
  BY <1>1, <1>2, <1>6
<1>8. CoveredTo[n] <= Len(line)
  BY <1>1, <1>2, <1>3, <1>4, <1>7
<1> QED
  BY <1>8 DEF WholeFramesOnly, n

----------------------------------------------------------------------------
(* The host's hunt.                                                        *)

\* The first sync word decides what parse_frame says.
LEMMA FirstSync ==
  ASSUME NEW l \in Seq(Bytes), NEW s \in Nat, s + 2 <= Len(l), SyncAt(l, s), NoSyncBefore(l, s)
  PROVE  ParseFrame(l, 0) = FrameAt(l, s)
<1> DEFINE syncs == {i \in 0 .. Len(l) - 2 : SyncAt(l, i)}
<1>1. Len(l) \in Nat
  BY LenProperties
<1>2. s \in syncs /\ syncs \in SUBSET Nat
  BY <1>1
<1>3. \A i \in syncs : ~(i < s)
  BY DEF NoSyncBefore
<1> HIDE DEF syncs
<1>4. Min(syncs) \in syncs /\ Min(syncs) <= s
  BY <1>2, LeastOf
<1>5. \A x, y \in Nat : x <= y /\ ~(x < y) => x = y
  OBVIOUS
<1>6. Min(syncs) = s
  BY <1>2, <1>3, <1>4, <1>5
<1>7. ParseFrame(l, 0) = IF syncs = {} THEN FrameError("no sync") ELSE FrameAt(l, Min(syncs))
  BY Zenon DEF ParseFrame, syncs
<1> QED
  BY <1>2, <1>6, <1>7

\* Without one there is nothing.
LEMMA NoSync ==
  ASSUME NEW l, NoSyncBefore(l, Len(l)), Len(l) \in Nat
  PROVE  ParseFrame(l, 0) = FrameError("no sync")
<1> DEFINE syncs == {i \in 0 .. Len(l) - 2 : SyncAt(l, i)}
<1>1. syncs = {}
  BY DEF NoSyncBefore
<1>2. ParseFrame(l, 0) = IF syncs = {} THEN FrameError("no sync") ELSE FrameAt(l, Min(syncs))
  BY Zenon DEF ParseFrame
<1> QED
  BY <1>1, <1>2, Zenon

\* A slice of a slice.
LEMMA InnerSlice ==
  ASSUME NEW l \in Seq(Bytes), NEW i \in 1 .. Len(l), NEW end \in Nat, end <= Len(l), i + 1 <= end
  PROVE  /\ SubSeq(l, i, end)[1] = l[i]
         /\ SubSeq(SubSeq(l, i, end), 3, end - i + 1) = SubSeq(l, i + 2, end)
         /\ SubSeq(l, i + 2, end) \in Seq(Bytes) /\ Len(SubSeq(l, i + 2, end)) = end - i - 1
<1> DEFINE x == SubSeq(l, i, end)
           y == SubSeq(l, i + 2, end)
           z == SubSeq(x, 3, end - i + 1)
<1>1. Len(l) \in Nat /\ i \in Nat
  BY LenProperties
<1>2. \A j \in i .. end : l[j] \in Bytes
  <2>1. \A j \in i .. end : j \in 1 .. Len(l)
    BY <1>1
  <2> QED
    BY <2>1, ElementOfSeq
<1> HIDE DEF x
<1>3. /\ x \in Seq(Bytes) /\ Len(x) = IF i <= end THEN end - i + 1 ELSE 0
      /\ \A j \in 1 .. end - i + 1 : x[j] = l[i + j - 1]
  BY <1>1, <1>2, SubSeqProperties DEF x
<1>4. i <= end /\ 1 \in 1 .. end - i + 1 /\ i + 1 - 1 = i
  BY <1>1
<1>5. \A j \in i + 2 .. end : l[j] \in Bytes
  BY <1>1, <1>2
<1>6. /\ y \in Seq(Bytes) /\ Len(y) = IF i + 2 <= end THEN end - (i + 2) + 1 ELSE 0
      /\ \A j \in 1 .. end - (i + 2) + 1 : y[j] = l[i + 2 + j - 1]
  BY <1>1, <1>5, SubSeqProperties
<1>7. Len(y) = end - i - 1
  BY <1>1, <1>6
<1> HIDE DEF x, y
<1>8. x[1] = l[i]
  BY <1>3, <1>4
<1>9. \A j \in 3 .. end - i + 1 : x[j] \in Bytes
  <2>1. \A j \in 3 .. end - i + 1 : j \in 1 .. Len(x)
    BY <1>1, <1>3, <1>4
  <2> QED
    BY <1>3, <2>1, ElementOfSeq
<1>10. /\ z \in Seq(Bytes) /\ Len(z) = IF 3 <= end - i + 1 THEN end - i + 1 - 3 + 1 ELSE 0
       /\ \A j \in 1 .. end - i + 1 - 3 + 1 : z[j] = x[3 + j - 1]
  BY <1>1, <1>9, SubSeqProperties
<1>11. Len(z) = end - i - 1
  BY <1>1, <1>10
<1> HIDE DEF z
<1>12. ASSUME NEW j \in 1 .. Len(z) PROVE z[j] = y[j]
  <2>1. /\ j \in 1 .. end - i + 1 - 3 + 1 /\ j \in 1 .. end - (i + 2) + 1
        /\ 3 + j - 1 \in 1 .. end - i + 1 /\ i + (3 + j - 1) - 1 = i + 2 + j - 1
    BY <1>1, <1>11
  <2>2. z[j] = x[3 + j - 1]
    BY <1>10, <2>1
  <2>3. x[3 + j - 1] = l[i + (3 + j - 1) - 1]
    BY <1>3, <2>1
  <2>4. y[j] = l[i + 2 + j - 1]
    BY <1>6, <2>1
  <2> QED
    BY <2>1, <2>2, <2>3, <2>4
<1>13. z = y
  BY <1>6, <1>7, <1>10, <1>11, <1>12, SeqEqual
<1> QED
  BY <1>6, <1>7, <1>8, <1>13 DEF x, y, z

\* What stands at a sync word followed by a length, the frame ending at end: a
\* frame cut off, a frame with a bad CRC or a frame.
Stands(l, s, end) ==
  /\ end + 1 > Len(l) => FrameAt(l, s) = FrameError("truncated")
  /\ end + 1 <= Len(l) /\ Crc(SubSeq(l, s + 3, end)) # l[end + 1] =>
       FrameAt(l, s) = FrameError("crc")
  /\ end + 1 <= Len(l) /\ Crc(SubSeq(l, s + 3, end)) = l[end + 1] =>
       /\ FrameAt(l, s) = Parsed([cmd |-> l[s + 3], payload |-> SubSeq(l, s + 5, end)], end + 1)
       /\ Len(SubSeq(l, s + 5, end)) = l[s + 4]

\* One of the three stands there.
LEMMA FrameThere ==
  ASSUME NEW l \in Seq(Bytes), NEW s \in Nat, s + 4 <= Len(l),
         NEW end, end = s + 4 + l[s + 4]
  PROVE  l[s + 4] \in Nat /\ end \in Nat /\ Stands(l, s, end)
<1> DEFINE n == Len(l)
           plen == l[s + 4]
           body == SubSeq(l, s + 3, s + 4 + plen)
<1>1. n \in Nat /\ plen \in Nat
  <2>1. n \in Nat /\ s + 4 \in 1 .. n
    BY LenProperties
  <2>2. plen \in Bytes
    BY <2>1, ElementOfSeq
  <2> QED
    BY <2>1, <2>2, SyncBytes
<1>2. FrameAt(l, s) = IF s + 4 > n THEN FrameError("truncated")
                      ELSE IF s + 4 + plen + 1 > n THEN FrameError("truncated")
                      ELSE IF Crc(body) # l[s + 4 + plen + 1] THEN FrameError("crc")
                      ELSE Parsed([cmd |-> body[1], payload |-> SubSeq(body, 3, 2 + plen)],
                                  s + 4 + plen + 1)
  BY Zenon DEF FrameAt
<1>3. end = s + 4 + plen
  OBVIOUS
<1>4. ASSUME end + 1 <= n
      PROVE  /\ body[1] = l[s + 3] /\ SubSeq(body, 3, 2 + plen) = SubSeq(l, s + 5, end)
             /\ Len(SubSeq(l, s + 5, end)) = plen
  <2> HIDE DEF plen
  <2>1. /\ s + 3 \in 1 .. Len(l) /\ end \in Nat /\ end <= Len(l) /\ s + 3 + 1 <= end
        /\ end - (s + 3) + 1 = 2 + plen /\ end - (s + 3) - 1 = plen /\ s + 3 + 2 = s + 5
    BY <1>1, <1>3, <1>4
  <2> DEFINE i == s + 3
  <2>2. i \in 1 .. Len(l) /\ i + 1 <= end
    BY <2>1
  <2> HIDE DEF i
  <2>3. /\ SubSeq(l, i, end)[1] = l[i]
        /\ SubSeq(SubSeq(l, i, end), 3, end - i + 1) = SubSeq(l, i + 2, end)
        /\ Len(SubSeq(l, i + 2, end)) = end - i - 1
    BY <2>1, <2>2, InnerSlice
  <2> QED
    BY <1>3, <2>1, <2>3 DEF i
<1> HIDE DEF n, plen, body
<1>5. ~(s + 4 > n) /\ end \in Nat
  BY <1>1, <1>3 DEF n
<1>6. CASE end + 1 > n
  <2>1. FrameAt(l, s) = FrameError("truncated") /\ ~(end + 1 <= n)
    BY <1>1, <1>2, <1>3, <1>5, <1>6
  <2> QED
    BY <1>1, <1>5, <2>1 DEF Stands, n, plen
<1>7. CASE ~(end + 1 > n)
  <2>1. end + 1 <= n
    BY <1>1, <1>5, <1>7
  <2>2. FrameAt(l, s) = IF Crc(body) # l[end + 1] THEN FrameError("crc")
                        ELSE Parsed([cmd |-> body[1], payload |-> SubSeq(body, 3, 2 + plen)], end + 1)
    BY <1>2, <1>3, <1>5, <1>7, Zenon
  <2>3. body = SubSeq(l, s + 3, end)
    BY <1>3 DEF body
  <2>4. FrameAt(l, s) = IF Crc(SubSeq(l, s + 3, end)) # l[end + 1] THEN FrameError("crc")
                        ELSE Parsed([cmd |-> l[s + 3], payload |-> SubSeq(l, s + 5, end)], end + 1)
    BY <1>4, <2>1, <2>2, <2>3, Zenon
  <2> QED
    BY <1>1, <1>4, <1>5, <1>7, <2>1, <2>4, Zenon DEF Stands, n, plen
<1> QED
  BY <1>6, <1>7

\* What is said of an answer.
LEMMA Answers ==
  /\ \A why : FrameError(why).ok = FALSE /\ FrameError(why).why = why
  /\ \A f, n : Parsed(f, n).ok = TRUE /\ Parsed(f, n).frame = f
  /\ FrameError("truncated").why # "crc" /\ FrameError("no sync").why # "crc"
BY Zenon DEF FrameError, Parsed

\* The device has dispatched nothing: the host has found nothing.
LEMMA HuntWaits ==
  ASSUME LineInv, log = <<>>
  PROVE  ParseFrame(line, 0) \in {FrameError("no sync"), FrameError("truncated")}
<1> DEFINE pre == Prefix(parser)
           k == Len(line) - Len(pre)
           body == parser.body
<1>1. /\ line \in Seq(Bytes) /\ ParserOK(parser) /\ Len(line) \in Nat
      /\ Len(body) \in Nat /\ body \in Seq(Bytes)
  BY LenProperties DEF LineInv, HasParsed, ParserOK
<1>2. NoSyncBefore(line, IF parser.st \in {"HUNT", "SYNC1"} THEN Len(line) ELSE k)
  BY DEF LineInv, HasParsed, FirstFrame
<1>3. Len(pre) <= Len(line) /\ Carries(line, k, pre)
  BY DEF LineInv, HasParsed, Trails
<1>4. CASE parser.st \in {"HUNT", "SYNC1"}
  BY <1>1, <1>2, <1>4, NoSync, Zenon
<1>5. CASE parser.st \notin {"HUNT", "SYNC1"}
  <2>1. /\ Len(pre) = 2 + Len(body) /\ pre[1] = SYNC0 /\ pre[2] = SYNC1
        /\ \A i \in 1 .. Len(body) : pre[2 + i] = body[i]
    BY <1>1, <1>5, PrefixShape
  <2>2. NoSyncBefore(line, k)
    BY <1>2, <1>5, Zenon
  <2>3. k \in Nat /\ k + 2 <= Len(line) /\ Len(line) = k + 2 + Len(body)
    BY <1>1, <1>3, <2>1
  <2>4. \A i \in 1 .. Len(pre) : line[k + i] = pre[i]
    BY <1>3 DEF Carries
  <2>5. Len(body) >= 2 => Len(body) <= body[2] + 2
    <3> SUFFICES ASSUME Len(body) >= 2 PROVE Len(body) <= body[2] + 2
      OBVIOUS
    <3>1. Len(body) # 0 /\ Len(body) # 1 /\ 2 \in 1 .. Len(body)
      <4>1. \A n \in Nat : n >= 2 => n # 0 /\ n # 1 /\ 2 \in 1 .. n
        OBVIOUS
      <4> QED
        BY <1>1, <4>1, Zenon
    <3>2. body # <<>>
      BY <3>1, EmptySeq
    <3>3. parser.st \in {"RPAY", "RCRC"}
      BY <1>1, <1>5, <3>1, <3>2, Zenon DEF ParserOK, ParserStates
    <3>4. Len(body) < body[2] + 2 \/ Len(body) = body[2] + 2
      BY <1>1, <3>3, Zenon DEF ParserOK
    <3>5. body[2] \in Nat
      BY <1>1, <3>1, ElementOfSeq, SyncBytes
    <3> HIDE DEF body
    <3> QED
      BY <1>1, <3>4, <3>5
  <2> HIDE DEF pre, k, body
  <2>6. SyncAt(line, k)
    <3>1. 1 \in 1 .. Len(pre) /\ 2 \in 1 .. Len(pre)
      BY <1>1, <2>1
    <3> QED
      BY <2>1, <2>4, <3>1 DEF SyncAt
  <2>7. ParseFrame(line, 0) = FrameAt(line, k)
    BY <1>1, <2>2, <2>3, <2>6, FirstSync
  <2>8. CASE k + 4 > Len(line)
    <3>1. FrameAt(line, k) = FrameError("truncated")
      BY <2>8 DEF FrameAt
    <3> QED
      BY <2>7, <3>1
  <2>9. CASE k + 4 <= Len(line)
    <3>1. Len(body) >= 2 /\ 2 \in 1 .. Len(body) /\ 4 \in 1 .. Len(pre) /\ 2 + 2 = 4
      BY <1>1, <2>1, <2>3, <2>9
    <3>2. line[k + 4] = pre[4] /\ pre[2 + 2] = body[2]
      BY <2>1, <2>4, <3>1
    <3>3. Len(body) <= line[k + 4] + 2
      BY <2>5, <3>1, <3>2
    <3>4. line[k + 4] \in Nat
      BY <1>1, <2>3, <2>9, FrameThere
    <3>5. k + 4 + line[k + 4] + 1 > Len(line)
      BY <1>1, <2>3, <3>3, <3>4
    <3>6. FrameAt(line, k) = FrameError("truncated")
      BY <1>1, <2>3, <2>9, <3>5, FrameThere DEF Stands
    <3> QED
      BY <2>7, <3>6
  <2>10. \A a, b \in Nat : a + 4 > b \/ a + 4 <= b
    OBVIOUS
  <2> QED
    BY <1>1, <2>3, <2>8, <2>9, <2>10, Zenon
<1> QED
  BY <1>4, <1>5

\* The first sync word decides the answer of the host as it decides the first entry.
LEMMA HuntsMeet == LineInv => SameHunt
<1> SUFFICES ASSUME LineInv PROVE SameHunt
  OBVIOUS
<1> DEFINE r == ParseFrame(line, 0)
           d == log[1]
<1>1. CASE log = <<>>
  <2>1. r.why \in {"no sync", "truncated"}
    BY <1>1, HuntWaits, Answers, Zenon
  <2> QED
    BY <1>1, <2>1, Zenon DEF SameHunt
<1>2. CASE log # <<>>
  <2>1. PICK s \in Nat : /\ s + 4 <= Len(line) /\ SyncAt(line, s) /\ NoSyncBefore(line, s)
                         /\ Verdict(line, s, d)
    BY <1>2 DEF LineInv, HasParsed, FirstFrame
  <2>2. line \in Seq(Bytes) /\ Len(line) \in Nat /\ MaxPayload \in Nat
    BY LenProperties, LineAssumption DEF LineInv, HasParsed
  <2>3. r = FrameAt(line, s)
    <3>1. s + 2 <= Len(line)
      BY <2>1, <2>2
    <3> QED
      BY <2>1, <2>2, <3>1, FirstSync
  <2> DEFINE end == s + 4 + line[s + 4]
             payload == SubSeq(line, s + 5, end)
             found == [cmd |-> line[s + 3], payload |-> payload]
  <2>10. found.cmd = line[s + 3] /\ found.payload = payload
    OBVIOUS
  <2>4. /\ line[s + 4] \in Nat /\ end \in Nat
        /\ end + 1 > Len(line) => r = FrameError("truncated")
        /\ end + 1 <= Len(line) /\ Crc(SubSeq(line, s + 3, end)) # line[end + 1] =>
             r = FrameError("crc")
        /\ end + 1 <= Len(line) /\ Crc(SubSeq(line, s + 3, end)) = line[end + 1] =>
             /\ r = Parsed(found, end + 1)
             /\ Len(payload) = line[s + 4]
    <3>1. line[s + 4] \in Nat /\ end \in Nat /\ Stands(line, s, end)
      BY <2>1, <2>2, FrameThere
    <3> QED
      BY <2>3, <3>1, Zenon DEF Stands
  <2>5. \/ /\ ~IsFrame(d) /\ d.nak = "BAD_LEN" /\ line[s + 4] > MaxPayload
        \/ /\ ~IsFrame(d) /\ d.nak = "BAD_CRC" /\ end + 1 <= Len(line)
           /\ Crc(SubSeq(line, s + 3, end)) # line[end + 1]
        \/ /\ IsFrame(d) /\ end + 1 <= Len(line)
           /\ Crc(SubSeq(line, s + 3, end)) = line[end + 1]
           /\ d.cmd = line[s + 3] /\ d.payload = payload
    BY <2>1, Zenon DEF Verdict
  <2>6. end + 1 > Len(line) \/ end + 1 <= Len(line)
    BY <2>2, <2>4
  <2> HIDE DEF r, d, end, payload, found
  <2>7. CASE ~IsFrame(d) /\ d.nak = "BAD_LEN" /\ line[s + 4] > MaxPayload
    <3>1. ASSUME r.ok PROVE Len(r.frame.payload) = line[s + 4]
      <4>1. r # FrameError("truncated") /\ r # FrameError("crc")
        BY <3>1, Answers, Zenon
      <4>2. /\ r = Parsed(found, end + 1)
            /\ Len(payload) = line[s + 4]
        BY <2>4, <2>6, <4>1, Zenon
      <4>3. r.frame = found
        BY <4>2, Answers, Zenon
      <4>4. r.frame.payload = payload
        BY <2>10, <4>3
      <4> QED
        BY <4>2, <4>4, Zenon
    <3>2. r.ok => Len(r.frame.payload) > MaxPayload
      BY <2>7, <3>1, Zenon
    <3> QED
      BY <1>2, <2>7, <3>2, Zenon DEF SameHunt, IsFrame, r, d
  <2>8. CASE /\ ~IsFrame(d) /\ d.nak = "BAD_CRC" /\ end + 1 <= Len(line)
             /\ Crc(SubSeq(line, s + 3, end)) # line[end + 1]
    <3>1. r.why = "crc"
      BY <2>4, <2>8, Answers, Zenon
    <3> QED
      BY <1>2, <2>8, <3>1, Zenon DEF SameHunt, IsFrame, r, d
  <2>9. CASE /\ IsFrame(d) /\ end + 1 <= Len(line)
             /\ Crc(SubSeq(line, s + 3, end)) = line[end + 1]
             /\ d.cmd = line[s + 3] /\ d.payload = payload
    <3>3. r = Parsed(found, end + 1)
      BY <2>4, <2>9, Zenon
    <3>1. r.ok = TRUE /\ r.frame = found
      BY <3>3, Answers, Zenon
    <3>2. r.frame.cmd = d.cmd /\ r.frame.payload = d.payload
      <4>1. r.frame.cmd = line[s + 3] /\ r.frame.payload = payload
        BY <2>10, <3>1
      <4> QED
        BY <2>9, <4>1, Zenon
    <3> QED
      BY <1>2, <2>9, <3>1, <3>2, Zenon DEF SameHunt, IsFrame, r, d
  <2> QED
    BY <2>5, <2>7, <2>8, <2>9, Zenon
<1> QED
  BY <1>1, <1>2

\* More bytes do not change a frame found or refused.
LEMMA AnswerKept ==
  ASSUME NEW l \in Seq(Bytes), NEW t \in Seq(Bytes),
         ParseFrame(l, 0).ok \/ ParseFrame(l, 0).why = "crc"
  PROVE  ParseFrame(l \o t, 0) = ParseFrame(l, 0)
<1> DEFINE m == l \o t
           syncs == {i \in 0 .. Len(l) - 2 : SyncAt(l, i)}
<1>1. /\ m \in Seq(Bytes) /\ Len(m) = Len(l) + Len(t) /\ Len(l) \in Nat /\ Len(t) \in Nat
      /\ \A i \in 1 .. Len(l) : m[i] = l[i]
  <2>1. Len(l) \in Nat /\ Len(t) \in Nat
    BY LenProperties
  <2>2. /\ m \in Seq(Bytes) /\ Len(m) = Len(l) + Len(t)
        /\ \A i \in 1 .. Len(l) + Len(t) : m[i] = IF i <= Len(l) THEN l[i] ELSE t[i - Len(l)]
    BY Joined, Zenon
  <2> HIDE DEF m
  <2> QED
    BY <2>1, <2>2
<1>2. syncs # {} /\ syncs \in SUBSET Nat
  <2>1. CASE syncs = {}
    <3>1. ParseFrame(l, 0) = FrameError("no sync")
      BY <2>1, Zenon DEF ParseFrame
    <3> QED
      BY <3>1, Answers, Zenon
  <2>2. syncs \in SUBSET Nat
    OBVIOUS
  <2> QED
    BY <2>1, <2>2
<1>3. PICK s \in syncs : \A y \in syncs : s <= y
  BY <1>2, LeastNatural
<1>4. s \in Nat /\ s + 2 <= Len(l) /\ SyncAt(l, s)
  BY <1>1, <1>3
<1>5. NoSyncBefore(l, s)
  <2> SUFFICES ASSUME NEW i \in 0 .. Len(l) - 2, i < s, SyncAt(l, i) PROVE FALSE
    BY DEF NoSyncBefore
  <2>1. s <= i
    BY <1>3
  <2> QED
    BY <1>1, <1>4, <2>1
<1> HIDE DEF m, syncs
<1>6. \A i \in 0 .. Len(l) - 2 : SyncAt(m, i) <=> SyncAt(l, i)
  <2> SUFFICES ASSUME NEW i \in 0 .. Len(l) - 2 PROVE SyncAt(m, i) <=> SyncAt(l, i)
    OBVIOUS
  <2>1. i + 1 \in 1 .. Len(l) /\ i + 2 \in 1 .. Len(l)
    BY <1>1
  <2>2. m[i + 1] = l[i + 1] /\ m[i + 2] = l[i + 2]
    BY <1>1, <2>1
  <2> QED
    BY <2>2 DEF SyncAt
<1>7. SyncAt(m, s) /\ NoSyncBefore(m, s) /\ s + 2 <= Len(m)
  <2>1. s \in 0 .. Len(l) - 2 /\ s + 2 <= Len(m)
    BY <1>1, <1>4
  <2>2. \A i \in 0 .. Len(m) - 2 : i < s => i \in 0 .. Len(l) - 2
    BY <1>1, <1>4
  <2> QED
    BY <1>4, <1>5, <1>6, <2>1, <2>2 DEF NoSyncBefore
<1>8. ParseFrame(l, 0) = FrameAt(l, s) /\ ParseFrame(m, 0) = FrameAt(m, s)
  BY <1>1, <1>4, <1>5, <1>7, FirstSync
<1>9. s + 4 <= Len(l)
  <2>1. CASE s + 4 > Len(l)
    <3>1. FrameAt(l, s) = FrameError("truncated")
      BY <2>1 DEF FrameAt
    <3> QED
      BY <1>8, <3>1, Answers, Zenon
  <2> QED
    BY <1>1, <1>4, <2>1
<1> DEFINE end == s + 4 + l[s + 4]
<1>10. /\ end \in Nat
       /\ end + 1 > Len(l) => FrameAt(l, s) = FrameError("truncated")
       /\ end + 1 <= Len(l) /\ Crc(SubSeq(l, s + 3, end)) # l[end + 1] =>
            FrameAt(l, s) = FrameError("crc")
       /\ end + 1 <= Len(l) /\ Crc(SubSeq(l, s + 3, end)) = l[end + 1] =>
            FrameAt(l, s) = Parsed([cmd |-> l[s + 3], payload |-> SubSeq(l, s + 5, end)], end + 1)
  <2>1. end \in Nat /\ Stands(l, s, end)
    BY <1>4, <1>9, FrameThere
  <2> QED
    BY <2>1, Zenon DEF Stands
<1>11. end + 1 <= Len(l)
  <2>1. CASE end + 1 > Len(l)
    BY <1>8, <1>10, <2>1, Answers, Zenon
  <2> QED
    BY <1>1, <1>10, <2>1
<1>12. s + 3 \in 1 .. Len(l) /\ s + 4 \in 1 .. Len(l) /\ s + 5 \in 1 .. Len(l) /\ end + 1 \in 1 .. Len(l)
  <2>1. l[s + 4] \in Nat
    <3>1. s + 4 \in 1 .. Len(l)
      BY <1>1, <1>4, <1>9
    <3> QED
      BY <3>1, ElementOfSeq, SyncBytes
  <2>2. \A a, b, c \in Nat : a + 4 + b + 1 <= c =>
          /\ a + 3 \in 1 .. c /\ a + 4 \in 1 .. c /\ a + 5 \in 1 .. c
          /\ a + 4 + b + 1 \in 1 .. c
    OBVIOUS
  <2>3. s + 4 + l[s + 4] + 1 <= Len(l)
    BY <1>11
  <2> QED
    BY <1>1, <1>4, <2>1, <2>2, <2>3, Zenon
<1> HIDE DEF end
<1>13. /\ m[s + 3] = l[s + 3] /\ m[s + 4] = l[s + 4] /\ m[end + 1] = l[end + 1]
       /\ s + 4 <= Len(m) /\ end = s + 4 + m[s + 4] /\ end + 1 <= Len(m)
  <2>1. m[s + 3] = l[s + 3] /\ m[s + 4] = l[s + 4] /\ m[end + 1] = l[end + 1]
    BY <1>1, <1>12, Zenon
  <2>2. \A a, b, c \in Nat : a <= b => a <= b + c
    OBVIOUS
  <2>3. s + 4 \in Nat /\ end + 1 \in Nat
    BY <1>4, <1>10
  <2>4. s + 4 <= Len(l) + Len(t) /\ end + 1 <= Len(l) + Len(t)
    BY <1>1, <1>9, <1>11, <2>2, <2>3, Zenon
  <2>5. end = s + 4 + l[s + 4]
    BY DEF end
  <2> QED
    BY <1>1, <2>1, <2>4, <2>5, Zenon
<1>14. ASSUME NEW i \in 1 .. Len(l) PROVE SubSeq(m, i, end) = SubSeq(l, i, end)
  <2>1. CASE i <= end
    <3>1. end \in 1 .. Len(l)
      BY <1>1, <1>10, <1>11, <2>1
    <3> QED
      BY <3>1, SubSeqOfConcat1 DEF m
  <2>2. CASE end < i
    BY <1>1, <1>10, <2>2, SubSeqEmpty
  <2> QED
    BY <1>1, <1>10, <2>1, <2>2
<1>15. /\ SubSeq(m, s + 3, end) = SubSeq(l, s + 3, end)
       /\ SubSeq(m, s + 5, end) = SubSeq(l, s + 5, end)
  BY <1>12, <1>14
<1>16. /\ end + 1 <= Len(m) /\ Crc(SubSeq(m, s + 3, end)) # m[end + 1] =>
            FrameAt(m, s) = FrameError("crc")
       /\ end + 1 <= Len(m) /\ Crc(SubSeq(m, s + 3, end)) = m[end + 1] =>
            FrameAt(m, s) = Parsed([cmd |-> m[s + 3], payload |-> SubSeq(m, s + 5, end)], end + 1)
  <2>1. Stands(m, s, end)
    BY <1>1, <1>4, <1>13, FrameThere
  <2> QED
    BY <2>1, Zenon DEF Stands
<1>17. FrameAt(m, s) = FrameAt(l, s)
  <2>1. CASE Crc(SubSeq(l, s + 3, end)) # l[end + 1]
    BY <1>10, <1>11, <1>13, <1>15, <1>16, <2>1, Zenon
  <2>2. CASE Crc(SubSeq(l, s + 3, end)) = l[end + 1]
    BY <1>10, <1>11, <1>13, <1>15, <1>16, <2>2, Zenon
  <2> QED
    BY <2>1, <2>2
<1> QED
  BY <1>8, <1>17 DEF m

\* What a step of a receiver's line adds to it.
Extends == \E t \in Seq(Bytes) : line' = line \o t

\* A byte received extends the line.
LEMMA ReceiveExtends ==
  ASSUME LineInv, NEW b \in Bytes, Receive(b)
  PROVE  Extends
<1>1. line \in Seq(Bytes) /\ line' = Append(line, b) /\ <<b>> \in Seq(Bytes)
  BY DEF LineInv, HasParsed, Receive
<1>2. Append(line, b) = line \o <<b>>
  BY <1>1, AppendIsConcat
<1> QED
  BY <1>1, <1>2 DEF Extends

\* parse_frame's answer, once it is a frame or a CRC error, for every next line.
Settled ==
  LET r == ParseFrame(line, 0)
  IN r.ok \/ r.why = "crc" => ParseFrame(line', 0) = r

\* Bytes that extend the line leave a settled answer.
LEMMA SettledOnExtension == LineInv /\ Extends => Settled
<1> SUFFICES ASSUME LineInv, Extends, ParseFrame(line, 0).ok \/ ParseFrame(line, 0).why = "crc"
             PROVE  ParseFrame(line', 0) = ParseFrame(line, 0)
  BY Zenon DEF Settled
<1>1. PICK t \in Seq(Bytes) : line' = line \o t
  BY DEF Extends
<1>2. line \in Seq(Bytes)
  BY DEF LineInv, HasParsed
<1>3. ParseFrame(line \o t, 0) = ParseFrame(line, 0)
  BY <1>2, AnswerKept
<1> QED
  BY <1>1, <1>3

----------------------------------------------------------------------------
\* WholeFramesOnly, whatever arrives: arbitrary bytes, a request sent over and
\* over, or frames in noise.  The device takes no command that has not
\* arrived as a whole frame, and none twice.
THEOREM OnlyWholeFrames ==
  /\ LineSpec => []WholeFramesOnly
  /\ RetrySpec => []WholeFramesOnly
  /\ TrafficSpec => []WholeFramesOnly
<1>1. LineInv => WholeFramesOnly
  BY WholeFramesFit
<1>2. RetryInv => LineInv
  BY DEF RetryInv
<1> QED
  BY <1>1, <1>2, LineInvariant, RetryInvariant, TrafficInvariant, PTL

\* SameHunt on the same three lines: the host's parse_frame and the device's
\* parser agree about the first frame.
THEOREM HuntsAgree ==
  /\ LineSpec => []SameHunt
  /\ RetrySpec => []SameHunt
  /\ TrafficSpec => []SameHunt
<1>1. LineInv => SameHunt
  BY HuntsMeet
<1>2. RetryInv => LineInv
  BY DEF RetryInv
<1> QED
  BY <1>1, <1>2, LineInvariant, RetryInvariant, TrafficInvariant, PTL

\* AnswerIsStable on the same three lines: a frame found, or refused for its
\* CRC, stays so when more bytes arrive.
THEOREM AnswersAreStable ==
  /\ LineSpec => AnswerIsStable
  /\ RetrySpec => AnswerIsStable
  /\ TrafficSpec => AnswerIsStable
<1>1. LineInv /\ [Noise]_lineVars => [Settled]_lineVars
  BY ReceiveExtends, SettledOnExtension DEF Noise
<1>2. ASSUME RetryInv, [(sentAt = 0 /\ Noise) \/ Repeat]_lineVars PROVE [Settled]_lineVars
  <2>1. LineInv
    BY <1>2 DEF RetryInv
  <2>2. CASE Noise
    BY <2>1, <2>2, ReceiveExtends, SettledOnExtension DEF Noise
  <2>3. CASE Repeat
    <3>1. \E b \in Bytes : Receive(b)
      BY <1>2, <2>3, RepeatTakes DEF RetryInv
    <3> QED
      BY <2>1, <3>1, ReceiveExtends, SettledOnExtension
  <2>4. CASE UNCHANGED lineVars
    BY <2>4
  <2> QED
    BY <1>2, <2>2, <2>3, <2>4
<1>3. ASSUME LineInv, [Hiss \/ \E f \in Frames : Send(f)]_lineVars PROVE [Settled]_lineVars
  <2>1. CASE Hiss
    BY <1>3, <2>1, ReceiveExtends, SettledOnExtension DEF Hiss
  <2>2. ASSUME NEW f \in Frames, Send(f) PROVE Settled
    <3>1. Wire(f) \in Seq(Bytes) /\ line' = line \o Wire(f)
      BY <2>2, FrameBytes DEF Send, ReceiveAll
    <3> QED
      BY <1>3, <3>1, SettledOnExtension DEF Extends
  <2> QED
    BY <1>3, <2>1, <2>2
<1>4. (RetryInv => LineInv) /\ (AnswerIsStable <=> [][Settled]_lineVars)
  BY PTL DEF RetryInv, AnswerIsStable, Settled
<1>5. LineSpec => [][Settled]_lineVars
  BY <1>1, LineInvariant, PTL DEF LineSpec
<1>6. RetrySpec => [][Settled]_lineVars
  BY <1>2, RetryInvariant, PTL DEF RetrySpec
<1>7. TrafficSpec => [][Settled]_lineVars
  BY <1>3, TrafficInvariant, PTL DEF TrafficSpec
<1> QED
  BY <1>4, <1>5, <1>6, <1>7, PTL

----------------------------------------------------------------------------
(* A frame that arrives at a parser that hunts.                            *)

\* u is s, of length m, and then t, of length n.
IsJoin(u, s, t, m, n) ==
  /\ u \in Seq(Bytes) /\ Len(u) = m + n
  /\ \A i \in 1 .. m : u[i] = s[i]
  /\ \A i \in 1 .. n : u[m + i] = t[i]

\* Where the elements of two sequences are in their concatenation.
LEMMA JoinedAt ==
  \A s, t \in Seq(Bytes), m, n \in Nat : Len(s) = m /\ Len(t) = n => IsJoin(s \o t, s, t, m, n)
<1> SUFFICES ASSUME NEW s \in Seq(Bytes), NEW t \in Seq(Bytes), NEW m \in Nat, NEW n \in Nat,
                    Len(s) = m, Len(t) = n
             PROVE  IsJoin(s \o t, s, t, m, n)
  BY Zenon
<1> DEFINE u == s \o t
<1>1. /\ u \in Seq(Bytes) /\ Len(u) = Len(s) + Len(t)
      /\ \A i \in 1 .. Len(s) + Len(t) : u[i] = IF i <= Len(s) THEN s[i] ELSE t[i - Len(s)]
  BY Joined, Zenon
<1> HIDE DEF u
<1>2. /\ u \in Seq(Bytes) /\ Len(u) = m + n
      /\ \A i \in 1 .. m + n : u[i] = IF i <= m THEN s[i] ELSE t[i - m]
  BY <1>1
<1>3. ASSUME NEW i \in 1 .. m PROVE u[i] = s[i]
  <2>1. i \in 1 .. m + n /\ i <= m
    OBVIOUS
  <2> QED
    BY <1>2, <2>1
<1>4. ASSUME NEW i \in 1 .. n PROVE u[m + i] = t[i]
  <2>1. m + i \in 1 .. m + n /\ ~(m + i <= m) /\ m + i - m = i
    OBVIOUS
  <2> QED
    BY <1>2, <2>1
<1> QED
  BY <1>2, <1>3, <1>4 DEF u, IsJoin

\* The bytes w of a frame f, with the body the CRC is about and n bytes of payload.
FrameParts(f, w, body, n) ==
  /\ w \in Seq(Bytes) /\ Len(w) = 5 + n /\ n \in Nat /\ n = Len(f.payload)
  /\ body \in Seq(Bytes) /\ Len(body) = 2 + n
  /\ body[1] = f.cmd /\ body[2] = n
  /\ \A i \in 1 .. n : body[2 + i] = f.payload[i]
  /\ w[1] = SYNC0 /\ w[2] = SYNC1
  /\ \A i \in 1 .. 2 + n : w[2 + i] = body[i]
  /\ w[3] = f.cmd /\ w[4] = n /\ w[5 + n] = Crc(body)

\* A frame on the wire has these parts.
LEMMA WireParts ==
  ASSUME NEW f, Sendable(f)
  PROVE  \E body, n : FrameParts(f, Wire(f), body, n)
<1> DEFINE w == Wire(f)
           body == <<f.cmd, Len(f.payload)>> \o f.payload
<1> DEFINE head == <<SYNC0, SYNC1>>
           start == <<f.cmd, Len(f.payload)>>
           end == <<Crc(body)>>
           n == Len(f.payload)
<1>16. n = Len(f.payload)
  OBVIOUS
<1>1. head \in Seq(Bytes) /\ Len(head) = 2 /\ head[1] = SYNC0 /\ head[2] = SYNC1
  BY SyncBytes
<1>2. /\ start \in Seq(Bytes) /\ Len(start) = 2 /\ start[1] = f.cmd /\ start[2] = n
      /\ f.payload \in Seq(Bytes) /\ n \in Nat
  BY LenProperties DEF Sendable
<1>3. w = (head \o body) \o end
  BY DEF Wire, BuildFrame
<1>4. body = start \o f.payload
  OBVIOUS
<1> HIDE DEF head, start, n, body, w
<1>5. /\ body \in Seq(Bytes) /\ Len(body) = 2 + n
      /\ \A i \in 1 .. 2 : body[i] = start[i]
      /\ \A i \in 1 .. n : body[2 + i] = f.payload[i]
  <2>1. 2 \in Nat /\ Len(f.payload) = n
    BY DEF n
  <2>2. IsJoin(body, start, f.payload, 2, n)
    BY <1>2, <1>4, <2>1, JoinedAt, Zenon
  <2> QED
    BY <2>2 DEF IsJoin
<1>6. end \in Seq(Bytes) /\ Len(end) = 1 /\ end[1] = Crc(body)
  <2>1. Crc(body) \in Bytes
    BY <1>5, CrcIsByte
  <2> QED
    BY <2>1
<1> HIDE DEF end
<1> DEFINE h == head \o body
<1>7. /\ h \in Seq(Bytes) /\ Len(h) = 2 + (2 + n)
      /\ \A i \in 1 .. 2 : h[i] = head[i]
      /\ \A i \in 1 .. 2 + n : h[2 + i] = body[i]
  <2>1. 2 + n \in Nat
    BY <1>2
  <2> QED
    <3>1. 2 \in Nat
      OBVIOUS
    <3>2. IsJoin(h, head, body, 2, 2 + n)
      BY <1>1, <1>5, <2>1, <3>1, JoinedAt, Zenon
    <3> HIDE DEF h
    <3> QED
      BY <3>2 DEF IsJoin
<1> HIDE DEF h
<1>8. w = h \o end
  BY <1>3 DEF h
<1> DEFINE m == 2 + (2 + n)
<1>9. /\ w \in Seq(Bytes) /\ Len(w) = m + 1
      /\ \A i \in 1 .. m : w[i] = h[i]
      /\ w[m + 1] = Crc(body)
  <2>1. m \in Nat /\ 1 \in 1 .. 1
    BY <1>2
  <2> HIDE DEF m
  <2>2. /\ h \o end \in Seq(Bytes) /\ Len(h \o end) = m + 1
        /\ \A i \in 1 .. m : (h \o end)[i] = h[i]
        /\ \A i \in 1 .. 1 : (h \o end)[m + i] = end[i]
    <3>1. Len(h) = m
      BY <1>7 DEF m
    <3> QED
      <4>1. 1 \in Nat
        OBVIOUS
      <4>2. IsJoin(h \o end, h, end, m, 1)
        BY <1>6, <1>7, <2>1, <3>1, <4>1, JoinedAt, Zenon
      <4> QED
        BY <4>2 DEF IsJoin
  <2> QED
    BY <1>6, <1>8, <2>1, <2>2
<1>10. m + 1 = 5 + n /\ 1 .. 2 \subseteq 1 .. m /\ Len(w) = 5 + n
       /\ \A i \in 1 .. 2 + n : 2 + i \in 1 .. m
  BY <1>2, <1>9
<1> HIDE DEF m
<1>11. w[Len(w)] = Crc(body)
  BY <1>9
<1>12. ASSUME NEW i \in 1 .. 2 + n PROVE w[2 + i] = body[i]
  BY <1>7, <1>9, <1>10
<1>13. body[1] = f.cmd /\ body[2] = n
  BY <1>2, <1>5
<1>14. w[1] = SYNC0 /\ w[2] = SYNC1
  <2>1. 1 \in 1 .. 2 /\ 2 \in 1 .. 2
    OBVIOUS
  <2>2. w[1] = h[1] /\ w[2] = h[2]
    BY <1>9, <1>10, <2>1
  <2> QED
    BY <1>1, <1>7, <2>1, <2>2
<1>15. w[3] = f.cmd /\ w[4] = n
  <2>1. 1 \in 1 .. 2 + n /\ 2 \in 1 .. 2 + n /\ 2 + 1 = 3 /\ 2 + 2 = 4
    BY <1>2
  <2>2. w[2 + 1] = body[1] /\ w[2 + 2] = body[2]
    BY <1>12, <2>1
  <2> QED
    BY <1>13, <2>1, <2>2
<1>17. FrameParts(f, w, body, n)
  BY <1>2, <1>5, <1>9, <1>10, <1>11, <1>12, <1>13, <1>14, <1>15, <1>16 DEF FrameParts
<1> QED
  BY <1>17 DEF w

\* The parser holds the first k bytes of w.
Holds(p, w, k) == Len(Prefix(p)) = k /\ \A i \in 1 .. k : Prefix(p)[i] = w[i]

\* p becomes q with a byte of the frame w of f: q holds k bytes of it, ...
Continues(q, w, k) == k < Len(w) /\ Holds(q, w, k) /\ q.dispatched = <<>>

\* ... or has taken it and hunts.
Finishes(p, q, f, w) ==
  LET d == Take(p.body)[1] IN
  /\ q.st = "HUNT" /\ q.dispatched = <<d>> /\ d \in Entries
  /\ IsFrame(d) /\ Wire(d) = w /\ d.cmd = f.cmd /\ d.payload = f.payload

\* The next byte of a frame, where the parser holds the ones before: it holds
\* one more, or takes the frame with its last.
LEMMA FrameStep ==
  ASSUME NEW f, Sendable(f), Len(f.payload) <= MaxPayload, NEW w, w = Wire(f),
         NEW p, ParserOK(p), NEW k \in 1 .. Len(w) - 1, Holds(p, w, k),
         NEW q, q = ParserStep(p, w[k + 1])
  PROVE  /\ ParserOK(q)
         /\ Continues(q, w, k + 1) \/ (k + 1 = Len(w) /\ Finishes(p, q, f, w))
<1> DEFINE b == w[k + 1]
<1>12. PICK body, n : FrameParts(f, w, body, n)
  BY WireParts
<1>1. /\ w \in Seq(Bytes) /\ Len(w) = 5 + n /\ n \in Nat /\ n = Len(f.payload)
      /\ body \in Seq(Bytes) /\ Len(body) = 2 + n
      /\ body[1] = f.cmd /\ body[2] = n /\ \A i \in 1 .. n : body[2 + i] = f.payload[i]
      /\ w[1] = SYNC0 /\ w[2] = SYNC1
      /\ \A i \in 1 .. Len(body) : w[2 + i] = body[i]
      /\ w[3] = f.cmd /\ w[4] = n /\ w[Len(w)] = Crc(body)
  BY <1>12 DEF FrameParts
<1>2. k \in Nat /\ k + 1 \in 1 .. Len(w)
  BY <1>1
<1>3. b \in Bytes
  BY <1>1, <1>2, ElementOfSeq
<1>4. /\ ParserOK(q)
      /\ \/ Grows(p, q, b) \/ Begins(p, q, b) \/ Waits(p, q, b)
         \/ Refuses(p, q, b) \/ Ends(p, q, b)
  BY <1>3, StepCases
<1>5. /\ Prefix(p) \in Seq(Bytes) /\ Len(Prefix(p)) = k
      /\ \A i \in 1 .. k : Prefix(p)[i] = w[i]
      /\ p.body \in Seq(Bytes) /\ Len(p.body) \in Nat
  BY PrefixShape, LenProperties DEF Holds, ParserOK
<1>6. p.st # "HUNT" /\ (p.st = "SYNC1" => k = 1)
      /\ (p.st \notin {"HUNT", "SYNC1"} => k = 2 + Len(p.body))
      /\ (p.st \notin {"HUNT", "SYNC1"} => \A i \in 1 .. Len(p.body) : p.body[i] = w[2 + i])
  <2>1. /\ p.st = "HUNT" => Len(Prefix(p)) = 0
        /\ p.st = "SYNC1" => Len(Prefix(p)) = 1
        /\ p.st \notin {"HUNT", "SYNC1"} =>
             /\ Len(Prefix(p)) = 2 + Len(p.body)
             /\ \A i \in 1 .. Len(p.body) : Prefix(p)[2 + i] = p.body[i]
    BY PrefixShape
  <2>2. p.st # "HUNT"
    BY <1>5, <2>1
  <2>3. ASSUME p.st \notin {"HUNT", "SYNC1"}
        PROVE  \A i \in 1 .. Len(p.body) : p.body[i] = w[2 + i]
    <3>1. \A i \in 1 .. Len(p.body) : 2 + i \in 1 .. k
      BY <1>5, <2>1, <2>3
    <3> QED
      BY <1>5, <2>1, <2>3, <3>1
  <2> QED
    BY <1>5, <2>1, <2>2, <2>3
<1>7. p.st = "SYNC1" => b = SYNC1
  BY <1>1, <1>6
<1>8. CASE Grows(p, q, b)
  <2>1. /\ q.dispatched = <<>> /\ Prefix(q) = Append(Prefix(p), b) /\ q.st \notin {"HUNT", "SYNC1"}
    BY <1>8 DEF Grows
  <2>2. /\ Len(Prefix(q)) = k + 1 /\ Prefix(q)[k + 1] = b
        /\ \A i \in 1 .. k : Prefix(q)[i] = Prefix(p)[i]
    BY <1>3, <1>5, <2>1, Added
  <2>3. Holds(q, w, k + 1)
    <3>1. \A i \in 1 .. k + 1 : i = k + 1 \/ i \in 1 .. k
      BY <1>2
    <3> QED
      BY <1>5, <2>2, <3>1 DEF Holds
  <2>4. k + 1 < Len(w)
    <3>1. /\ q.body \in Seq(Bytes) /\ Len(q.body) = k - 1 /\ q.st \in ParserStates
          /\ \A i \in 1 .. Len(q.body) : Prefix(q)[2 + i] = q.body[i]
      <4>1. Len(Prefix(q)) = 2 + Len(q.body) /\ \A i \in 1 .. Len(q.body) : Prefix(q)[2 + i] = q.body[i]
        BY <1>4, <2>1, PrefixShape
      <4>2. q.body \in Seq(Bytes) /\ Len(q.body) \in Nat /\ q.st \in ParserStates
        BY <1>4, LenProperties DEF ParserOK
      <4>3. \A x, y \in Nat : y = 2 + x /\ y = k + 1 => x = k - 1
        BY <1>2
      <4>4. Len(q.body) = k - 1
        <5>1. Len(Prefix(q)) = k + 1 /\ k + 1 \in Nat
          BY <1>2, <2>2
        <5> QED
          BY <4>1, <4>2, <4>3, <5>1
      <4> QED
        BY <4>1, <4>2, <4>4
    <3>2. CASE q.st \in {"RCMD", "RLEN"}
      <4>1. Len(q.body) <= 1
        <5>1. q.st = "RCMD" => Len(q.body) = 0
          BY <1>4 DEF ParserOK
        <5>2. q.st = "RLEN" => Len(q.body) = 1
          BY <1>4 DEF ParserOK
        <5>3. CASE q.st = "RCMD"
          BY <5>1, <5>3
        <5>4. CASE q.st = "RLEN"
          <6>1. Len(q.body) = 1
            BY <5>2, <5>4, Zenon
          <6>2. 1 <= 1
            OBVIOUS
          <6> QED
            BY <6>1, <6>2
        <5> QED
          BY <3>2, <5>3, <5>4
      <4> QED
        BY <1>1, <1>2, <3>1, <4>1
    <3>3. CASE q.st \in {"RPAY", "RCRC"}
      <4>1. Len(q.body) >= 2 /\ (Len(q.body) < q.body[2] + 2 \/ Len(q.body) = q.body[2] + 2)
        BY <1>4, <3>3 DEF ParserOK
      <4>2. q.body[2] = n
        <5>1. 2 \in 1 .. Len(q.body) /\ 4 \in 1 .. k + 1
          BY <1>2, <3>1, <4>1
        <5>2. q.body[2] = Prefix(q)[4] /\ Prefix(q)[4] = w[4]
          <6>1. 2 + 2 = 4
            OBVIOUS
          <6>2. \A i \in 1 .. Len(q.body) : Prefix(q)[2 + i] = q.body[i]
            BY <3>1
          <6>3. q.body[2] = Prefix(q)[2 + 2]
            BY <5>1, <6>2, Zenon
          <6>4. Prefix(q)[4] = w[4]
            BY <2>3, <5>1, Zenon DEF Holds
          <6> QED
            BY <6>1, <6>3, <6>4
        <5> QED
          BY <1>1, <5>2
      <4>3. k - 1 < n + 2 \/ k - 1 = n + 2
        BY <3>1, <4>1, <4>2, Zenon
      <4> QED
        BY <1>1, <1>2, <4>3
    <3>4. q.st \in {"RCMD", "RLEN"} \/ q.st \in {"RPAY", "RCRC"}
      BY <2>1, <3>1 DEF ParserStates
    <3> QED
      BY <3>2, <3>3, <3>4, Zenon
  <2> QED
    BY <1>4, <2>1, <2>3, <2>4 DEF Continues
<1>9. CASE Begins(p, q, b) \/ Waits(p, q, b)
  <2>1. p.st = "SYNC1" /\ b # SYNC1
    BY <1>6, <1>9, SyncBytes DEF Begins, Waits
  <2> QED
    BY <1>7, <2>1
<1>10. CASE Refuses(p, q, b)
  <2>1. p.st = "RLEN" /\ b > MaxPayload
    BY <1>10 DEF Refuses
  <2>2. k = 3
    <3>1. Len(p.body) = 1 /\ p.st \notin {"HUNT", "SYNC1"}
      BY <2>1 DEF ParserOK
    <3> QED
      BY <1>6, <3>1
  <2>3. b = n
    BY <1>1, <2>2
  <2> QED
    BY <1>1, <2>1, <2>3, LineAssumption
<1>11. CASE Ends(p, q, b)
  <2>1. /\ q.dispatched = IF b = Crc(p.body) THEN Take(p.body) ELSE Nak("BAD_CRC")
        /\ q.st = "HUNT" /\ p.st = "RCRC"
    BY <1>11 DEF Ends
  <2>2. Len(p.body) >= 2 /\ Len(p.body) = p.body[2] + 2 /\ k = 2 + Len(p.body)
    BY <1>6, <2>1 DEF ParserOK
  <2>3. p.body[2] = n /\ p.body[1] = f.cmd
    <3>1. 2 \in 1 .. Len(p.body) /\ 1 \in 1 .. Len(p.body) /\ 2 + 2 = 4 /\ 2 + 1 = 3
      BY <1>5, <2>2
    <3>2. p.body[2] = w[2 + 2] /\ p.body[1] = w[2 + 1]
      BY <1>6, <2>1, <3>1
    <3> QED
      BY <1>1, <3>1, <3>2
  <2>4. Len(p.body) = n + 2 /\ k + 1 = Len(w)
    BY <1>1, <1>2, <2>2, <2>3
  <2>5. p.body = body
    <3>2. 1 .. Len(p.body) = 1 .. Len(body) /\ p.st \notin {"HUNT", "SYNC1"}
      BY <1>1, <2>1, <2>4
    <3>1. \A i \in 1 .. Len(p.body) : p.body[i] = body[i]
      BY <1>1, <1>6, <3>2
    <3> QED
      BY <1>1, <1>5, <2>4, <3>1, SeqEqual
  <2>6. b = Crc(p.body)
    BY <1>1, <2>4, <2>5
  <2>7. /\ Take(p.body) = <<Take(p.body)[1]>> /\ Take(p.body)[1] \in Entries
        /\ IsFrame(Take(p.body)[1])
        /\ Take(p.body)[1].cmd = p.body[1]
        /\ Take(p.body)[1].payload = SubSeq(p.body, 3, Len(p.body))
        /\ Wire(Take(p.body)[1]) = Append(Prefix(p), b)
    BY <1>3, <2>1, <2>6, WholeFrame
  <2>8. Append(Prefix(p), b) = w
    <3> DEFINE v == Append(Prefix(p), b)
    <3>1. v \in Seq(Bytes) /\ Len(v) = k + 1 /\ v[k + 1] = b /\ \A i \in 1 .. k : v[i] = Prefix(p)[i]
      BY <1>3, <1>5, Added
    <3> HIDE DEF v
    <3>2. \A i \in 1 .. k + 1 : i = k + 1 \/ i \in 1 .. k
      BY <1>2
    <3>3. \A i \in 1 .. Len(v) : v[i] = w[i]
      BY <1>5, <3>1, <3>2
    <3>4. v = w
      BY <1>1, <2>4, <3>1, <3>3, SeqEqual
    <3> QED
      BY <3>4 DEF v
  <2>9. SubSeq(p.body, 3, Len(p.body)) = f.payload
    <3> DEFINE rest == SubSeq(p.body, 3, Len(p.body))
    <3>1. \A i \in 3 .. Len(p.body) : p.body[i] \in Bytes
      BY <1>5, ElementOfSeq
    <3>2. /\ rest \in Seq(Bytes) /\ Len(rest) = IF 3 <= Len(p.body) THEN Len(p.body) - 3 + 1 ELSE 0
          /\ \A i \in 1 .. Len(p.body) - 3 + 1 : rest[i] = p.body[3 + i - 1]
      BY <1>5, <3>1, SubSeqProperties
    <3> HIDE DEF rest
    <3>3. Len(rest) = n
      BY <1>1, <2>4, <3>2
    <3>4. ASSUME NEW i \in 1 .. n PROVE rest[i] = f.payload[i]
      <4>1. i \in 1 .. Len(p.body) - 3 + 1 /\ 3 + i - 1 = 2 + i
        BY <1>1, <2>4
      <4>2. rest[i] = body[2 + i]
        BY <2>5, <3>2, <4>1
      <4> QED
        BY <1>1, <4>2
    <3>5. f.payload \in Seq(Bytes)
      BY DEF Sendable
    <3>6. rest = f.payload
      <4>1. rest \in Seq(Bytes) /\ Len(rest) = Len(f.payload)
            /\ \A i \in 1 .. Len(rest) : rest[i] = f.payload[i]
        BY <1>1, <3>2, <3>3, <3>4
      <4> HIDE DEF rest
      <4> QED
        BY <3>5, <4>1, SeqEqual
    <3> QED
      BY <3>6 DEF rest
  <2> DEFINE d == Take(p.body)[1]
  <2>10. q.dispatched = <<d>> /\ d \in Entries /\ IsFrame(d)
    BY <2>1, <2>6, <2>7
  <2>11. Wire(d) = w
    BY <2>7, <2>8
  <2>12. d.cmd = f.cmd /\ d.payload = f.payload
    BY <2>3, <2>7, <2>9
  <2>13. Finishes(p, q, f, w)
    BY <2>1, <2>10, <2>11, <2>12, Zenon DEF Finishes
  <2> QED
    BY <1>4, <2>4, <2>13
<1> QED
  BY <1>4, <1>8, <1>9, <1>10, <1>11

----------------------------------------------------------------------------
(* A request sent over and over.                                           *)

\* Byte j of copy d is the one after byte k of copy c, and byte n + 1 in all.
NextPlace(size, c, k, n, d, j) ==
  /\ n + 1 = d * size + j
  /\ \/ k + 1 < size /\ d = c /\ j = k + 1
     \/ k + 1 = size /\ d = c + 1 /\ j = 0
  /\ n + 1 <= 2 * size => d <= 1 \/ j = 0

\* Of the copies of a request of length size n bytes were sent, c copies and k
\* bytes; one more byte is the next of this copy or the first of the next.
LEMMA NextByte ==
  ASSUME NEW size \in Nat \ {0}, NEW c \in 0 .. 2, NEW k \in 0 .. size - 1,
         NEW n, n = c * size + k, n + 1 < 3 * size
  PROVE  \E d \in 0 .. 2, j \in 0 .. size - 1 : NextPlace(size, c, k, n, d, j)
<1>1. CASE k + 1 < size
  <2> DEFINE j == k + 1
  <2>1. j \in 0 .. size - 1 /\ j = k + 1 /\ j # 0
    BY <1>1
  <2> HIDE DEF j
  <2>2. n + 1 = c * size + j
    <3>1. c * size \in Nat
      BY Products
    <3> DEFINE x == c * size
    <3> HIDE DEF x
    <3>2. n = x + k /\ x \in Nat
      BY <3>1 DEF x
    <3> QED
      BY <2>1, <3>2 DEF x
  <2>3. n + 1 <= 2 * size => c <= 1
    <3>1. CASE c = 2
      <4>1. n + 1 = 2 * size + j
        BY <2>2, <3>1
      <4> QED
        BY <2>1, <4>1
    <3> QED
      BY <3>1
  <2>4. c \in 0 .. 2 /\ (n + 1 <= 2 * size => c <= 1 \/ j = 0)
    BY <2>3
  <2>5. \/ k + 1 < size /\ c = c /\ j = k + 1
        \/ k + 1 = size /\ c = c + 1 /\ j = 0
    BY <1>1, <2>1
  <2>6. NextPlace(size, c, k, n, c, j)
    BY <2>2, <2>4, <2>5, Zenon DEF NextPlace
  <2> QED
    BY <2>1, <2>6, Zenon
<1>2. CASE ~(k + 1 < size)
  <2>1. k + 1 = size
    BY <1>2
  <2>2. CASE c = 0
    <3>1. n + 1 = 1 * size + 0 /\ 0 \in 0 .. size - 1 /\ 1 = c + 1 /\ 1 \in 0 .. 2
      BY <2>1, <2>2
    <3>2. NextPlace(size, c, k, n, 1, 0)
      BY <2>1, <3>1 DEF NextPlace
    <3> QED
      BY <3>1, <3>2
  <2>3. CASE c = 1
    <3>1. n + 1 = 2 * size + 0 /\ 0 \in 0 .. size - 1 /\ 2 = c + 1 /\ 2 \in 0 .. 2
      BY <2>1, <2>3
    <3>2. NextPlace(size, c, k, n, 2, 0)
      BY <2>1, <3>1 DEF NextPlace
    <3> QED
      BY <3>1, <3>2
  <2>4. CASE c = 2
    <3>1. n + 1 = 3 * size
      BY <2>1, <2>4
    <3> QED
      BY <3>1
  <2> QED
    BY <2>2, <2>3, <2>4
<1> QED
  BY <1>1, <1>2

\* And which byte of the request it is.
LEMMA ByteOfCopy ==
  ASSUME NEW size \in Nat \ {0}, NEW c \in Nat, NEW k \in 0 .. size - 1, NEW n, n = c * size + k
  PROVE  n \in Nat /\ n % size = k
<1>1. n \in Nat
  <2>1. c * size \in Nat
    BY Products
  <2> QED
    BY <2>1
<1>2. \A a \in Nat, b \in Nat \ {0} : a = b * (a \div b) + (a % b) /\ a \div b \in Nat /\ a % b \in 0 .. b - 1
  BY Z3
<1>3. \A a, b \in Nat : a * b = b * a
  BY Z3
<1> DEFINE d == n \div size
           j == n % size
<1>4. n = size * d + j /\ d \in Nat /\ j \in 0 .. size - 1
  BY <1>1, <1>2
<1> HIDE DEF d, j
<1>5. n = d * size + j
  BY <1>3, <1>4
<1>6. j = k
  BY <1>4, <1>5, OnePlace
<1> QED
  BY <1>1, <1>6 DEF j

\* The parser p when n bytes of the request w were sent, k of them since the
\* last whole copy, number c: it is in a frame that began before them, ...
Stale(p, n) == p.st \notin {"HUNT", "SYNC1"} /\ n <= Len(p.body)

\* ... or hunts for the next copy, at most the third, ...
Hunts(p, w, c, k) ==
  /\ p.st \in {"HUNT", "SYNC1"} /\ (c <= 1 \/ k = 0)
  /\ k # 0 /\ p.st = "SYNC1" => w[k] = SYNC0

\* ... or is in step with this one.
InStep(p, w, k) == k >= 1 /\ Holds(p, w, k)

Underway(p, w, n) ==
  \E c \in 0 .. 2, k \in 0 .. Len(w) - 1 :
    n = c * Len(w) + k /\ (Stale(p, n) \/ Hunts(p, w, c, k) \/ InStep(p, w, k))

\* A frame of the log is w.
Taken(g, w) == \E i \in DOMAIN g : IsFrame(g[i]) /\ Wire(g[i]) = w

\* q has just dispatched the frame w.
Completes(q, w) == \E d \in Entries : q.dispatched = <<d>> /\ IsFrame(d) /\ Wire(d) = w

\* A frame body is no longer than the longest payload allows.
LEMMA BodyBound ==
  ASSUME NEW p, ParserOK(p)
  PROVE  Len(p.body) \in Nat /\ Len(p.body) <= MaxPayload + 2
<1>1. Len(p.body) \in Nat /\ MaxPayload \in Nat
  BY LenProperties, LineAssumption DEF ParserOK
<1>2. CASE p.st \in {"HUNT", "SYNC1", "RCMD"}
  <2>1. p.body = <<>>
    BY <1>2 DEF ParserOK
  <2> QED
    BY <1>1, <2>1
<1>3. CASE p.st = "RLEN"
  <2>1. Len(p.body) = 1
    BY <1>3 DEF ParserOK
  <2> QED
    BY <1>1, <2>1
<1>4. CASE p.st \in {"RPAY", "RCRC"}
  <2>1. Len(p.body) >= 2 /\ p.body[2] <= MaxPayload
        /\ (Len(p.body) < p.body[2] + 2 \/ Len(p.body) = p.body[2] + 2)
    BY <1>4 DEF ParserOK
  <2>2. p.body[2] \in Nat
    <3>1. 2 \in 1 .. Len(p.body) /\ p.body \in Seq(Bytes)
      BY <1>1, <2>1 DEF ParserOK
    <3>2. p.body[2] \in Bytes
      BY <3>1, ElementOfSeq
    <3> QED
      BY <3>2, SyncBytes
  <2> QED
    BY <1>1, <2>1, <2>2
<1> QED
  BY <1>2, <1>3, <1>4 DEF ParserOK, ParserStates

\* The next byte of the request.  A frame begun before it ends within the first
\* two copies; from then on the parser hunts, and finds only beginnings of copies.
LEMMA RetryByte ==
  ASSUME NEW f, Sendable(f), Len(f.payload) <= MaxPayload, NEW w, w = Wire(f),
         MaxPayload + 3 <= 2 * Len(w), SyncWords(w) = {0},
         NEW p, ParserOK(p), NEW c \in 0 .. 2, NEW k \in 0 .. Len(w) - 1,
         NEW n, n = c * Len(w) + k, Stale(p, n) \/ Hunts(p, w, c, k) \/ InStep(p, w, k),
         NEW q, q = ParserStep(p, w[k + 1])
  PROVE  Underway(q, w, n + 1) \/ Completes(q, w)
<1> DEFINE size == Len(w)
           b == w[k + 1]
<1>1. /\ w \in Seq(Bytes) /\ size \in Nat \ {0} /\ size >= 5 /\ w[1] = SYNC0 /\ w[2] = SYNC1
      /\ MaxPayload \in Nat /\ k \in Nat /\ k + 1 \in 1 .. size /\ n \in Nat
  <2>1. PICK body, m : FrameParts(f, w, body, m)
    BY WireParts
  <2>2. /\ w \in Seq(Bytes) /\ size = 5 + m /\ m \in Nat /\ w[1] = SYNC0 /\ w[2] = SYNC1
    BY <2>1 DEF FrameParts
  <2>3. size \in Nat \ {0} /\ size >= 5 /\ k \in Nat /\ k + 1 \in 1 .. size
    BY <2>2
  <2>4. n \in Nat
    <3>1. c * size \in Nat
      BY <2>3, Products
    <3> QED
      BY <2>3, <3>1
  <2> QED
    BY <2>2, <2>3, <2>4, LineAssumption
<1>2. b \in Bytes
  BY <1>1, ElementOfSeq
<1>3. /\ ParserOK(q)
      /\ \/ Grows(p, q, b) \/ Begins(p, q, b) \/ Waits(p, q, b)
         \/ Refuses(p, q, b) \/ Ends(p, q, b)
  BY <1>2, StepCases
<1> HIDE DEF size
<1>4. ASSUME NEW d \in 0 .. 2, NEW j \in 0 .. size - 1, n + 1 = d * size + j,
             Stale(q, n + 1) \/ Hunts(q, w, d, j) \/ InStep(q, w, j)
      PROVE  Underway(q, w, n + 1)
  BY <1>4 DEF Underway, size
<1>5. n = c * size + k /\ k \in 0 .. size - 1
  BY DEF size
<1>6. CASE Stale(p, n)
  <2>1. p.st \notin {"HUNT", "SYNC1"} /\ n <= Len(p.body)
    BY <1>6 DEF Stale
  <2>2. Len(p.body) \in Nat /\ Len(p.body) <= MaxPayload + 2 /\ Len(q.body) \in Nat
    BY <1>3, BodyBound
  <2>3. n + 1 <= 2 * size /\ n + 1 < 3 * size
    <3>1. MaxPayload + 3 <= 2 * size
      BY DEF size
    <3> QED
      BY <1>1, <2>1, <2>2, <3>1
  <2>7. PICK d \in 0 .. 2, j \in 0 .. size - 1 : NextPlace(size, c, k, n, d, j)
    BY <1>1, <1>5, <2>3, NextByte
  <2>4. n + 1 = d * size + j /\ (d <= 1 \/ j = 0)
    BY <2>3, <2>7 DEF NextPlace
  <2>5. CASE Grows(p, q, b)
    <3>1. Prefix(q) = Append(Prefix(p), b) /\ q.st \notin {"HUNT", "SYNC1"}
      BY <2>5 DEF Grows
    <3>2. Prefix(p) \in Seq(Bytes) /\ Len(Prefix(p)) = 2 + Len(p.body) /\ Len(Prefix(q)) = 2 + Len(q.body)
      <4>1. Prefix(p) \in Seq(Bytes) /\ Len(Prefix(p)) = 2 + Len(p.body)
        BY <2>1, PrefixShape, Zenon
      <4>2. Len(Prefix(q)) = 2 + Len(q.body)
        BY <1>3, <3>1, PrefixShape, Zenon
      <4> QED
        BY <4>1, <4>2
    <3>3. Len(Prefix(q)) = Len(Prefix(p)) + 1
      BY <1>2, <3>1, <3>2, Added
    <3>4. n + 1 <= Len(q.body)
      <4>1. \A a, x, y, t, u \in Int : a <= x /\ t = 2 + x /\ u = 2 + y /\ u = t + 1 => a + 1 <= y
        OBVIOUS
      <4>2. Len(Prefix(p)) \in Int /\ Len(Prefix(q)) \in Int
        BY <2>2, <3>2
      <4>3. Len(p.body) \in Int /\ Len(q.body) \in Int /\ n \in Int
        BY <1>1, <2>2
      <4> QED
        BY <2>1, <3>2, <3>3, <4>1, <4>2, <4>3, Zenon
    <3>5. Stale(q, n + 1)
      BY <3>1, <3>4 DEF Stale
    <3> QED
      BY <1>4, <2>4, <3>5
  <2>6. CASE Refuses(p, q, b) \/ Ends(p, q, b)
    <3>1. q.st = "HUNT"
      BY <2>6 DEF Refuses, Ends
    <3>2. Hunts(q, w, d, j)
      BY <2>4, <3>1 DEF Hunts
    <3> QED
      BY <1>4, <2>4, <3>2
  <2>8. CASE Begins(p, q, b) \/ Waits(p, q, b)
    BY <2>1, <2>8 DEF Begins, Waits
  <2> QED
    BY <1>3, <2>5, <2>6, <2>8
<1>7. CASE InStep(p, w, k)
  <2>1. k \in 1 .. size - 1 /\ Holds(p, w, k)
    BY <1>1, <1>7 DEF InStep
  <2>2. k \in 1 .. Len(w) - 1 /\ Holds(p, w, k)
    BY <2>1 DEF size
  <2>5. Continues(q, w, k + 1) \/ Finishes(p, q, f, w)
    BY <2>2, FrameStep
  <2>4. \/ k + 1 < Len(w) /\ Holds(q, w, k + 1)
        \/ Completes(q, w)
    BY <2>5 DEF Continues, Finishes, Completes
  <2>3. CASE k + 1 < size /\ Holds(q, w, k + 1)
    <3> DEFINE j == k + 1
    <3>1. j \in 0 .. size - 1 /\ j >= 1 /\ n + 1 = c * size + j
      <4>1. c * size \in Nat
        BY <1>1, Products
      <4> QED
        BY <1>1, <1>5, <2>3, <4>1
    <3>2. InStep(q, w, j)
      BY <2>3, <3>1 DEF InStep
    <3> HIDE DEF j
    <3> QED
      BY <1>4, <3>1, <3>2
  <2> QED
    BY <2>3, <2>4 DEF size
<1>8. CASE Hunts(p, w, c, k)
  <2>1. /\ p.st \in {"HUNT", "SYNC1"} /\ (c <= 1 \/ k = 0)
        /\ k # 0 /\ p.st = "SYNC1" => w[k] = SYNC0
    BY <1>8 DEF Hunts
  <2>2. Grows(p, q, b) \/ Begins(p, q, b) \/ Waits(p, q, b)
    BY <1>3, <2>1 DEF Refuses, Ends
  <2>3. CASE k = 0
    <3>1. b = SYNC0
      BY <1>1, <2>3
    <3>2. Begins(p, q, b)
      BY <2>1, <2>2, <3>1, SyncBytes DEF Grows, Waits
    <3>3. Len(Prefix(q)) = 1 /\ Prefix(q)[1] = SYNC0
      BY <1>3, <3>2, PrefixShape DEF Begins
    <3>4. InStep(q, w, 1)
      BY <1>1, <3>3 DEF InStep, Holds
    <3>5. 1 \in 0 .. size - 1 /\ n + 1 = c * size + 1
      BY <1>1, <1>5, <2>3
    <3> QED
      BY <1>4, <3>4, <3>5
  <2>4. CASE k # 0
    <3>1. k \in 1 .. size - 1 /\ c <= 1
      BY <1>1, <1>5, <2>1, <2>4
    <3>2. n + 1 <= 2 * size /\ n + 1 < 3 * size
      <4>1. c = 0 => n = k
        BY <1>1, <1>5
      <4>2. c = 1 => n = size + k
        BY <1>1, <1>5
      <4> QED
        BY <1>1, <3>1, <4>1, <4>2
    <3>6. PICK d \in 0 .. 2, j \in 0 .. size - 1 : NextPlace(size, c, k, n, d, j)
      BY <1>1, <1>5, <3>2, NextByte
    <3>3. n + 1 = d * size + j /\ (d <= 1 \/ j = 0) /\ (j # 0 => j = k + 1)
      BY <3>2, <3>6 DEF NextPlace
    <3>4. CASE Begins(p, q, b) \/ Waits(p, q, b)
      <4>1. (q.st = "SYNC1" /\ b = SYNC0) \/ q.st = "HUNT"
        BY <3>4 DEF Begins, Waits
      <4>2. Hunts(q, w, d, j)
        BY <3>3, <4>1 DEF Hunts
      <4> QED
        BY <1>4, <3>3, <4>2
    <3>5. CASE Grows(p, q, b)
      <4>1. p.st = "SYNC1" /\ b = SYNC1 /\ w[k] = SYNC0
        BY <2>1, <2>4, <3>5 DEF Grows
      <4>2. k = 1
        <5> DEFINE i == k - 1
        <5>1. i \in 0 .. size - 2 /\ i + 1 = k /\ i + 2 = k + 1
          BY <1>1, <3>1
        <5> HIDE DEF i
        <5>2. SyncAt(w, i)
          BY <4>1, <5>1 DEF SyncAt
        <5>3. i \in SyncWords(w)
          BY <5>1, <5>2 DEF SyncWords, size
        <5> QED
          BY <5>1, <5>3
      <4>3. Holds(p, w, k)
        <5>1. Len(Prefix(p)) = 1 /\ Prefix(p)[1] = SYNC0
          BY <4>1, PrefixShape
        <5> QED
          BY <1>1, <4>2, <5>1 DEF Holds
      <4>4. InStep(p, w, k)
        BY <3>1, <4>3 DEF InStep
      <4> QED
        BY <1>7, <4>4
    <3> QED
      BY <2>2, <3>4, <3>5
  <2> QED
    BY <2>3, <2>4
<1> QED
  BY <1>6, <1>7, <1>8

\* A parser in any state before the first byte of the request.
LEMMA NothingSent ==
  ASSUME NEW p, ParserOK(p), NEW w, Len(w) \in Nat \ {0}
  PROVE  Underway(p, w, 0)
<1>1. Len(p.body) \in Nat
  BY LenProperties DEF ParserOK
<1>2. Stale(p, 0) \/ Hunts(p, w, 0, 0)
  BY <1>1 DEF Stale, Hunts
<1>3. 0 \in 0 .. 2 /\ 0 \in 0 .. Len(w) - 1 /\ 0 = 0 * Len(w) + 0
  OBVIOUS
<1> QED
  BY <1>2, <1>3 DEF Underway

\* What was taken stays so, and a new frame of the request's bytes counts.
LEMMA TakenOn ==
  ASSUME NEW g \in Seq(Entries), NEW s \in Seq(Entries), NEW w,
         Taken(g, w) \/ \E d \in Entries : s = <<d>> /\ IsFrame(d) /\ Wire(d) = w
  PROVE  Taken(g \o s, w)
<1> DEFINE u == g \o s
<1>1. \A x, y \in Seq(Entries) :
        /\ Len(x \o y) = Len(x) + Len(y) /\ x \o y \in Seq(Entries)
        /\ \A i \in 1 .. Len(x) + Len(y) : (x \o y)[i] = IF i <= Len(x) THEN x[i] ELSE y[i - Len(x)]
  BY ConcatProperties, Zenon
<1>2. /\ Len(u) = Len(g) + Len(s) /\ u \in Seq(Entries)
      /\ \A i \in 1 .. Len(g) + Len(s) : u[i] = IF i <= Len(g) THEN g[i] ELSE s[i - Len(g)]
  BY <1>1, Zenon
<1> HIDE DEF u
<1>3. Len(g) \in Nat /\ Len(s) \in Nat /\ DOMAIN g = 1 .. Len(g) /\ DOMAIN u = 1 .. Len(u)
  BY <1>2, LenProperties
<1>4. ASSUME NEW i \in DOMAIN g, IsFrame(g[i]), Wire(g[i]) = w PROVE Taken(u, w)
  <2>1. i \in DOMAIN u /\ u[i] = g[i]
    BY <1>2, <1>3
  <2> QED
    BY <1>4, <2>1 DEF Taken
<1>5. ASSUME NEW d \in Entries, s = <<d>>, IsFrame(d), Wire(d) = w PROVE Taken(u, w)
  <2> DEFINE i == Len(g) + 1
  <2>1. Len(s) = 1 /\ s[1] = d
    BY <1>5
  <2>2. i \in 1 .. Len(g) + Len(s) /\ ~(i <= Len(g)) /\ i - Len(g) = 1
    BY <1>3, <2>1
  <2> HIDE DEF i
  <2>3. i \in DOMAIN u /\ u[i] = d
    BY <1>2, <1>3, <2>1, <2>2
  <2> QED
    BY <1>5, <2>3 DEF Taken
<1>6. Taken(u, w)
  BY <1>4, <1>5 DEF Taken
<1> QED
  BY <1>6 DEF u

\* Bytes of the request on the line.
Sent == IF sentAt = 0 THEN 0 ELSE Len(line) + 1 - sentAt

ResyncInv ==
  /\ RetryInv
  /\ sentAt <= Len(line)
  /\ \E f \in Frames : request = Wire(f)
  /\ SyncWords(request) = {0} => Taken(log, request) \/ Underway(parser, request, Sent)

\* A frame that begins in the noise ends in two copies of the request.
NoiseFits ==
  \A f \in Frames : Len(f.payload) <= MaxPayload /\ MaxPayload + 3 <= 2 * Len(Wire(f))

LEMMA ResyncInit ==
  ASSUME LineInit, RetryInv
  PROVE  ResyncInv
<1>1. ParserOK(parser) /\ Len(line) \in Nat /\ sentAt = 0 /\ Len(request) \in Nat \ {0}
  BY LenProperties DEF RetryInv, LineInv, HasParsed, RequestOK, LineInit
<1>2. Underway(parser, request, Sent)
  BY <1>1, NothingSent DEF Sent
<1>3. \E f \in Frames : request = Wire(f)
  BY DEF LineInit
<1> QED
  BY <1>1, <1>2, <1>3 DEF ResyncInv

LEMMA NoiseResyncs ==
  ASSUME ResyncInv, RetryInv', sentAt = 0, Noise
  PROVE  ResyncInv'
<1>1. ParserOK(parser') /\ Len(line') \in Nat /\ Len(request') \in Nat \ {0}
  BY LenProperties DEF RetryInv, LineInv, HasParsed, RequestOK
<1>2. sentAt' = 0 /\ request' = request
  BY DEF Noise
<1>3. Underway(parser', request', Sent')
  BY <1>1, <1>2, NothingSent DEF Sent
<1>4. \E f \in Frames : request' = Wire(f)
  BY <1>2 DEF ResyncInv
<1> QED
  BY <1>1, <1>2, <1>3, <1>4 DEF ResyncInv

\* Repeat takes the byte of the request whose turn it is.
LEMMA RepeatByte ==
  ASSUME RetryInv, Repeat, sentAt <= Len(line)
  PROVE  /\ Sent \in Nat /\ Sent' = Sent + 1 /\ sentAt' <= Len(line') /\ request' = request
         /\ parser' = ParserStep(parser, request[(Sent % Len(request)) + 1])
         /\ log' = log \o parser'.dispatched
<1> DEFINE first == IF sentAt = 0 THEN Len(line) + 1 ELSE sentAt
           at == ((Len(line) + 1 - first) % Len(request)) + 1
<1>1. Receive(request[at]) /\ sentAt' = first /\ request' = request
  BY DEF Repeat
<1>2. /\ line \in Seq(Bytes) /\ Len(line) \in Nat /\ sentAt \in Nat
      /\ Len(line') \in Nat
  BY <1>1, RepeatTakes, RepeatStep, LenProperties DEF RetryInv, LineInv, HasParsed
<1>3. Len(line') = Len(line) + 1
  BY <1>1, <1>2, LenProperties, AppendProperties DEF Receive
<1>4. Sent = Len(line) + 1 - first /\ Sent \in Nat
  BY <1>2 DEF Sent
<1>5. at = (Sent % Len(request)) + 1
  BY <1>4
<1>6. Sent' = Sent + 1 /\ sentAt' <= Len(line')
  <2>1. sentAt' # 0 /\ sentAt' \in Nat /\ sentAt' <= Len(line) + 1
    BY <1>1, <1>2
  <2>2. Sent' = Len(line') + 1 - sentAt'
    BY <2>1 DEF Sent
  <2> QED
    BY <1>1, <1>2, <1>3, <1>4, <2>1, <2>2
<1>7. parser' = ParserStep(parser, request[at]) /\ log' = log \o parser'.dispatched
  BY <1>1 DEF Receive
<1> QED
  BY <1>1, <1>4, <1>5, <1>6, <1>7

LEMMA RepeatResyncs ==
  ASSUME NoiseFits, ResyncInv, RetryInv', Repeat
  PROVE  ResyncInv'
<1>1. /\ Sent \in Nat /\ Sent' = Sent + 1 /\ sentAt' <= Len(line') /\ request' = request
      /\ parser' = ParserStep(parser, request[(Sent % Len(request)) + 1])
      /\ log' = log \o parser'.dispatched
  BY RepeatByte DEF ResyncInv
<1>2. PICK f \in Frames : request = Wire(f)
  BY DEF ResyncInv
<1>3. Sendable(f) /\ Len(f.payload) <= MaxPayload /\ MaxPayload + 3 <= 2 * Len(request)
  <2>1. Sendable(f)
    BY LineAssumption, Zenon DEF Sendable
  <2>2. Len(f.payload) <= MaxPayload /\ MaxPayload + 3 <= 2 * Len(Wire(f))
    BY DEF NoiseFits
  <2> QED
    BY <1>2, <2>1, <2>2
<1>4. /\ ParserOK(parser) /\ log \in Seq(Entries) /\ Len(request) \in Nat \ {0}
      /\ request \in Seq(Bytes)
  BY DEF ResyncInv, RetryInv, RequestOK, LineInv, HasParsed
<1>5. parser'.dispatched \in Seq(Entries)
  <2> DEFINE b == request[(Sent % Len(request)) + 1]
  <2>1. b \in Bytes
    <3>1. \A a \in Nat, m \in Nat \ {0} : (a % m) + 1 \in 1 .. m
      BY Z3
    <3> QED
      BY <1>1, <1>4, <3>1, ElementOfSeq
  <2> HIDE DEF b
  <2>2. ParserStep(parser, b).dispatched \in Seq(Entries)
    BY <1>4, <2>1, StepDispatches
  <2> QED
    BY <1>1, <2>2 DEF b
<1>6. ASSUME SyncWords(request) = {0}
      PROVE  Taken(log', request) \/ Underway(parser', request, Sent + 1)
  <2>1. CASE Taken(log, request)
    BY <1>1, <1>4, <1>5, <2>1, TakenOn
  <2>2. CASE Underway(parser, request, Sent)
    <3>1. PICK c \in 0 .. 2, k \in 0 .. Len(request) - 1 :
            /\ Sent = c * Len(request) + k
            /\ Stale(parser, Sent) \/ Hunts(parser, request, c, k) \/ InStep(parser, request, k)
      BY <2>2 DEF Underway
    <3>2. Sent % Len(request) = k
      <4>1. c \in Nat
        OBVIOUS
      <4> QED
        BY <1>4, <3>1, <4>1, ByteOfCopy
    <3>3. parser' = ParserStep(parser, request[k + 1])
      BY <1>1, <3>2
    <3>4. Underway(parser', request, Sent + 1) \/ Completes(parser', request)
      <4>1. MaxPayload + 3 <= 2 * Len(request) /\ SyncWords(request) = {0}
        BY <1>3, <1>6
      <4> QED
        BY <1>2, <1>3, <1>4, <3>1, <3>3, <4>1, RetryByte
    <3> QED
      BY <1>1, <1>4, <1>5, <3>4, TakenOn DEF Completes
  <2> QED
    BY <1>6, <2>1, <2>2 DEF ResyncInv
<1>7. SyncWords(request') = {0} => Taken(log', request') \/ Underway(parser', request', Sent')
  BY <1>1, <1>6
<1>8. \E g \in Frames : request' = Wire(g)
  BY <1>1, <1>2
<1> QED
  BY <1>1, <1>7, <1>8 DEF ResyncInv

LEMMA ResyncHolds ==
  ASSUME ResyncInv
  PROVE  ResyncByThirdRequest
<1>1. Len(line) \in Nat /\ sentAt \in Nat /\ Len(request) \in Nat \ {0}
  BY LenProperties DEF ResyncInv, RetryInv, RequestOK, LineInv, HasParsed
<1>2. ASSUME Taken(log, request) PROVE TakenBy(3)
  <2>1. \E i \in DOMAIN log : log[i].whole /\ BuildFrame(log[i].cmd, log[i].payload) = request
    BY <1>2, Zenon DEF Taken, IsFrame, Wire
  <2> QED
    BY <2>1, Zenon DEF TakenBy
<1>3. ASSUME sentAt # 0, Underway(parser, request, Sent) PROVE TakenBy(3)
  <2> DEFINE size == Len(request)
  <2>1. PICK c \in 0 .. 2, k \in 0 .. size - 1 : Sent = c * size + k
    BY <1>3 DEF Underway
  <2> HIDE DEF size
  <2>2. c * size <= 2 * size /\ c * size \in Nat
    <3>1. size \in Nat
      BY <1>1 DEF size
    <3> QED
      BY <3>1, Products
  <2>3. ~(Sent >= 3 * size)
    <3>1. size \in Nat \ {0}
      BY <1>1 DEF size
    <3> DEFINE x == c * size
    <3> HIDE DEF x
    <3>2. Sent = x + k /\ x <= 2 * size /\ x \in Nat
      BY <2>1, <2>2 DEF x
    <3> QED
      BY <3>1, <3>2
  <2>4. ~(Len(line) + 1 - sentAt >= 3 * Len(request))
    BY <1>3, <2>3 DEF Sent, size
  <2> QED
    BY <2>4, Zenon DEF TakenBy
<1> QED
  BY <1>2, <1>3 DEF ResyncInv, ResyncByThirdRequest

\* The invariant of a request that is repeated.
LEMMA ResyncInvariant == NoiseFits => (RetrySpec => []ResyncInv)
<1> SUFFICES ASSUME NoiseFits PROVE RetrySpec => []ResyncInv
  OBVIOUS
<1>1. LineInit /\ RetryInv => ResyncInv
  BY ResyncInit
<1>2. ASSUME ResyncInv, RetryInv', [(sentAt = 0 /\ Noise) \/ Repeat]_lineVars PROVE ResyncInv'
  <2>1. CASE sentAt = 0 /\ Noise
    BY <1>2, <2>1, NoiseResyncs
  <2>2. CASE Repeat
    BY <1>2, <2>2, RepeatResyncs
  <2>3. CASE UNCHANGED lineVars
    BY <1>2, <2>3 DEF ResyncInv, Sent, lineVars
  <2> QED
    BY <1>2, <2>1, <2>2, <2>3
<1> QED
  BY <1>1, <1>2, RetryInvariant, PTL DEF RetrySpec

\* ResyncByThirdRequest of a line with any noise before a request sent over
\* and over: the device takes the request by its third sending, whatever
\* the noise was, provided the longest frame begun in it ends in two copies.
THEOREM ThirdRequestIsExecuted == NoiseFits => (RetrySpec => []ResyncByThirdRequest)
<1>1. ResyncInv => ResyncByThirdRequest
  BY ResyncHolds
<1> QED
  BY <1>1, ResyncInvariant, PTL

----------------------------------------------------------------------------
(* Frames that arrive undamaged, noise without SYNC0 between them.         *)

\* The frames sent are requests: nothing but a command and a payload no
\* longer than the device takes.
RequestsOnly ==
  /\ Frames \subseteq [cmd : Bytes, payload : Seq(Bytes)]
  /\ \A f \in Frames : Len(f.payload) <= MaxPayload

\* No SYNC0 after the first from bytes of the line l, up to byte to.
Quiet(l, from, to) == \A j \in from + 1 .. to : l[j] # SYNC0

\* After the first from bytes, f is the next frame, from byte at + 1 to end.
FrameOn(l, f, from, at, end) ==
  /\ at \in Nat /\ from <= at /\ end = at + Len(Wire(f)) /\ end <= Len(l)
  /\ Quiet(l, from, at) /\ Carries(l, at, Wire(f))

\* The frames of r are those on the line; frame i begins at s[i] and ends at e[i].
FramesOn(l, r, s, e) ==
  /\ e[0] = 0 /\ \A i \in 0 .. Len(r) : e[i] \in Nat /\ e[i] <= Len(l)
  /\ \A i \in 1 .. Len(r) : FrameOn(l, r[i], e[i - 1], s[i], e[i])
  /\ Quiet(l, e[Len(r)], Len(l))

\* A longer line has the same bytes, and more.
Longer(l, m) == Len(l) <= Len(m) /\ \A j \in 1 .. Len(l) : m[j] = l[j]

LEMMA QuietOnLonger ==
  ASSUME NEW l, NEW m, Longer(l, m), Len(l) \in Nat, NEW a \in Nat, NEW b \in Nat, b <= Len(l),
         Quiet(l, a, b)
  PROVE  Quiet(m, a, b)
<1> SUFFICES ASSUME NEW j \in a + 1 .. b PROVE m[j] # SYNC0
  BY DEF Quiet
<1>1. j \in 1 .. Len(l)
  OBVIOUS
<1>2. m[j] = l[j]
  BY <1>1 DEF Longer
<1>3. l[j] # SYNC0
  BY DEF Quiet
<1> QED
  BY <1>2, <1>3

LEMMA FrameOnLonger ==
  ASSUME NEW l, NEW m, Longer(l, m), Len(l) \in Nat, Len(m) \in Nat,
         NEW f, Len(Wire(f)) \in Nat,
         NEW a \in Nat, NEW at, NEW end \in Nat, FrameOn(l, f, a, at, end)
  PROVE  FrameOn(m, f, a, at, end)
<1> DEFINE w == Wire(f)
<1>1. /\ at \in Nat /\ a <= at /\ end = at + Len(w) /\ end <= Len(l) /\ Len(w) \in Nat
      /\ Quiet(l, a, at) /\ Carries(l, at, w)
  BY DEF FrameOn
<1> HIDE DEF w
<1>2. Quiet(m, a, at)
  <2>1. at <= Len(l)
    BY <1>1
  <2> QED
    BY <1>1, <2>1, QuietOnLonger
<1>3. Carries(m, at, w)
  <2>1. \A i \in 1 .. Len(w) : l[at + i] = w[i] /\ at + i \in 1 .. Len(l)
    BY <1>1 DEF Carries
  <2>2. \A i \in 1 .. Len(w) : m[at + i] = w[i]
    BY <2>1 DEF Longer
  <2>3. at + Len(w) <= Len(m)
    BY <1>1 DEF Longer
  <2> QED
    BY <2>2, <2>3 DEF Carries
<1>4. end <= Len(m)
  BY <1>1 DEF Longer
<1> QED
  BY <1>1, <1>2, <1>3, <1>4 DEF FrameOn, w

\* The frames of a line stand on a longer one.
LEMMA FramesOnLonger ==
  ASSUME NEW l, NEW m, Longer(l, m), Len(l) \in Nat, Len(m) \in Nat,
         NEW r \in Seq(Frames), NEW s, NEW e, FramesOn(l, r, s, e)
  PROVE  /\ \A i \in 0 .. Len(r) : e[i] \in Nat /\ e[i] <= Len(l) /\ e[i] <= Len(m)
         /\ \A i \in 1 .. Len(r) : FrameOn(m, r[i], e[i - 1], s[i], e[i])
         /\ Quiet(m, e[Len(r)], Len(l))
<1>1. Len(r) \in Nat /\ \A i \in 1 .. Len(r) : r[i] \in Frames
  BY LenProperties, ElementOfSeq
<1>2. \A i \in 0 .. Len(r) : e[i] \in Nat /\ e[i] <= Len(l) /\ e[i] <= Len(m)
  BY DEF FramesOn, Longer
<1>3. ASSUME NEW i \in 1 .. Len(r) PROVE FrameOn(m, r[i], e[i - 1], s[i], e[i])
  <2>1. i - 1 \in 0 .. Len(r) /\ i \in 0 .. Len(r)
    BY <1>1
  <2>2. e[i - 1] \in Nat /\ e[i] \in Nat
    BY <1>2, <2>1
  <2>3. Len(Wire(r[i])) \in Nat
    BY <1>1, FrameBytes
  <2>4. FrameOn(l, r[i], e[i - 1], s[i], e[i])
    BY DEF FramesOn
  <2> QED
    BY <2>2, <2>3, <2>4, FrameOnLonger
<1>4. Quiet(m, e[Len(r)], Len(l))
  <2>1. Len(r) \in 0 .. Len(r)
    BY <1>1
  <2>2. e[Len(r)] \in Nat
    BY <1>2, <2>1
  <2>3. Quiet(l, e[Len(r)], Len(l))
    BY DEF FramesOn
  <2> QED
    BY <2>2, <2>3, QuietOnLonger
<1> QED
  BY <1>2, <1>3, <1>4

\* A byte of noise is in no frame.
LEMMA FramesInNoise ==
  ASSUME NEW l \in Seq(Bytes), NEW b \in Bytes, b # SYNC0,
         NEW r \in Seq(Frames), NEW s, NEW e, FramesOn(l, r, s, e)
  PROVE  FramesOn(Append(l, b), r, s, e)
<1> DEFINE m == Append(l, b)
<1>1. /\ Len(m) = Len(l) + 1 /\ Len(l) \in Nat /\ m[Len(l) + 1] = b
      /\ \A j \in 1 .. Len(l) : m[j] = l[j]
  BY Added
<1> HIDE DEF m
<1>2. Longer(l, m) /\ Len(m) \in Nat
  BY <1>1 DEF Longer
<1>3. /\ \A i \in 0 .. Len(r) : e[i] \in Nat /\ e[i] <= Len(l) /\ e[i] <= Len(m)
      /\ \A i \in 1 .. Len(r) : FrameOn(m, r[i], e[i - 1], s[i], e[i])
      /\ Quiet(m, e[Len(r)], Len(l))
  BY <1>1, <1>2, FramesOnLonger
<1>4. Quiet(m, e[Len(r)], Len(m))
  <2> SUFFICES ASSUME NEW j \in e[Len(r)] + 1 .. Len(m) PROVE m[j] # SYNC0
    BY DEF Quiet
  <2>1. Len(r) \in 0 .. Len(r)
    BY LenProperties
  <2>2. e[Len(r)] \in Nat
    BY <1>3, <2>1
  <2>3. CASE j = Len(l) + 1
    BY <1>1, <2>3
  <2>4. CASE j # Len(l) + 1
    <3>1. j \in e[Len(r)] + 1 .. Len(l)
      BY <1>1, <2>2, <2>4
    <3> QED
      BY <1>3, <3>1 DEF Quiet
  <2> QED
    BY <2>3, <2>4
<1>5. e[0] = 0
  BY DEF FramesOn
<1> QED
  BY <1>3, <1>4, <1>5 DEF FramesOn, m

\* A frame behind the line is the next.
LEMMA FrameBehind ==
  ASSUME NEW l \in Seq(Bytes), NEW f \in Frames,
         NEW r \in Seq(Frames), NEW s, NEW e, FramesOn(l, r, s, e)
  PROVE  \E s2, e2 : FramesOn(l \o Wire(f), Append(r, f), s2, e2)
<1> DEFINE w == Wire(f)
           m == l \o w
           q == Append(r, f)
           n == Len(r)
           s2 == [i \in 1 .. n + 1 |-> IF i = n + 1 THEN Len(l) ELSE s[i]]
           e2 == [i \in 0 .. n + 1 |-> IF i = n + 1 THEN Len(m) ELSE e[i]]
<1>1. w \in Seq(Bytes) /\ Len(w) \in Nat \ {0} /\ Len(l) \in Nat
  BY FrameBytes, LenProperties
<1>2. IsJoin(m, l, w, Len(l), Len(w))
  BY <1>1, JoinedAt
<1> HIDE DEF m, w
<1>3. /\ m \in Seq(Bytes) /\ Len(m) = Len(l) + Len(w) /\ Len(m) \in Nat /\ Longer(l, m)
      /\ \A i \in 1 .. Len(w) : m[Len(l) + i] = w[i]
  BY <1>1, <1>2 DEF IsJoin, Longer
<1>4. n \in Nat /\ Len(q) = n + 1 /\ q[n + 1] = f /\ \A i \in 1 .. n : q[i] = r[i]
  BY Added
<1> HIDE DEF q
<1>5. /\ \A i \in 0 .. n : e[i] \in Nat /\ e[i] <= Len(l) /\ e[i] <= Len(m)
      /\ \A i \in 1 .. n : FrameOn(m, r[i], e[i - 1], s[i], e[i])
      /\ Quiet(m, e[n], Len(l))
  BY <1>1, <1>3, FramesOnLonger
<1> HIDE DEF n
<1>6. /\ e2[n + 1] = Len(m) /\ \A i \in 0 .. n : e2[i] = e[i]
      /\ s2[n + 1] = Len(l) /\ \A i \in 1 .. n : s2[i] = s[i]
  BY <1>4
<1> HIDE DEF s2, e2
<1>7. e2[0] = 0
  <2>1. e[0] = 0 /\ 0 \in 0 .. n
    BY <1>4 DEF FramesOn
  <2> QED
    BY <1>6, <2>1
<1>8. ASSUME NEW i \in 0 .. n + 1 PROVE e2[i] \in Nat /\ e2[i] <= Len(m)
  <2>1. CASE i = n + 1
    BY <1>3, <1>6, <2>1
  <2>2. CASE i # n + 1
    <3>1. i \in 0 .. n
      BY <1>4, <2>2
    <3> QED
      BY <1>5, <1>6, <3>1
  <2> QED
    BY <2>1, <2>2
<1>9. ASSUME NEW i \in 1 .. n + 1 PROVE FrameOn(m, q[i], e2[i - 1], s2[i], e2[i])
  <2>1. CASE i = n + 1
    <3>1. q[i] = f /\ s2[i] = Len(l) /\ e2[i] = Len(m)
      BY <1>4, <1>6, <2>1
    <3>2. n \in 0 .. n /\ i - 1 = n
      BY <1>4, <2>1
    <3>3. e2[i - 1] = e[n] /\ e[n] <= Len(l)
      BY <1>5, <1>6, <3>2
    <3>4. Carries(m, Len(l), w)
      BY <1>3 DEF Carries
    <3>5. Len(m) <= Len(m)
      BY <1>3
    <3>6. FrameOn(m, f, e[n], Len(l), Len(m))
      BY <1>1, <1>3, <1>5, <3>3, <3>4, <3>5 DEF FrameOn, w
    <3> QED
      BY <3>1, <3>3, <3>6
  <2>2. CASE i # n + 1
    <3>1. i \in 1 .. n /\ i \in 0 .. n /\ i - 1 \in 0 .. n
      BY <1>4, <2>2
    <3>2. q[i] = r[i] /\ s2[i] = s[i] /\ e2[i] = e[i] /\ e2[i - 1] = e[i - 1]
      BY <1>4, <1>6, <3>1
    <3> QED
      BY <1>5, <3>1, <3>2
  <2> QED
    BY <2>1, <2>2
<1>10. Quiet(m, e2[n + 1], Len(m))
  <2>1. Len(m) + 1 .. Len(m) = {}
    BY <1>3
  <2> QED
    BY <1>6, <2>1 DEF Quiet
<1>11. FramesOn(m, q, s2, e2)
  BY <1>4, <1>7, <1>8, <1>9, <1>10 DEF FramesOn
<1> QED
  BY <1>11 DEF m, q, w

\* parse_frame finds the next frame, ...
LEMMA HostFinds ==
  ASSUME NEW l \in Seq(Bytes), NEW f \in [cmd : Bytes, payload : Seq(Bytes)], Sendable(f),
         NEW from \in Nat, NEW at, NEW end \in Nat, FrameOn(l, f, from, at, end)
  PROVE  /\ ParseFrame(l, from) = Parsed(f, end)
         /\ from + 1 < Len(l) /\ from < end /\ end <= Len(l)
<1>1. PICK body, n : FrameParts(f, Wire(f), body, n)
  BY WireParts
<1> DEFINE w == Wire(f)
<1>2. /\ w \in Seq(Bytes) /\ Len(w) = 5 + n /\ n \in Nat /\ n = Len(f.payload)
      /\ body \in Seq(Bytes) /\ Len(body) = 2 + n
      /\ \A i \in 1 .. n : body[2 + i] = f.payload[i]
      /\ w[1] = SYNC0 /\ w[2] = SYNC1
      /\ \A i \in 1 .. 2 + n : w[2 + i] = body[i]
      /\ w[3] = f.cmd /\ w[4] = n /\ w[5 + n] = Crc(body)
  BY <1>1 DEF FrameParts
<1>3. /\ at \in Nat /\ from <= at /\ end = at + Len(w) /\ end <= Len(l)
      /\ Quiet(l, from, at) /\ Len(l) \in Nat
      /\ \A i \in 1 .. Len(w) : l[at + i] = w[i]
  BY LenProperties DEF FrameOn, Carries
<1> HIDE DEF w
<1>4. end = at + 5 + n /\ at + 5 + n <= Len(l)
  <2>1. Len(w) = 5 + n /\ n \in Nat
    BY <1>2
  <2>2. end = at + Len(w) /\ end <= Len(l) /\ at \in Nat
    BY <1>3
  <2> QED
    BY <2>1, <2>2
<1>5. \A i \in 1 .. 5 + n : l[at + i] = w[i]
  BY <1>2, <1>3
<1>6. l[at + 1] = SYNC0 /\ l[at + 2] = SYNC1 /\ l[at + 3] = f.cmd /\ l[at + 4] = n
  BY <1>2, <1>5
<1>7. l[at + (5 + n)] = Crc(body)
  BY <1>2, <1>5
<1>8. \A i \in 1 .. 2 + n : l[at + 2 + i] = body[i]
  <2> SUFFICES ASSUME NEW i \in 1 .. 2 + n PROVE l[at + 2 + i] = body[i]
    OBVIOUS
  <2>1. 2 + i \in 1 .. 5 + n /\ at + 2 + i = at + (2 + i)
    BY <1>2, <1>3
  <2> QED
    BY <1>2, <1>5, <2>1
<1> DEFINE syncs == {i \in from .. Len(l) - 2 : SyncAt(l, i)}
<1>9. at \in syncs /\ syncs \in SUBSET Nat
  <2>1. at \in from .. Len(l) - 2
    BY <1>2, <1>3, <1>4
  <2>2. SyncAt(l, at)
    BY <1>6 DEF SyncAt
  <2> QED
    BY <2>1, <2>2
<1>10. \A i \in syncs : ~(i < at)
  <2> SUFFICES ASSUME NEW i \in syncs, i < at PROVE FALSE
    BY Zenon
  <2>1. i \in from .. Len(l) - 2 /\ l[i + 1] = SYNC0
    BY DEF SyncAt
  <2>2. i + 1 \in from + 1 .. at
    BY <1>3, <2>1
  <2> QED
    BY <1>3, <2>1, <2>2 DEF Quiet
<1>11. ParseFrame(l, from) = FrameAt(l, at)
  <2>1. ParseFrame(l, from) = IF syncs = {} THEN FrameError("no sync") ELSE FrameAt(l, Min(syncs))
    BY Zenon DEF ParseFrame
  <2> HIDE DEF syncs
  <2>2. Min(syncs) \in syncs /\ Min(syncs) <= at
    BY <1>9, LeastOf
  <2>3. \A x, y \in Nat : x <= y /\ ~(x < y) => x = y
    OBVIOUS
  <2>4. Min(syncs) = at
    BY <1>3, <1>9, <1>10, <2>2, <2>3
  <2> QED
    BY <1>9, <2>1, <2>4
<1> HIDE DEF syncs
<1>12. PICK last : last = at + 4 + l[at + 4]
  OBVIOUS
<1>13. last = at + 4 + n /\ last + 1 = end /\ last \in Nat /\ last + 1 <= Len(l)
  <2>1. l[at + 4] = n /\ n \in Nat /\ at \in Nat
    BY <1>2, <1>3, <1>6
  <2>2. last = at + 4 + n
    BY <1>12, <2>1
  <2> QED
    BY <1>4, <2>1, <2>2
<1>14. Stands(l, at, last)
  <2>1. at + 4 <= Len(l)
    BY <1>2, <1>3, <1>4
  <2> QED
    BY <1>3, <1>12, <2>1, FrameThere
<1>15. SubSeq(l, at + 3, last) = body
  <2> DEFINE a == at + 2
  <2>1. a \in Nat /\ a + 1 = at + 3 /\ a + Len(body) = last /\ a + Len(body) <= Len(l)
    BY <1>2, <1>3, <1>4, <1>13
  <2>2. \A i \in 1 .. Len(body) : l[a + i] = body[i]
    BY <1>2, <1>8
  <2> HIDE DEF a
  <2>3. Carries(l, a, body)
    BY <2>1, <2>2 DEF Carries
  <2>4. SubSeq(l, a + 1, a + Len(body)) = body
    BY <1>2, <2>1, <2>3, CarriedSlice
  <2> QED
    BY <2>1, <2>4
<1>16. SubSeq(l, at + 5, last) = f.payload
  <2> DEFINE a == at + 4
             pay == f.payload
  <2>1. a \in Nat /\ a + 1 = at + 5 /\ a + Len(pay) = last /\ a + Len(pay) <= Len(l)
    BY <1>2, <1>3, <1>4, <1>13
  <2>2. ASSUME NEW i \in 1 .. Len(pay) PROVE l[a + i] = pay[i]
    <3>1. i \in 1 .. n /\ 2 + i \in 1 .. 2 + n /\ at + 2 + (2 + i) = a + i
      BY <1>2, <1>3
    <3>2. l[at + 2 + (2 + i)] = body[2 + i]
      BY <1>8, <3>1, Zenon
    <3> QED
      BY <1>2, <3>1, <3>2
  <2>3. pay \in Seq(Bytes)
    OBVIOUS
  <2> HIDE DEF a, pay
  <2>4. Carries(l, a, pay)
    BY <2>1, <2>2 DEF Carries
  <2>5. SubSeq(l, a + 1, a + Len(pay)) = pay
    BY <2>1, <2>3, <2>4, CarriedSlice
  <2> QED
    BY <2>1, <2>5 DEF pay
<1>17. l[last + 1] = Crc(body)
  <2>1. last + 1 = at + (5 + n)
    BY <1>2, <1>3, <1>13
  <2> QED
    BY <1>7, <2>1
<1>18. FrameAt(l, at) = Parsed([cmd |-> l[at + 3], payload |-> SubSeq(l, at + 5, last)], last + 1)
  BY <1>13, <1>14, <1>15, <1>17, Zenon DEF Stands
<1>19. [cmd |-> f.cmd, payload |-> f.payload] = f
  OBVIOUS
<1>20. FrameAt(l, at) = Parsed(f, end)
  BY <1>6, <1>13, <1>16, <1>18, <1>19, Zenon
<1>21. from + 1 < Len(l) /\ from < end
  BY <1>2, <1>3, <1>4
<1> QED
  BY <1>3, <1>11, <1>20, <1>21

\* ... and behind the last nothing.
LEMMA HostSilent ==
  ASSUME NEW l, Len(l) \in Nat, NEW from \in Nat, Quiet(l, from, Len(l))
  PROVE  ParseFrame(l, from) = FrameError("no sync")
<1> DEFINE syncs == {i \in from .. Len(l) - 2 : SyncAt(l, i)}
<1>1. syncs = {}
  <2> SUFFICES ASSUME NEW i \in syncs PROVE FALSE
    OBVIOUS
  <2>1. i \in from .. Len(l) - 2 /\ l[i + 1] = SYNC0
    BY DEF SyncAt
  <2>2. i + 1 \in from + 1 .. Len(l)
    BY <2>1
  <2> QED
    BY <2>1, <2>2 DEF Quiet
<1>2. ParseFrame(l, from) = IF syncs = {} THEN FrameError("no sync") ELSE FrameAt(l, Min(syncs))
  BY Zenon DEF ParseFrame
<1> QED
  BY <1>1, <1>2, Zenon

\* parse_frame consumes what it finds.
LEMMA HostAdvances ==
  ASSUME NEW l \in Seq(Bytes), NEW from \in Nat, NEW r, r = ParseFrame(l, from), r.ok
  PROVE  r.next \in from + 1 .. Len(l)
<1> DEFINE syncs == {i \in from .. Len(l) - 2 : SyncAt(l, i)}
<1>1. ParseFrame(l, from) = IF syncs = {} THEN FrameError("no sync") ELSE FrameAt(l, Min(syncs))
  BY Zenon DEF ParseFrame
<1>2. \A why : ~FrameError(why).ok
  BY Answers
<1>3. syncs # {} /\ r = FrameAt(l, Min(syncs))
  BY <1>1, <1>2, Zenon
<1>4. syncs \in SUBSET Nat /\ Len(l) \in Nat
  BY LenProperties
<1>5. PICK at : at = Min(syncs) /\ at \in syncs
  BY <1>3, <1>4, LeastOf
<1>6. at \in Nat /\ from <= at
  BY <1>5
<1> HIDE DEF syncs
<1>7. r = FrameAt(l, at)
  BY <1>3, <1>5
<1>8. at + 4 <= Len(l)
  <2> SUFFICES ASSUME ~(at + 4 <= Len(l)) PROVE FALSE
    OBVIOUS
  <2>1. at + 4 > Len(l)
    BY <1>4, <1>6
  <2>2. FrameAt(l, at) = FrameError("truncated")
    BY <2>1, Zenon DEF FrameAt
  <2> QED
    BY <1>2, <1>7, <2>2, Zenon
<1>9. PICK end : end = at + 4 + l[at + 4]
  OBVIOUS
<1>10. l[at + 4] \in Nat /\ end \in Nat /\ Stands(l, at, end)
  BY <1>6, <1>8, <1>9, FrameThere
<1>11. ~(end + 1 > Len(l))
  BY <1>2, <1>7, <1>10, Zenon DEF Stands
<1>12. end + 1 <= Len(l)
  BY <1>4, <1>10, <1>11
<1>13. r = Parsed([cmd |-> l[at + 3], payload |-> SubSeq(l, at + 5, end)], end + 1)
  BY <1>2, <1>7, <1>10, <1>12, Zenon DEF Stands
<1>14. r.next = end + 1
  <2>1. \A g, k : Parsed(g, k).next = k
    BY Zenon DEF Parsed
  <2> QED
    BY <1>13, <2>1, Zenon
<1>15. from + 1 <= end + 1
  BY <1>6, <1>9, <1>10
<1> QED
  BY <1>4, <1>10, <1>12, <1>14, <1>15

\* What parse_all does at offset off, the rest of the line being scanned in g.
ScanStep(l, g, off) ==
  IF off + 1 >= Len(l) THEN <<>>
  ELSE LET r == ParseFrame(l, off)
       IN IF r.ok THEN <<r.frame>> \o g[r.next]
          ELSE IF r.why = "crc" THEN g[off + 2] ELSE <<>>

Scans(l, g) == g = [off \in 0 .. Len(l) |-> ScanStep(l, g, off)]

\* A step looks only at offsets behind its own.
LEMMA StepLooksBehind ==
  ASSUME NEW l \in Seq(Bytes), NEW g, NEW h, NEW off \in 0 .. Len(l),
         \A j \in off + 1 .. Len(l) : g[j] = h[j]
  PROVE  ScanStep(l, g, off) = ScanStep(l, h, off)
<1>1. Len(l) \in Nat /\ off \in Nat
  BY LenProperties
<1>2. CASE off + 1 >= Len(l)
  BY <1>2 DEF ScanStep
<1>3. CASE ~(off + 1 >= Len(l))
  <2> DEFINE r == ParseFrame(l, off)
  <2>1. \A x : ScanStep(l, x, off) = IF r.ok THEN <<r.frame>> \o x[r.next]
                                     ELSE IF r.why = "crc" THEN x[off + 2] ELSE <<>>
    BY <1>3, Zenon DEF ScanStep
  <2>2. r.ok => r.next \in off + 1 .. Len(l)
    BY <1>1, HostAdvances
  <2>3. off + 2 \in off + 1 .. Len(l)
    BY <1>1, <1>3
  <2> HIDE DEF r
  <2>4. /\ r.ok => g[r.next] = h[r.next]
        /\ g[off + 2] = h[off + 2]
    BY <2>2, <2>3
  <2> QED
    BY <2>1, <2>4, Zenon
<1> QED
  BY <1>2, <1>3

\* parse_all's scan exists: it is defined from the end of the line.
LEMMA ScanExists ==
  ASSUME NEW l \in Seq(Bytes)
  PROVE  \E g : Scans(l, g)
<1> DEFINE n == Len(l)
           Right(g, k) == \A off \in n - k .. n : off >= 0 => g[off] = ScanStep(l, g, off)
           Made == {k \in Nat : \E g : Right(g, k)}
<1>1. n \in Nat
  BY LenProperties
<1> HIDE DEF n
<1>2. 0 \in Made
  <2> DEFINE g == [off \in 0 .. n |-> <<>>]
  <2>1. Right(g, 0)
    <3> SUFFICES ASSUME NEW off \in n - 0 .. n PROVE g[off] = ScanStep(l, g, off)
      OBVIOUS
    <3>1. off = n /\ off \in 0 .. n /\ off + 1 >= n
      BY <1>1
    <3>2. ScanStep(l, g, off) = <<>>
      BY <3>1, Zenon DEF ScanStep, n
    <3> QED
      BY <3>1, <3>2
  <2> HIDE DEF Right, g
  <2> QED
    BY <2>1
<1>3. ASSUME NEW k \in Nat, k \in Made PROVE k + 1 \in Made
  <2>1. PICK g : Right(g, k)
    BY <1>3
  <2> DEFINE at == n - (k + 1)
             h == [off \in 0 .. n |-> IF off = at THEN ScanStep(l, g, off) ELSE g[off]]
  <2>2. ASSUME NEW off \in at .. n, off >= 0 PROVE h[off] = ScanStep(l, h, off)
    <3>1. off \in 0 .. n /\ at \in Int
      BY <1>1, <2>2
    <3>2. \A j \in off + 1 .. n : h[j] = g[j]
      <4> SUFFICES ASSUME NEW j \in off + 1 .. n PROVE h[j] = g[j]
        OBVIOUS
      <4>1. j \in 0 .. n /\ j # at
        BY <1>1, <3>1
      <4> QED
        BY <4>1
    <3>3. h[off] = IF off = at THEN ScanStep(l, g, off) ELSE g[off]
      BY <3>1
    <3> HIDE DEF h
    <3>4. ScanStep(l, h, off) = ScanStep(l, g, off)
      BY <3>1, <3>2, StepLooksBehind DEF n
    <3>5. off # at => g[off] = ScanStep(l, g, off)
      <4> SUFFICES ASSUME off # at PROVE g[off] = ScanStep(l, g, off)
        OBVIOUS
      <4>1. off \in n - k .. n
        BY <1>1, <3>1
      <4> QED
        BY <2>1, <2>2, <4>1
    <3> QED
      BY <3>3, <3>4, <3>5, Zenon
  <2> HIDE DEF h
  <2>3. Right(h, k + 1)
    BY <2>2
  <2> HIDE DEF Right
  <2> QED
    BY <2>3
<1>4. n \in Made
  BY <1>1, <1>2, <1>3, SetInduction
<1>5. PICK g : Right(g, n)
  BY <1>4
<1> DEFINE h == [off \in 0 .. n |-> g[off]]
<1>6. ASSUME NEW off \in 0 .. n PROVE h[off] = ScanStep(l, h, off)
  <2>1. off \in n - n .. n /\ off >= 0
    BY <1>1
  <2>2. g[off] = ScanStep(l, g, off)
    BY <1>5, <2>1
  <2>3. h[off] = g[off]
    OBVIOUS
  <2>4. \A j \in off + 1 .. n : h[j] = g[j]
    BY <1>1
  <2> HIDE DEF h
  <2>5. ScanStep(l, h, off) = ScanStep(l, g, off)
    BY <2>4, StepLooksBehind DEF n
  <2> QED
    BY <2>2, <2>3, <2>5, Zenon
<1>7. h = [off \in 0 .. n |-> ScanStep(l, h, off)]
  BY <1>6
<1> HIDE DEF h
<1> QED
  BY <1>7, Zenon DEF Scans, n

\* parse_all is the scan from the beginning.
LEMMA ScanOf ==
  ASSUME NEW l \in Seq(Bytes)
  PROVE  \E g : /\ ParseAll(l) = g[0]
                /\ \A off \in 0 .. Len(l) : g[off] = ScanStep(l, g, off)
<1> DEFINE g == CHOOSE h : h = [off \in 0 .. Len(l) |->
                   IF off + 1 >= Len(l) THEN <<>>
                   ELSE LET r == ParseFrame(l, off)
                        IN IF r.ok THEN <<r.frame>> \o h[r.next]
                           ELSE IF r.why = "crc" THEN h[off + 2] ELSE <<>>]
<1>1. ParseAll(l) = g[0]
  BY Zenon DEF ParseAll
<1>2. \E h : h = [off \in 0 .. Len(l) |->
                   IF off + 1 >= Len(l) THEN <<>>
                   ELSE LET r == ParseFrame(l, off)
                        IN IF r.ok THEN <<r.frame>> \o h[r.next]
                           ELSE IF r.why = "crc" THEN h[off + 2] ELSE <<>>]
  BY ScanExists, Zenon DEF Scans, ScanStep
<1>3. Scans(l, g)
  BY <1>2, Zenon DEF Scans, ScanStep
<1> HIDE DEF g
<1>4. \A off \in 0 .. Len(l) : g[off] = ScanStep(l, g, off)
  <2> DEFINE s == [off \in 0 .. Len(l) |-> ScanStep(l, g, off)]
  <2>1. \A off \in 0 .. Len(l) : s[off] = ScanStep(l, g, off)
    OBVIOUS
  <2>2. g = s
    BY <1>3, Zenon DEF Scans
  <2> QED
    BY <2>1, <2>2
<1> QED
  BY <1>1, <1>4

\* parse_all finds the frames of a line on which they stand.
LEMMA HostFindsAll ==
  ASSUME RequestsOnly, NEW l \in Seq(Bytes), NEW r \in Seq(Frames), NEW s, NEW e, FramesOn(l, r, s, e)
  PROVE  ParseAll(l) = r
<1> DEFINE n == Len(r)
<1>1. n \in Nat /\ Len(l) \in Nat /\ \A i \in 1 .. n : r[i] \in Frames
  BY LenProperties, ElementOfSeq
<1>2. PICK g : /\ ParseAll(l) = g[0]
               /\ \A off \in 0 .. Len(l) : g[off] = ScanStep(l, g, off)
  BY ScanOf
<1>3. /\ e[0] = 0 /\ \A i \in 0 .. n : e[i] \in Nat /\ e[i] <= Len(l)
      /\ \A i \in 1 .. n : FrameOn(l, r[i], e[i - 1], s[i], e[i])
      /\ Quiet(l, e[n], Len(l))
  BY DEF FramesOn
<1> HIDE DEF n
<1> DEFINE Done == {k \in Nat : k <= n => g[e[n - k]] = SubSeq(r, n - k + 1, n)}
<1>4. 0 \in Done
  <2> DEFINE off == e[n]
  <2>1. off \in Nat /\ off <= Len(l) /\ off \in 0 .. Len(l)
    BY <1>1, <1>3
  <2> HIDE DEF off
  <2>2. g[off] = ScanStep(l, g, off)
    BY <1>2, <2>1
  <2>3. ParseFrame(l, off) = FrameError("no sync")
    BY <1>1, <1>3, <2>1, HostSilent DEF off
  <2>4. ~ParseFrame(l, off).ok /\ ParseFrame(l, off).why # "crc"
    BY <2>3, Answers, Zenon
  <2>5. ScanStep(l, g, off) = <<>>
    BY <2>4, Zenon DEF ScanStep
  <2>6. SubSeq(r, n - 0 + 1, n) = <<>> /\ n - 0 = n
    BY <1>1, SubSeqEmpty
  <2> QED
    BY <2>2, <2>5, <2>6 DEF off
<1>5. ASSUME NEW k \in Nat, k \in Done PROVE k + 1 \in Done
  <2> SUFFICES ASSUME k + 1 <= n PROVE g[e[n - (k + 1)]] = SubSeq(r, n - (k + 1) + 1, n)
    OBVIOUS
  <2> DEFINE i == n - k
             off == e[i - 1]
             end == e[i]
  <2>1. i \in 1 .. n /\ i - 1 \in 0 .. n /\ i \in 0 .. n /\ n - (k + 1) = i - 1 /\ i - 1 + 1 = i /\ i \in Nat
        /\ k <= n
    BY <1>1
  <2>2. g[end] = SubSeq(r, i + 1, n)
    BY <1>5, <2>1
  <2> HIDE DEF i
  <2>3. off \in Nat /\ off <= Len(l) /\ end \in Nat /\ FrameOn(l, r[i], off, s[i], end)
    BY <1>3, <2>1
  <2>4. r[i] \in [cmd : Bytes, payload : Seq(Bytes)] /\ Sendable(r[i])
    <3>1. r[i] \in Frames
      BY <1>1, <2>1
    <3>2. Sendable(r[i])
      BY <3>1, LineAssumption, Zenon DEF Sendable
    <3> QED
      BY <3>1, <3>2 DEF RequestsOnly
  <2> HIDE DEF off, end
  <2>5. ParseFrame(l, off) = Parsed(r[i], end) /\ off + 1 < Len(l)
    BY <2>3, <2>4, HostFinds
  <2>6. off \in 0 .. Len(l) /\ ~(off + 1 >= Len(l))
    BY <1>1, <2>3, <2>5
  <2>7. g[off] = ScanStep(l, g, off)
    BY <1>2, <2>6
  <2>8. /\ ParseFrame(l, off).ok /\ ParseFrame(l, off).frame = r[i]
        /\ ParseFrame(l, off).next = end
    <3>1. \A f, m : Parsed(f, m).ok /\ Parsed(f, m).frame = f /\ Parsed(f, m).next = m
      BY Zenon DEF Parsed
    <3>2. Parsed(r[i], end).ok /\ Parsed(r[i], end).frame = r[i] /\ Parsed(r[i], end).next = end
      BY <3>1, Zenon
    <3> QED
      BY <2>5, <3>2, Zenon
  <2>9. ScanStep(l, g, off) = <<r[i]>> \o g[end]
    BY <2>6, <2>8, Zenon DEF ScanStep
  <2>10. SubSeq(r, i, n) = <<r[i]>> \o SubSeq(r, i + 1, n)
    <3>1. i \in 1 .. Len(r) /\ n \in i .. Len(r) /\ n = Len(r)
      BY <1>1, <2>1 DEF n
    <3> QED
      BY <3>1, SubSeqRecursiveFirst
  <2>11. g[off] = SubSeq(r, i, n)
    BY <2>2, <2>7, <2>9, <2>10, Zenon
  <2> QED
    BY <2>1, <2>11, Zenon DEF off
<1>6. n \in Done
  BY <1>1, <1>4, <1>5, SetInduction
<1>7. g[e[0]] = SubSeq(r, 1, n)
  <2>1. n <= n /\ n - n = 0 /\ 0 + 1 = 1
    BY <1>1
  <2>2. g[e[n - n]] = SubSeq(r, n - n + 1, n)
    BY <1>6, <2>1
  <2> QED
    BY <2>1, <2>2
<1>8. SubSeq(r, 1, n) = r
  BY SubSeqFull DEF n
<1> QED
  BY <1>2, <1>3, <1>7, <1>8

\* The entry of a request in the log.
Command(cmd, payload) ==
  [whole |-> TRUE, nak |-> Refusal(cmd, payload), cmd |-> cmd, payload |-> payload]

LEMMA CommandLaws ==
  /\ \A b : Take(b)[1] = Command(b[1], SubSeq(b, 3, Len(b)))
  /\ \A c, x : Command(c, x).cmd = c /\ Command(c, x).payload = x
  /\ \A b : Take(b)[1] = Command(Take(b)[1].cmd, Take(b)[1].payload)
<1>1. \A x : <<x>>[1] = x
  OBVIOUS
<1>2. \A b : Take(b)[1] = Command(b[1], SubSeq(b, 3, Len(b)))
  BY <1>1, Zenon DEF Take, Command
<1>3. \A c, x : Command(c, x).cmd = c /\ Command(c, x).payload = x
  BY Zenon DEF Command
<1>4. ASSUME NEW b PROVE Take(b)[1] = Command(Take(b)[1].cmd, Take(b)[1].payload)
  <2>1. PICK c, x : c = b[1] /\ x = SubSeq(b, 3, Len(b))
    BY Zenon
  <2>2. Take(b)[1] = Command(c, x)
    BY <1>2, <2>1, Zenon
  <2>3. Command(c, x).cmd = c /\ Command(c, x).payload = x
    BY <1>3, Zenon
  <2> QED
    BY <2>2, <2>3, Zenon
<1> QED
  BY <1>2, <1>3, <1>4, Zenon

\* What the model says it is.
LEMMA CommandOfRequest ==
  ASSUME NEW f, f.cmd \in Bytes, f.payload \in Seq(Bytes)
  PROVE  Take(<<f.cmd, 0>> \o f.payload)[1] = Command(f.cmd, f.payload)
<1> DEFINE pay == f.payload
           start == <<f.cmd, 0>>
           body == start \o pay
           n == Len(pay)
<1>1. 0 \in Bytes /\ n \in Nat /\ pay \in Seq(Bytes)
  BY LenProperties, LineAssumption DEF Bytes
<1>2. start \in Seq(Bytes) /\ Len(start) = 2 /\ start[1] = f.cmd
  BY <1>1
<1> HIDE DEF start, pay, n
<1>3. IsJoin(body, start, pay, 2, n)
  BY <1>1, <1>2, JoinedAt DEF n
<1> HIDE DEF body
<1>4. body \in Seq(Bytes) /\ Len(body) = 2 + n /\ body[1] = f.cmd
      /\ \A i \in 1 .. n : body[2 + i] = pay[i]
  BY <1>2, <1>3 DEF IsJoin
<1>5. Carries(body, 2, pay)
  BY <1>1, <1>4 DEF Carries, n
<1>6. SubSeq(body, 3, Len(body)) = pay
  <2>1. SubSeq(body, 2 + 1, 2 + Len(pay)) = pay
    BY <1>1, <1>4, <1>5, CarriedSlice
  <2> QED
    BY <1>4, <2>1 DEF n
<1>7. Take(body)[1] = Command(body[1], SubSeq(body, 3, Len(body)))
  BY CommandLaws
<1> QED
  BY <1>4, <1>6, <1>7 DEF body, start, pay

\* The device, hunting, takes a whole frame: it dispatches its command with the
\* last byte and nothing before.
LEMMA DeviceTakes ==
  ASSUME NEW f, Sendable(f), Len(f.payload) <= MaxPayload, NEW w, w = Wire(f),
         NEW p, ParserOK(p), p.st = "HUNT", NEW steps, Runs(steps, p, w, Len(w))
  PROVE  /\ steps[Len(w)].st = "HUNT"
         /\ FlattenSeq([i \in DOMAIN w |-> steps[i].dispatched]) = <<Command(f.cmd, f.payload)>>
         /\ Command(f.cmd, f.payload) \in Entries
<1> DEFINE n == Len(w)
           parts == [i \in DOMAIN w |-> steps[i].dispatched]
           c == Command(f.cmd, f.payload)
<1>1. /\ w \in Seq(Bytes) /\ n \in Nat /\ n >= 5 /\ w[1] = SYNC0 /\ DOMAIN w = 1 .. n
      /\ \A i \in 1 .. n : w[i] \in Bytes
  <2>1. PICK body, m : FrameParts(f, w, body, m)
    BY WireParts
  <2>2. w \in Seq(Bytes) /\ n = 5 + m /\ m \in Nat /\ w[1] = SYNC0
    BY <2>1 DEF FrameParts
  <2> QED
    BY <2>2, LenProperties, ElementOfSeq
<1>2. /\ steps[0] = p
      /\ \A i \in 1 .. n : steps[i] = ParserStep(steps[i - 1], w[i])
  BY DEF Runs
<1> HIDE DEF n
<1>3. ParserOK(steps[1]) /\ Holds(steps[1], w, 1) /\ steps[1].dispatched = <<>>
  <2> DEFINE q == steps[1]
  <2>1. 1 \in 1 .. n /\ 1 - 1 = 0
    BY <1>1
  <2>2. q = ParserStep(p, w[1]) /\ w[1] \in Bytes
    BY <1>1, <1>2, <2>1
  <2> HIDE DEF q
  <2>3. ParserOK(q) /\ (Grows(p, q, w[1]) \/ Begins(p, q, w[1]) \/ Waits(p, q, w[1])
                        \/ Refuses(p, q, w[1]) \/ Ends(p, q, w[1]))
    BY <2>2, StepCases
  <2>4. Begins(p, q, w[1])
    BY <1>1, <2>3 DEF Grows, Waits, Refuses, Ends
  <2>5. Len(Prefix(q)) = 1 /\ Prefix(q)[1] = SYNC0 /\ q.dispatched = <<>>
    BY <2>3, <2>4, PrefixShape DEF Begins
  <2> QED
    BY <1>1, <2>3, <2>5 DEF Holds, q
<1> DEFINE Fine == {k \in Nat : k + 1 < n =>
                      /\ ParserOK(steps[k + 1]) /\ Holds(steps[k + 1], w, k + 1)
                      /\ steps[k + 1].dispatched = <<>>}
<1>4. ASSUME NEW k \in 1 .. n - 1, ParserOK(steps[k]), Holds(steps[k], w, k)
      PROVE  /\ ParserOK(steps[k + 1])
             /\ \/ Continues(steps[k + 1], w, k + 1)
                \/ k + 1 = n /\ Finishes(steps[k], steps[k + 1], f, w)
  <2>1. k + 1 \in 1 .. n /\ k + 1 - 1 = k
    BY <1>1
  <2>2. steps[k + 1] = ParserStep(steps[k], w[k + 1])
    BY <1>2, <2>1
  <2> QED
    BY <1>4, <2>2, FrameStep DEF n
<1>5. ASSUME NEW k \in 1 .. n - 1
      PROVE  ParserOK(steps[k]) /\ Holds(steps[k], w, k) /\ steps[k].dispatched = <<>>
  <2>1. 0 \in Fine
    BY <1>3
  <2>2. ASSUME NEW i \in Nat, i \in Fine PROVE i + 1 \in Fine
    <3> SUFFICES ASSUME i + 1 + 1 < n
                 PROVE  /\ ParserOK(steps[i + 1 + 1]) /\ Holds(steps[i + 1 + 1], w, i + 1 + 1)
                        /\ steps[i + 1 + 1].dispatched = <<>>
      OBVIOUS
    <3> DEFINE m == i + 1
    <3>1. m \in 1 .. n - 1 /\ m + 1 # n
      BY <1>1
    <3>2. ParserOK(steps[m]) /\ Holds(steps[m], w, m)
      BY <1>1, <2>2
    <3> HIDE DEF m
    <3>3. ParserOK(steps[m + 1]) /\ Continues(steps[m + 1], w, m + 1)
      BY <1>4, <3>1, <3>2
    <3> QED
      BY <3>3 DEF Continues, m
  <2>3. Nat \subseteq Fine
    BY <2>1, <2>2, SetInduction
  <2> DEFINE i == k - 1
  <2>4. i \in Nat /\ i + 1 < n /\ i + 1 = k
    BY <1>1
  <2> HIDE DEF i
  <2>5. i \in Fine
    BY <2>3, <2>4
  <2> QED
    BY <2>4, <2>5
<1> HIDE DEF Fine
<1>6. Finishes(steps[n - 1], steps[n], f, w)
  <2> DEFINE k == n - 1
  <2>1. k \in 1 .. n - 1 /\ k + 1 = n
    BY <1>1
  <2> HIDE DEF k
  <2>2. Continues(steps[n], w, n) \/ Finishes(steps[k], steps[n], f, w)
    BY <1>4, <1>5, <2>1
  <2>3. ~Continues(steps[n], w, n)
    BY <1>1 DEF Continues, n
  <2> QED
    BY <2>2, <2>3 DEF k
<1>7. steps[n].st = "HUNT" /\ steps[n].dispatched = <<c>> /\ c \in Entries
  <2> DEFINE d == Take(steps[n - 1].body)[1]
  <2>1. /\ steps[n].st = "HUNT" /\ steps[n].dispatched = <<d>> /\ d \in Entries
        /\ d.cmd = f.cmd /\ d.payload = f.payload
    BY <1>6 DEF Finishes
  <2>2. d = Command(d.cmd, d.payload)
    BY CommandLaws, Zenon
  <2>3. d = c
    BY <2>1, <2>2, Zenon
  <2> QED
    BY <2>1, <2>3, Zenon
<1>8. <<>> \in Seq(Entries) /\ <<c>> \in Seq(Entries)
  BY <1>7
<1> HIDE DEF c
<1>9. ASSUME NEW i \in 1 .. n PROVE steps[i].dispatched = IF i = n THEN <<c>> ELSE <<>>
  <2>1. i # n => i \in 1 .. n - 1
    BY <1>1
  <2> QED
    BY <1>5, <1>7, <2>1
<1>10. parts \in [1 .. n -> Seq(Entries)]
       /\ \A i \in 1 .. n : parts[i] = IF i = n THEN <<c>> ELSE <<>>
  BY <1>1, <1>8, <1>9
<1> HIDE DEF parts
<1>11. PICK g : JoinsUp(g, parts, n) /\ FlattenSeq(parts) = g[n]
  <2>1. n \in Nat \ {0}
    BY <1>1
  <2> QED
    BY <1>10, <2>1, FlattenLaw
<1>12. g[0] = <<>> /\ \A i \in 1 .. n : g[i] = g[i - 1] \o parts[i]
  BY <1>11 DEF JoinsUp
<1>13. \A x \in Seq(Entries) : <<>> \o x = x
  BY ConcatEmptySeq
<1> DEFINE Empty == {k \in Nat : k < n => g[k] = <<>>}
<1>14. Nat \subseteq Empty
  <2>1. 0 \in Empty
    BY <1>12
  <2>2. ASSUME NEW k \in Nat, k \in Empty PROVE k + 1 \in Empty
    <3> SUFFICES ASSUME k + 1 < n PROVE g[k + 1] = <<>>
      OBVIOUS
    <3> DEFINE m == k + 1
    <3>1. m \in 1 .. n /\ m # n /\ m - 1 = k /\ k < n
      BY <1>1
    <3>2. g[k] = <<>>
      BY <2>2, <3>1
    <3> HIDE DEF m
    <3>3. g[m] = g[m - 1] \o parts[m] /\ parts[m] = <<>>
      BY <1>10, <1>12, <3>1
    <3> QED
      BY <1>8, <1>13, <3>1, <3>2, <3>3 DEF m
  <2> QED
    BY <2>1, <2>2, SetInduction
<1>15. g[n] = <<c>>
  <2>1. n - 1 \in Nat /\ n - 1 < n /\ n \in 1 .. n
    BY <1>1
  <2>2. g[n - 1] = <<>>
    BY <1>14, <2>1
  <2>3. g[n] = g[n - 1] \o parts[n] /\ parts[n] = <<c>>
    BY <1>10, <1>12, <2>1
  <2> QED
    BY <1>8, <1>13, <2>2, <2>3
<1> QED
  BY <1>7, <1>11, <1>15 DEF c, n, parts

TrafficInv ==
  /\ LineInv /\ undamaged /\ parser.st = "HUNT"
  /\ request \in Seq(Frames)
  /\ Len(log) = Len(request)
  /\ \A i \in 1 .. Len(request) : log[i] = Command(request[i].cmd, request[i].payload)
  /\ \E s, e : FramesOn(line, request, s, e)

LEMMA TrafficInvInit ==
  ASSUME TrafficInit, LineInv
  PROVE  TrafficInv
<1>1. line = <<>> /\ log = <<>> /\ request = <<>> /\ parser = Idle /\ undamaged = TRUE
  BY DEF TrafficInit
<1>2. parser.st = "HUNT"
  BY <1>1 DEF Idle
<1> DEFINE e == [i \in 0 .. 0 |-> 0]
<1>3. e[0] = 0 /\ \A i \in 0 .. 0 : e[i] \in Nat /\ e[i] <= 0
  OBVIOUS
<1> HIDE DEF e
<1>4. Len(<<>>) = 0 /\ 1 .. 0 = {} /\ 0 + 1 .. 0 = {}
  OBVIOUS
<1>5. FramesOn(<<>>, <<>>, e, e)
  BY <1>3, <1>4 DEF FramesOn, Quiet
<1> QED
  BY <1>1, <1>2, <1>4, <1>5 DEF TrafficInv

LEMMA HissStep ==
  ASSUME TrafficInv, LineInv', Hiss
  PROVE  TrafficInv'
<1>1. PICK b \in Bytes \ {SYNC0} : Receive(b) /\ request' = request /\ undamaged' = undamaged
  BY DEF Hiss
<1>2. /\ line' = Append(line, b) /\ parser' = ParserStep(parser, b)
      /\ log' = log \o parser'.dispatched
  BY <1>1 DEF Receive
<1>3. line \in Seq(Bytes) /\ log \in Seq(Entries) /\ ParserOK(parser) /\ parser.st = "HUNT"
  BY DEF TrafficInv, LineInv, HasParsed
<1>4. \/ Grows(parser, parser', b) \/ Begins(parser, parser', b) \/ Waits(parser, parser', b)
      \/ Refuses(parser, parser', b) \/ Ends(parser, parser', b)
  BY <1>2, <1>3, StepCases
<1>5. parser'.st = "HUNT" /\ parser'.dispatched = <<>>
  BY <1>3, <1>4 DEF Grows, Begins, Waits, Refuses, Ends
<1>6. log' = log
  BY <1>2, <1>3, <1>5, ConcatEmptySeq
<1>7. PICK s, e : FramesOn(line, request, s, e)
  BY DEF TrafficInv
<1>8. FramesOn(line', request', s, e)
  BY <1>1, <1>2, <1>3, <1>7, FramesInNoise DEF TrafficInv
<1> QED
  BY <1>1, <1>5, <1>6, <1>8 DEF TrafficInv

LEMMA SendKeeps ==
  ASSUME RequestsOnly, TrafficInv, LineInv', NEW f \in Frames, Send(f)
  PROVE  TrafficInv'
<1> DEFINE w == Wire(f)
           c == Command(f.cmd, f.payload)
           n == Len(request)
<1>1. PICK steps :
        /\ Runs(steps, parser, w, Len(w))
        /\ line' = line \o w /\ parser' = steps[Len(w)]
        /\ log' = log \o FlattenSeq([i \in DOMAIN w |-> steps[i].dispatched])
  BY SendRuns
<1>2. Sendable(f) /\ Len(f.payload) <= MaxPayload
  BY LineAssumption, Zenon DEF Sendable, RequestsOnly
<1>3. line \in Seq(Bytes) /\ log \in Seq(Entries) /\ ParserOK(parser) /\ parser.st = "HUNT"
  BY DEF TrafficInv, LineInv, HasParsed
<1>4. /\ parser'.st = "HUNT" /\ log' = log \o <<c>> /\ c \in Entries
  <2>1. /\ steps[Len(w)].st = "HUNT" /\ c \in Entries
        /\ FlattenSeq([i \in DOMAIN w |-> steps[i].dispatched]) = <<c>>
    BY <1>1, <1>2, <1>3, DeviceTakes
  <2> QED
    BY <1>1, <2>1
<1>5. /\ request' = Append(request, f) /\ request \in Seq(Frames) /\ n \in Nat
      /\ undamaged' = undamaged
  BY LenProperties DEF Send, TrafficInv
<1>6. /\ request' \in Seq(Frames) /\ Len(request') = n + 1
      /\ request'[n + 1] = f /\ \A i \in 1 .. n : request'[i] = request[i]
  BY <1>5, Added
<1> HIDE DEF c, w
<1>7. /\ Len(log') = n + 1 /\ log'[n + 1] = c
      /\ \A i \in 1 .. n : log'[i] = log[i]
  <2> DEFINE u == Append(log, c)
  <2>1. /\ Len(u) = Len(log) + 1 /\ u[Len(log) + 1] = c
        /\ \A i \in 1 .. Len(log) : u[i] = log[i]
    BY <1>3, <1>4, Added
  <2>2. log' = u
    BY <1>3, <1>4, AppendIsConcat
  <2>3. Len(log) = n
    BY DEF TrafficInv
  <2> HIDE DEF u
  <2> QED
    BY <2>1, <2>2, <2>3
<1>8. ASSUME NEW i \in 1 .. n + 1 PROVE log'[i] = Command(request'[i].cmd, request'[i].payload)
  <2>1. CASE i = n + 1
    BY <1>6, <1>7, <2>1 DEF c
  <2>2. CASE i # n + 1
    <3>1. i \in 1 .. n
      BY <1>5, <2>2
    <3>2. log[i] = Command(request[i].cmd, request[i].payload)
      BY <3>1 DEF TrafficInv
    <3> QED
      BY <1>6, <1>7, <3>1, <3>2
  <2> QED
    BY <2>1, <2>2
<1>9. \E s, e : FramesOn(line', request', s, e)
  <2>1. PICK s, e : FramesOn(line, request, s, e)
    BY DEF TrafficInv
  <2> QED
    BY <1>1, <1>3, <1>5, <2>1, FrameBehind DEF w
<1> QED
  BY <1>4, <1>5, <1>6, <1>7, <1>8, <1>9 DEF TrafficInv

\* The invariant of undamaged traffic.
LEMMA TrafficInvariants == RequestsOnly => (TrafficSpec => []TrafficInv)
<1> SUFFICES ASSUME RequestsOnly PROVE TrafficSpec => []TrafficInv
  OBVIOUS
<1>1. TrafficInit /\ LineInv => TrafficInv
  BY TrafficInvInit
<1>2. ASSUME TrafficInv, LineInv', [Hiss \/ \E f \in Frames : Send(f)]_lineVars PROVE TrafficInv'
  <2>1. CASE Hiss
    BY <1>2, <2>1, HissStep
  <2>2. ASSUME NEW f \in Frames, Send(f) PROVE TrafficInv'
    BY <1>2, <2>2, SendKeeps
  <2>3. CASE UNCHANGED lineVars
    BY <1>2, <2>3 DEF TrafficInv, lineVars
  <2> QED
    BY <1>2, <2>1, <2>2, <2>3
<1> QED
  BY <1>1, <1>2, TrafficInvariant, PTL DEF TrafficSpec

LEMMA TrafficFound ==
  ASSUME RequestsOnly, TrafficInv
  PROVE  undamaged /\ TrafficArrives
<1>5. undamaged
  BY DEF TrafficInv
<1>1. PICK s, e : FramesOn(line, request, s, e)
  BY DEF TrafficInv
<1>2. line \in Seq(Bytes) /\ request \in Seq(Frames) /\ log \in Seq(Entries)
  BY DEF TrafficInv, LineInv, HasParsed
<1>3. ParseAll(line) = request
  BY <1>1, <1>2, HostFindsAll
<1> DEFINE all == [i \in DOMAIN request |-> Take(<<request[i].cmd, 0>> \o request[i].payload)[1]]
<1>4. log = all
  <2>1. DOMAIN log = DOMAIN request /\ DOMAIN request = 1 .. Len(request)
    BY <1>2, LenProperties DEF TrafficInv
  <2>2. ASSUME NEW i \in DOMAIN request PROVE log[i] = all[i]
    <3>1. request[i] \in Frames /\ i \in 1 .. Len(request)
      BY <1>2, <2>1, ElementOfSeq
    <3>2. request[i].cmd \in Bytes /\ request[i].payload \in Seq(Bytes)
      BY <3>1, LineAssumption
    <3>3. log[i] = Command(request[i].cmd, request[i].payload)
      BY <3>1 DEF TrafficInv
    <3>4. log[i] = Take(<<request[i].cmd, 0>> \o request[i].payload)[1]
      BY <3>2, <3>3, CommandOfRequest
    <3> QED
      BY <3>4
  <2>3. log = [i \in DOMAIN log |-> log[i]]
    BY <1>2, LenProperties
  <2> QED
    BY <2>1, <2>2, <2>3
<1> QED
  BY <1>3, <1>4, <1>5, Zenon DEF TrafficArrives

\* TrafficArrives of frames with noise between them: parse_all gives the host
\* every frame that was sent and nothing else, and the device has taken the
\* same ones in the same order.
THEOREM TrafficIsComplete == RequestsOnly => (TrafficSpec => [](undamaged /\ TrafficArrives))
<1> SUFFICES ASSUME RequestsOnly PROVE TrafficSpec => [](undamaged /\ TrafficArrives)
  OBVIOUS
<1>1. TrafficInv => undamaged /\ TrafficArrives
  BY TrafficFound
<1> QED
  BY <1>1, TrafficInvariants, PTL

----------------------------------------------------------------------------
(* The FIFO behind the UART receiver, for every depth and set of words.    *)

FifoTypeOK ==
  /\ mem \in [Slots -> Values] /\ rdData \in Values
  /\ waddr \in Slots /\ raddr \in Slots
  /\ cnt \in 0 .. Depth /\ ramCnt \in 0 .. Depth /\ outVld \in BOOLEAN

FifoInv == FifoTypeOK /\ CountersExact

USE FifoDepthAssumption DEF Slots

\* The invariant holds after reset.
LEMMA FifoInvInit == FifoSyncInit => FifoInv
<1> SUFFICES ASSUME FifoSyncInit PROVE FifoInv
  OBVIOUS
<1>1. outVld = FALSE /\ mem \in [Slots -> Values] /\ rdData \in Values
  BY Zenon DEF FifoSyncInit
<1>2. waddr = 0 /\ raddr = 0 /\ cnt = 0 /\ ramCnt = 0
  BY Zenon DEF FifoSyncInit
<1>3. Count(outVld) = 0
  BY <1>1, Zenon DEF Count
<1>4. CountersExact
  BY <1>2, <1>3 DEF CountersExact, Place
<1>5. waddr \in Slots /\ raddr \in Slots /\ cnt \in 0 .. Depth /\ ramCnt \in 0 .. Depth
  BY <1>2
<1> QED
  BY <1>1, <1>4, <1>5, Zenon DEF FifoInv, FifoTypeOK

\* A clock edge, as numbers: how many words it takes in, moves to the output
\* stage and gives away.
LEMMA Counts ==
  ASSUME FifoInv, NEW offered, NEW ready \in BOOLEAN, Clock(offered, ready)
  PROVE  \E pushed, fetched, popped, held, held2 \in 0 .. 1 :
           /\ pushed = Count(Push(offered)) /\ fetched = Count(Fetch(ready))
           /\ popped = Count(Pop(ready))
           /\ held = Count(outVld) /\ held2 = Count(outVld')
           /\ cnt' = cnt + pushed - popped /\ ramCnt' = ramCnt + pushed - fetched
           /\ pushed = 1 => cnt # Depth
           /\ fetched = 1 => ramCnt # 0
           /\ popped = 1 => held = 1
           /\ fetched = 1 => held = 0 \/ popped = 1
           /\ held2 = held + fetched - popped
<1>1. outVld \in BOOLEAN /\ outVld' \in BOOLEAN
  BY DEF FifoInv, FifoTypeOK, Clock
<1>2. outVld' <=> Fetch(ready) \/ (outVld /\ ~ready)
  BY Zenon DEF Clock
<1>3. /\ Count(Push(offered)) \in 0 .. 1 /\ Count(Fetch(ready)) \in 0 .. 1
      /\ Count(Pop(ready)) \in 0 .. 1 /\ Count(outVld) \in 0 .. 1 /\ Count(outVld') \in 0 .. 1
  BY DEF Count
<1>4. /\ Count(Push(offered)) = 1 => cnt # Depth
      /\ Count(Fetch(ready)) = 1 => ramCnt # 0
      /\ Count(Pop(ready)) = 1 => Count(outVld) = 1
      /\ Count(Fetch(ready)) = 1 => Count(outVld) = 0 \/ Count(Pop(ready)) = 1
  BY DEF Count, Push, WrReady, Fetch, Pop
<1>5. Count(outVld') = Count(outVld) + Count(Fetch(ready)) - Count(Pop(ready))
  <2>1. /\ Count(Fetch(ready)) = IF Fetch(ready) THEN 1 ELSE 0
        /\ Count(outVld) = IF outVld THEN 1 ELSE 0
        /\ Count(outVld') = IF outVld' THEN 1 ELSE 0
        /\ Count(Pop(ready)) = IF outVld /\ ready THEN 1 ELSE 0
    BY Zenon DEF Count, Pop
  <2>2. Fetch(ready) => ~outVld \/ ready
    BY Zenon DEF Fetch
  <2> QED
    BY ONLY <1>2, <2>1, <2>2
<1>6. /\ cnt' = cnt + Count(Push(offered)) - Count(Pop(ready))
      /\ ramCnt' = ramCnt + Count(Push(offered)) - Count(Fetch(ready))
  BY Zenon DEF Clock
<1> QED
  BY <1>3, <1>4, <1>5, <1>6

\* The pointers move by the words taken in and moved on, and no word that
\* stays is overwritten.
RingStep(offered, pushed, fetched) ==
  /\ waddr' = Place(ramCnt + pushed)
  /\ raddr' = Place(fetched)
  /\ \A k \in 0 .. ramCnt + pushed - 1 :
       /\ Place(k) \in Slots
       /\ mem'[Place(k)] = IF k = ramCnt THEN offered[1] ELSE mem[Place(k)]
  /\ fetched = 1 => rdData' = mem[raddr]
  /\ fetched = 0 => rdData' = rdData

\* A clock edge changes the ring as RingStep says.
LEMMA Ring ==
  ASSUME FifoInv, NEW offered, NEW ready \in BOOLEAN, Clock(offered, ready),
         NEW pushed \in 0 .. 1, NEW fetched \in 0 .. 1,
         pushed = Count(Push(offered)), fetched = Count(Fetch(ready)),
         pushed = 1 => cnt # Depth, fetched = 1 => ramCnt # 0
  PROVE  RingStep(offered, pushed, fetched)
<1>1. (Push(offered) <=> pushed = 1) /\ (Fetch(ready) <=> fetched = 1)
  BY DEF Count
<1>2. /\ mem \in [Slots -> Values] /\ raddr \in Slots /\ ramCnt \in 0 .. Depth
      /\ waddr = Place(ramCnt) /\ ramCnt <= cnt /\ cnt <= Depth /\ cnt \in 0 .. Depth
  BY DEF FifoInv, FifoTypeOK, CountersExact, Count
<1>3. waddr' = Place(ramCnt + pushed)
  <2>1. waddr' = IF pushed = 1 THEN After(waddr) ELSE waddr
    BY <1>1, Zenon DEF Clock
  <2>2. pushed = 1 => ramCnt < Depth
    BY <1>2
  <2> QED
    BY <1>2, <2>1, <2>2 DEF After, Place
<1>4. raddr' = Place(fetched)
  <2>1. raddr' = IF fetched = 1 THEN After(raddr) ELSE raddr
    BY <1>1, Zenon DEF Clock
  <2> QED
    BY <1>2, <2>1 DEF After, Place
<1>5. ASSUME NEW k \in 0 .. ramCnt + pushed - 1
      PROVE  /\ Place(k) \in Slots
             /\ mem'[Place(k)] = IF k = ramCnt THEN offered[1] ELSE mem[Place(k)]
  <2>1. mem' = IF pushed = 1 THEN [mem EXCEPT ![waddr] = offered[1]] ELSE mem
    BY <1>1, Zenon DEF Clock
  <2>2. k \in 0 .. Depth - 1 /\ raddr \in 0 .. Depth - 1 /\ ramCnt \in 0 .. Depth
    BY <1>2
  <2>3. Place(k) \in Slots /\ Place(ramCnt) \in Slots
    BY ONLY <2>2, FifoDepthAssumption DEF Place, Slots
  <2>4. pushed = 1 /\ k # ramCnt => Place(k) # Place(ramCnt)
    <3>1. k <= ramCnt
      BY ONLY <2>2, k \in 0 .. ramCnt + pushed - 1, pushed \in 0 .. 1
    <3>2. pushed = 1 => ramCnt < Depth
      BY <1>2
    <3> QED
      BY ONLY <2>2, <3>1, <3>2, FifoDepthAssumption DEF Place
  <2>5. k = ramCnt => pushed = 1
    BY <1>2
  <2> QED
    BY <1>2, <2>1, <2>2, <2>3, <2>4, <2>5
<1>6. /\ fetched = 1 => rdData' = mem[raddr]
      /\ fetched = 0 => rdData' = rdData
  <2>1. rdData' = IF Fetch(ready) THEN mem[raddr] ELSE rdData
    BY Zenon DEF Clock
  <2>2. fetched = 0 => fetched # 1
    OBVIOUS
  <2> QED
    BY <1>1, <2>1, <2>2, Zenon
<1> QED
  BY <1>3, <1>4, <1>5, <1>6 DEF RingStep

\* A clock edge with any push and pop preserves the invariant.
LEMMA FifoInvStep == FifoInv /\ [FifoSyncNext]_fifoVars => FifoInv'
<1> SUFFICES ASSUME FifoInv, FifoSyncNext PROVE FifoInv'
  BY DEF FifoInv, FifoTypeOK, CountersExact, Place, Count, fifoVars
<1>1. PICK offered \in {<<>>} \cup {<<x>> : x \in Values}, ready \in BOOLEAN :
        Clock(offered, ready)
  BY DEF FifoSyncNext
<1>2. PICK pushed, fetched, popped, held, held2 \in 0 .. 1 :
           /\ pushed = Count(Push(offered)) /\ fetched = Count(Fetch(ready))
           /\ popped = Count(Pop(ready))
           /\ held = Count(outVld) /\ held2 = Count(outVld')
           /\ cnt' = cnt + pushed - popped /\ ramCnt' = ramCnt + pushed - fetched
           /\ pushed = 1 => cnt # Depth
           /\ fetched = 1 => ramCnt # 0
           /\ popped = 1 => held = 1
           /\ fetched = 1 => held = 0 \/ popped = 1
           /\ held2 = held + fetched - popped
  BY <1>1, Counts
<1>3. /\ waddr' = Place(ramCnt + pushed) /\ raddr' = Place(fetched)
      /\ fetched = 1 => rdData' = mem[raddr]
      /\ fetched = 0 => rdData' = rdData
  <2>1. RingStep(offered, pushed, fetched)
    BY ONLY <1>1, <1>2, Ring, FifoInv
  <2> QED
    BY <2>1, Zenon DEF RingStep
<1>4. /\ raddr \in Slots /\ ramCnt \in 0 .. Depth /\ cnt \in 0 .. Depth
      /\ cnt = ramCnt + held /\ mem \in [Slots -> Values] /\ rdData \in Values
  BY <1>2 DEF FifoInv, FifoTypeOK, CountersExact
<1>5. /\ pushed \in 0 .. 1 /\ fetched \in 0 .. 1 /\ popped \in 0 .. 1
      /\ held \in 0 .. 1 /\ held2 \in 0 .. 1 /\ held2 = held + fetched - popped
      /\ popped = 1 => held = 1
      /\ fetched = 1 => ramCnt # 0
      /\ pushed = 1 => cnt # Depth
      /\ cnt' = cnt + pushed - popped /\ ramCnt' = ramCnt + pushed - fetched
  BY <1>2, Zenon
<1>6. /\ cnt' \in 0 .. Depth /\ ramCnt' \in 0 .. Depth /\ cnt' = ramCnt' + held2
      /\ ramCnt + pushed \in 0 .. Depth
  BY ONLY <1>4, <1>5, FifoDepthAssumption
<1>7. waddr' \in Slots /\ raddr' \in Slots /\ waddr' = Place(ramCnt)'
  <2>1. raddr' \in Slots
    BY ONLY <1>3, <1>4, <1>5, FifoDepthAssumption DEF Place, Slots
  <2>2. waddr' = Place(ramCnt)'
    BY ONLY <1>3, <1>4, <1>5, <1>6, FifoDepthAssumption DEF Place, Slots
  <2>3. waddr' \in Slots
    BY ONLY <1>3, <1>4, <1>6, FifoDepthAssumption DEF Place, Slots
  <2> QED
    BY <2>1, <2>2, <2>3
<1>8. rdData' \in Values
  BY ONLY <1>3, <1>4, <1>5 DEF Slots
<1>9. mem' \in [Slots -> Values]
  <2>1. CASE Push(offered)
    <3>1. offered[1] \in Values /\ mem' = [mem EXCEPT ![waddr] = offered[1]]
      BY <1>1, <2>1 DEF Clock, Push
    <3> QED
      BY <1>4, <3>1
  <2>2. CASE ~Push(offered)
    BY <1>1, <1>4, <2>2 DEF Clock
  <2> QED
    BY <2>1, <2>2
<1>10. outVld' \in BOOLEAN
  BY <1>1 DEF Clock
<1>11. CountersExact'
  BY <1>2, <1>6, <1>7 DEF CountersExact
<1> QED
  BY <1>6, <1>7, <1>8, <1>9, <1>10, <1>11, Zenon DEF FifoInv, FifoTypeOK

\* The invariant holds in every state.
LEMMA FifoInvariant == FifoSyncSpec => []FifoInv
  BY FifoInvInit, FifoInvStep, PTL DEF FifoSyncSpec

\* The occupancy counters and pointers always describe the ring, and no more
\* words are held than the FIFO promises (prim_fifo_sync.sv 10-14).
THEOREM CountersAreExact == FifoSyncSpec => []CountersExact
<1>1. FifoInv => CountersExact
  BY DEF FifoInv
<1> QED
  BY <1>1, FifoInvariant, PTL
----------------------------------------------------------------------------
\* The queue, word by word.
LEMMA ContentsShape ==
  ASSUME FifoInv, NEW held \in 0 .. 1, held = Count(outVld)
  PROVE  /\ Contents \in Seq(Values) /\ Len(Contents) = cnt
         /\ \A i \in 1 .. cnt :
              Contents[i] = IF held = 1 /\ i = 1 THEN rdData
                            ELSE mem[Place(i - 1 - held)]
<1> DEFINE ring == [i \in 1 .. ramCnt |-> mem[Place(i - 1)]]
           stage == IF outVld THEN <<rdData>> ELSE <<>>
<1>1. /\ mem \in [Slots -> Values] /\ rdData \in Values /\ raddr \in Slots
      /\ ramCnt \in 0 .. Depth /\ cnt = ramCnt + held
  BY DEF FifoInv, FifoTypeOK, CountersExact
<1>2. ASSUME NEW i \in 1 .. ramCnt PROVE Place(i - 1) \in Slots
  BY ONLY <1>1, <1>2, FifoDepthAssumption, i \in 1 .. ramCnt DEF Place, Slots
<1>3. ring \in Seq(Values) /\ Len(ring) = ramCnt /\ \A i \in 1 .. ramCnt : ring[i] = mem[Place(i - 1)]
  BY <1>1, <1>2
<1>4. /\ stage \in Seq(Values) /\ Len(stage) = held
      /\ held = 1 => stage[1] = rdData
  BY <1>1 DEF Count
<1> HIDE DEF ring, stage
<1>5. Contents = stage \o ring
  BY Zenon DEF Contents, ring, stage
<1>6. /\ Contents \in Seq(Values) /\ Len(Contents) = cnt
      /\ \A i \in 1 .. cnt : Contents[i] = IF i <= held THEN stage[i] ELSE ring[i - held]
  BY ONLY <1>1, <1>3, <1>4, <1>5
<1>7. ASSUME NEW i \in 1 .. cnt
      PROVE  Contents[i] = IF held = 1 /\ i = 1 THEN rdData ELSE mem[Place(i - 1 - held)]
  <2>1. CASE i <= held
    BY <1>4, <1>6, <2>1
  <2>2. CASE i > held
    <3>1. i - held \in 1 .. ramCnt /\ ~(held = 1 /\ i = 1) /\ ~(i <= held)
      BY ONLY <1>1, <2>2, i \in 1 .. cnt, held \in 0 .. 1
    <3>2. i - held - 1 = i - 1 - held
      BY ONLY <1>1, i \in 1 .. cnt, held \in 0 .. 1
    <3>3. ring[i - held] = mem[Place(i - held - 1)]
      BY <1>3, <3>1
    <3> QED
      BY <1>6, <3>1, <3>2, <3>3
  <2> QED
    BY ONLY <1>1, <2>1, <2>2, i \in 1 .. cnt, held \in 0 .. 1
<1> QED
  BY <1>6, <1>7

\* The contents in terms of counters and ring.
Shape ==
  /\ Contents \in Seq(Values) /\ Len(Contents) = cnt
  /\ \A i \in 1 .. cnt : Contents[i] = IF Count(outVld) = 1 /\ i = 1 THEN rdData
                                       ELSE mem[Place(i - 1 - Count(outVld))]

\* What the refinement uses of the invariant, in this state.
LEMMA ShapeNow == FifoInv => Shape
<1>1. Count(outVld) \in 0 .. 1
  BY DEF Count
<1> QED
  BY <1>1, ContentsShape DEF Shape

\* What the refinement uses of the invariant, in the next state.
LEMMA ShapeNext == FifoInv' => Shape'
  BY ShapeNow, PTL

\* A clock edge takes at most the first word of the queue and puts at most the
\* offered one behind the last.
LEMMA QueueStep ==
  ASSUME FifoInv, FifoInv', FifoSyncNext
  PROVE  Abstract!FifoNext
<1>1. PICK offered \in {<<>>} \cup {<<x>> : x \in Values}, ready \in BOOLEAN :
        Clock(offered, ready)
  BY DEF FifoSyncNext
<1>2. PICK pushed, fetched, popped, held, held2 \in 0 .. 1 :
           /\ pushed = Count(Push(offered)) /\ fetched = Count(Fetch(ready))
           /\ popped = Count(Pop(ready))
           /\ held = Count(outVld) /\ held2 = Count(outVld')
           /\ cnt' = cnt + pushed - popped /\ ramCnt' = ramCnt + pushed - fetched
           /\ pushed = 1 => cnt # Depth
           /\ fetched = 1 => ramCnt # 0
           /\ popped = 1 => held = 1
           /\ fetched = 1 => held = 0 \/ popped = 1
           /\ held2 = held + fetched - popped
  BY <1>1, Counts
<1>3. /\ raddr' = Place(fetched)
      /\ fetched = 1 => rdData' = mem[raddr]
      /\ fetched = 0 => rdData' = rdData
      /\ \A k \in 0 .. ramCnt + pushed - 1 :
           /\ Place(k) \in Slots
           /\ mem'[Place(k)] = IF k = ramCnt THEN offered[1] ELSE mem[Place(k)]
  <2>1. RingStep(offered, pushed, fetched)
    BY ONLY <1>1, <1>2, Ring, FifoInv
  <2> QED
    BY <2>1, Zenon DEF RingStep
<1>4. /\ raddr \in 0 .. Depth - 1 /\ ramCnt \in 0 .. Depth /\ cnt \in 0 .. Depth
      /\ cnt = ramCnt + held
  BY <1>2 DEF FifoInv, FifoTypeOK, CountersExact
<1>5. /\ pushed \in 0 .. 1 /\ fetched \in 0 .. 1 /\ popped \in 0 .. 1
      /\ held \in 0 .. 1 /\ held2 \in 0 .. 1 /\ held2 = held + fetched - popped
      /\ popped = 1 => held = 1
      /\ fetched = 1 => ramCnt # 0 /\ (held = 0 \/ popped = 1)
      /\ pushed = 1 => cnt # Depth
      /\ cnt' = cnt + pushed - popped
  BY <1>2, Zenon
<1> DEFINE before == Contents
           after  == Contents'
           taken  == IF Push(offered) THEN offered ELSE <<>>
           result == SubSeq(before, popped + 1, Len(before)) \o taken
<1>6. /\ before \in Seq(Values) /\ Len(before) = cnt
      /\ \A i \in 1 .. cnt : before[i] = IF held = 1 /\ i = 1 THEN rdData
                                         ELSE mem[Place(i - 1 - held)]
  BY ONLY <1>2, FifoInv, ShapeNow DEF Shape
<1>7. /\ after \in Seq(Values) /\ Len(after) = cnt'
      /\ \A i \in 1 .. cnt' : after[i] = IF held2 = 1 /\ i = 1 THEN rdData'
                                         ELSE mem'[Place(i - 1 - held2)']
  BY ONLY <1>2, FifoInv', ShapeNext DEF Shape
<1>8. /\ taken \in {<<>>} \cup {<<x>> : x \in Values} /\ taken \in Seq(Values)
      /\ Len(taken) = pushed
      /\ pushed = 1 => taken[1] = offered[1]
  <2>1. Push(offered) <=> pushed = 1
    BY <1>2 DEF Count
  <2>2. CASE Push(offered)
    <3>1. offered # <<>> /\ taken = offered /\ pushed = 1
      BY <2>1, <2>2, Zenon DEF Push
    <3>2. PICK x \in Values : offered = <<x>>
      BY <1>1, <3>1
    <3> QED
      BY <3>1, <3>2
  <2>3. CASE ~Push(offered)
    BY <1>5, <2>1, <2>3
  <2> QED
    BY <2>2, <2>3
<1> HIDE DEF before, after, taken, result
<1>9. result \in Seq(Values) /\ Len(result) = cnt'
  <2>1. popped <= cnt
    BY ONLY <1>4, <1>5
  <2> QED
    BY ONLY <1>4, <1>5, <1>6, <1>8, <2>1 DEF result
<1>10. ASSUME NEW i \in 1 .. cnt' PROVE after[i] = result[i]
  <2>0. i \in Nat /\ i >= 1 /\ i <= cnt'
    BY ONLY <1>4, <1>5, i \in 1 .. cnt'
  <2>1. result[i] = IF i <= cnt - popped THEN before[i + popped] ELSE taken[1]
    <3>1. i <= cnt - popped => result[i] = before[i + popped]
      <4> DEFINE rest == SubSeq(before, popped + 1, Len(before))
      <4>1. /\ rest \in Seq(Values) /\ Len(rest) = cnt - popped
            /\ \A j \in 1 .. cnt - popped : rest[j] = before[popped + j]
        BY ONLY <1>4, <1>5, <1>6
      <4>2. result = rest \o taken
        BY DEF result
      <4> HIDE DEF rest
      <4>3. i <= cnt - popped => result[i] = rest[i]
        BY ONLY <1>8, <2>0, <4>1, <4>2
      <4> QED
        BY ONLY <1>4, <1>5, <2>0, <4>1, <4>3
    <3>2. i > cnt - popped => pushed = 1 /\ i = cnt - popped + 1
      BY ONLY <1>4, <1>5, <2>0
    <3>3. i > cnt - popped => result[i] = taken[1]
      BY ONLY <1>4, <1>5, <1>6, <1>8, <2>0, <3>2 DEF result
    <3> QED
      BY ONLY <3>1, <3>3, <1>4, <1>5, <2>0
  <2>2. CASE held2 = 1 /\ i = 1
    <3>1. after[i] = IF fetched = 1 THEN mem[raddr] ELSE rdData
      BY ONLY <1>3, <1>5, <1>7, <2>2, i \in 1 .. cnt'
    <3>2. CASE fetched = 1
      <4>1. popped = held /\ 1 <= cnt - popped /\ 1 + popped \in 1 .. cnt
        BY ONLY <1>4, <1>5, <3>2
      <4>2. before[1 + popped] = mem[Place(0)]
        BY ONLY <1>5, <1>6, <4>1
      <4>3. Place(0) = raddr
        BY <1>4 DEF Place
      <4> QED
        BY ONLY <2>1, <2>2, <3>1, <3>2, <4>1, <4>2, <4>3
    <3>3. CASE fetched = 0
      <4>1. popped = 0 /\ held = 1 /\ 1 <= cnt - popped
        BY ONLY <1>4, <1>5, <2>2, <3>3
      <4>2. before[1 + popped] = rdData
        BY ONLY <1>4, <1>5, <1>6, <4>1
      <4> QED
        BY ONLY <2>1, <2>2, <3>1, <3>3, <4>1, <4>2
    <3> QED
      BY ONLY <1>5, <3>2, <3>3
  <2>3. CASE ~(held2 = 1 /\ i = 1)
    <3> DEFINE n == i - 1 - held + popped
    <3>1. after[i] = mem'[Place(i - 1 - held2)']
      BY <1>7, <2>3
    <3>2. n \in 0 .. ramCnt + pushed - 1 /\ i - 1 - held2 = n - fetched /\ n >= fetched
      <4>1. i - 1 - held2 = n - fetched
        BY ONLY <1>4, <1>5, <2>0
      <4>2. n >= fetched
        BY ONLY <1>4, <1>5, <2>0, <2>3
      <4>3. n \in 0 .. ramCnt + pushed - 1
        BY ONLY <1>4, <1>5, <2>0, <2>3, <4>2
      <4> QED
        BY <4>1, <4>2, <4>3
    <3>3. Place(i - 1 - held2)' = Place(n)
      <4>1. raddr' = Place(fetched) /\ n <= Depth
        BY ONLY <1>3, <1>4, <1>5, <3>2, FifoDepthAssumption
      <4> HIDE DEF n
      <4> QED
        BY ONLY <1>4, <1>5, <3>2, <4>1, FifoDepthAssumption, i - 1 - held2 = n - fetched DEF Place
    <3>4. mem'[Place(n)] = IF n = ramCnt THEN offered[1] ELSE mem[Place(n)]
      BY ONLY <1>3, <3>2
    <3>5. CASE i <= cnt - popped
      <4>1. i + popped \in 1 .. cnt /\ ~(held = 1 /\ i + popped = 1) /\ i + popped - 1 - held = n
            /\ n # ramCnt
        BY ONLY <1>4, <1>5, <2>0, <2>3, <3>5
      <4>2. before[i + popped] = mem[Place(n)]
        BY <1>6, <4>1
      <4> QED
        BY ONLY <2>1, <3>1, <3>3, <3>4, <3>5, <4>1, <4>2
    <3>6. CASE ~(i <= cnt - popped)
      <4>1. pushed = 1 /\ n = ramCnt
        BY ONLY <1>4, <1>5, <2>0, <3>6
      <4> QED
        BY ONLY <1>8, <2>1, <3>1, <3>3, <3>4, <3>6, <4>1
    <3> QED
      BY <3>5, <3>6
  <2> QED
    BY <2>2, <2>3
<1>11. after = result
  BY ONLY <1>7, <1>9, <1>10
<1>12. /\ popped <= Len(before) /\ Len(before) + Len(taken) <= Depth
  BY ONLY <1>4, <1>5, <1>6, <1>8, FifoDepthAssumption
<1> QED
  BY <1>5, <1>8, <1>11, <1>12 DEF Abstract!FifoNext, before, after, result

\* RAM and output stage together are a first-in first-out queue that holds
\* Depth words: nothing is lost, repeated or overtaken (prim_fifo_sync.sv).
THEOREM FifoSyncImplementsFifo == FifoSyncSpec => SyncIsFifo
<1>1. FifoSyncInit => Abstract!FifoInit
  <2> SUFFICES ASSUME FifoSyncInit PROVE Contents = <<>>
    BY DEF Abstract!FifoInit
  <2>1. Contents \in Seq(Values) /\ Len(Contents) = 0
    BY FifoInvInit, ShapeNow DEF Shape, FifoSyncInit
  <2> QED
    BY <2>1
<1>2. FifoInv /\ FifoInv' /\ [FifoSyncNext]_fifoVars => [Abstract!FifoNext]_Contents
  <2>1. UNCHANGED fifoVars => UNCHANGED Contents
    BY DEF fifoVars, Contents, Place
  <2> QED
    BY <2>1, QueueStep
<1> QED
  BY <1>1, <1>2, FifoInvariant, PTL DEF FifoSyncSpec, SyncIsFifo, Abstract!Fifo

----------------------------------------------------------------------------
(* The serial line.  All times are counted from now: a moment that is past *)
(* is negative.                                                            *)

\* The clock cycles of a bit and the two periods.
D == Link.div
T == Link.txPeriod
P == Link.rxPeriod

\* Bit k of a byte begins Begin(k) after the line fell; the receiver looks at
\* it one to two cycles later than Look(k).
Begin(k) == k * (D * T)
Look(k) == HalfBit * P + k * (D * P)

\* When the line fell for the byte or the noise on it, seen from now.
Fall == IF tx.bits # 0 THEN txIn + tx.cnt * T - Begin(11 - tx.bits)
        ELSE txIn - noise * T

\* When the level is sampled that the receiver acts on next.
Aim == rxIn + (rx.cnt - 2) * P

\* The k-th level of a byte on the line.
Bit(byte, k) == IF k = 0 THEN Start ELSE IF k = 9 THEN Stop ELSE byte[k]

\* The transmitter is sending a byte.
SendsOn(byte, bits, left, now) ==
  /\ bits \in 1 .. 10
  /\ now = Bit(byte, 10 - bits)
  /\ \A i \in 1 .. bits - 1 : left[i] = Bit(byte, 10 - bits + i)

Sending(byte) == SendsOn(byte, tx.bits, tx.left, level)

Levels == {0, 1}

\* Noise is on an idle line only, and not for long.
TxOK ==
  /\ txIn \in 1 .. T /\ level \in Levels /\ noise \in Nat
  /\ tx \in [left : Seq(Levels), bits : 0 .. 10, cnt : 0 .. D - 1]
  /\ tx.bits # 0 => Len(tx.left) = tx.bits - 1
  /\ tx.bits = 0 => tx = TxIdle /\ (noise = 0 => level = 1)
                     /\ (level = 0 => noise <= Link.noiseCycles)
  /\ noise # 0 => tx.bits = 0 /\ Link.noiseCycles > 0

RxOK ==
  /\ rxIn \in 1 .. P /\ sync \in Levels \X Levels
  /\ rx \in [st : {"RX_IDLE", "RX_START", "RX_BITS", "RX_STOP"}, cnt : 0 .. D, levels : Seq(Levels)]
  /\ rx.st = "RX_IDLE" => rx = RxIdle
  /\ rx.st = "RX_START" => rx.levels = <<>>

\* The receiver has looked at the last level it waits for, and it was high.
Ending ==
  /\ rx.st \in {"RX_START", "RX_STOP"}
  /\ \/ rx.cnt = 1 /\ sync[1] = 1
     \/ rx.cnt = 0 /\ sync[2] = 1

Free == (rx = RxIdle /\ sync[2] = 1) \/ Ending

\* A byte the receiver has read and not delivered.
Pending == IF rx.st = "RX_STOP" THEN <<rx.levels>> ELSE <<>>

\* The receiver is to read the byte that is being sent, if there is one.
UnderWay == IF tx.bits = 0 THEN inFlight = Pending
         ELSE \E byte \in Link.bytes : Sending(byte) /\ inFlight = Pending \o <<byte>>

\* There is a byte or noise on the line.
Event == tx.bits # 0 \/ noise # 0

Over ==
  /\ level = 1 /\ sync[1] = 1 /\ Free
  /\ tx.bits \in {0, 1} /\ inFlight = Pending

Unseen == Event /\ sync[1] = 1 /\ Free /\ UnderWay /\ rxIn - P <= Fall

SeenOnce ==
  /\ Event /\ sync[1] = 0 /\ sync[2] = 1 /\ Free /\ UnderWay
  /\ Fall <= rxIn - P /\ rxIn - P <= Fall + P

SeenTwice ==
  /\ Event /\ sync[2] = 0 /\ rx = RxIdle /\ UnderWay
  /\ Fall <= rxIn - 2 * P /\ rxIn - 2 * P <= Fall + P

Window(k) == Fall + Look(k) + P <= Aim /\ Aim <= Fall + Look(k) + 2 * P

\* The bit the receiver looks at next.
BitDue == IF rx.st = "RX_START" THEN 0 ELSE Len(rx.levels) + 1

\* The receiver has the first levels of a byte.
Reads(byte) ==
  /\ Sending(byte) /\ inFlight = <<byte>>
  /\ \A i \in 1 .. Len(rx.levels) : rx.levels[i] = byte[i]
  /\ rx.cnt = 1 => sync[1] = Bit(byte, BitDue)
  /\ rx.cnt = 0 => sync[2] = Bit(byte, BitDue)

Reading ==
  /\ rx.st \in {"RX_START", "RX_BITS", "RX_STOP"} /\ Window(BitDue)
  /\ rx.st = "RX_BITS" => Len(rx.levels) <= 7
  /\ rx.st = "RX_STOP" => Len(rx.levels) = 8
  /\ \E byte \in Link.bytes : Reads(byte)
  /\ rx.st = "RX_STOP" /\ rx.cnt = 0 => sync[1] = 1

Rejecting ==
  /\ noise # 0 /\ rx.st = "RX_START" /\ Window(0) /\ inFlight = <<>>
  /\ rx.cnt = 1 => sync[1] = 1
  /\ rx.cnt = 0 => sync[1] = 1 /\ sync[2] = 1

Phases == Over \/ Unseen \/ SeenOnce \/ SeenTwice \/ Reading \/ Rejecting

UartInv == /\ setting \in DOMAIN Settings /\ TxOK /\ RxOK
           /\ Phases

DeliveredRight == delivered.valid => delivered.due # <<>> /\ delivered.data = Head(delivered.due)

\* What the periods are to each other, free of products.
Clocks ==
  /\ D \in Nat /\ T \in Nat \ {0} /\ P \in Nat \ {0} /\ HalfBit \in Nat \ {0} /\ D >= 3
  /\ D * T \in Nat /\ D * P \in Nat /\ HalfBit * P \in Nat
  /\ Begin(0) = 0 /\ Look(0) = HalfBit * P /\ P <= HalfBit * P
  /\ 3 * P < D * T
  /\ \A k \in 0 .. 10 : Begin(k) \in Nat /\ Look(k) \in Nat
  /\ \A k \in 0 .. 9 : /\ Begin(k + 1) = Begin(k) + D * T
                       /\ Look(k + 1) = Look(k) + D * P
                       /\ Begin(k) < Look(k) + P /\ Look(k) + 2 * P < Begin(k + 1)
  /\ \A j \in 0 .. 9, k \in 0 .. 10 : j < k => Begin(j + 1) <= Begin(k)

\* When noise is over.
Quietens ==
  Link.noiseCycles > 0 =>
    /\ Link.noiseCycles * T \in Nat /\ Link.noiseCycles * T < Look(0) + P
    /\ Look(0) + 2 * P < (HalfBit + 3) * T

LEMMA Monotone == \A a, b, c \in Nat : a <= b => a * c <= b * c
OBVIOUS

LEMMA Distributes == \A a, b, c \in Int : (a + b) * c = a * c + b * c /\ a * c \in Int
OBVIOUS

LEMMA ClocksAgree ==
  ASSUME setting \in DOMAIN Settings, Tolerant(Link)
  PROVE  Clocks /\ Quietens
<1> DEFINE h == HalfBit
           dt == D * T
           dp == D * P
           hp == h * P
<1>1. /\ D \in Nat \ {0} /\ T \in Nat \ {0} /\ P \in Nat \ {0} /\ Link.noiseCycles \in Nat
      /\ Link.div = D /\ Link.txPeriod = T /\ Link.rxPeriod = P
  BY SettingsAssumption DEF Link, D, T, P
<1>2. h \in Nat /\ 2 * h <= D /\ D <= 2 * h + 1 /\ h = D \div 2
  BY <1>1 DEF HalfBit
<1>3. dt \in Nat /\ dp \in Nat /\ hp \in Nat
  BY <1>1, <1>2
<1>4. ASSUME NEW k \in 0 .. 10
      PROVE  /\ Begin(k) = k * dt /\ Look(k) = hp + k * dp
             /\ (D \div 2 + k * D) * P = hp + k * dp
             /\ k * dt \in Nat /\ k * dp \in Nat
  <2>1. k \in Nat /\ k * D \in Nat
    BY <1>1
  <2>2. k * dt \in Nat /\ k * dp \in Nat
    BY <2>1, <1>3
  <2>3. (h + k * D) * P = h * P + (k * D) * P
    BY <1>1, <1>2, <2>1, Distributes
  <2>4. (k * D) * P = k * (D * P)
    BY <1>1, <2>1
  <2> QED
    BY <1>2, <2>2, <2>3, <2>4 DEF Begin, Look
<1>5. ASSUME NEW k \in 0 .. 9
      PROVE  k * dt < hp + k * dp + P /\ hp + k * dp + 2 * P < (k + 1) * dt
  <2>1. /\ k * (D * T) < (D \div 2 + k * D) * P + P
        /\ (D \div 2 + k * D) * P + 2 * P < (k + 1) * (D * T)
    BY <1>1 DEF Tolerant
  <2>2. (D \div 2 + k * D) * P = hp + k * dp
    BY <1>4
  <2> QED
    BY <2>1, <2>2
<1>6. (D \div 2 + 0 * D) * P = hp /\ 0 * dt = 0 /\ 0 * dp = 0 /\ 1 * dt = dt
  BY <1>1, <1>2, <1>3
<1>7. hp + 2 * P < dt /\ 9 * dt < hp + 9 * dp + P
  BY <1>3, <1>5, <1>6
<1>8. D >= 3 /\ h \in Nat \ {0} /\ P <= hp
  <2>1. D # 1
    <3> SUFFICES ASSUME D = 1 PROVE FALSE
      OBVIOUS
    <3>1. dt = T /\ dp = P /\ h = 0 /\ hp = 0
      BY <1>1, <1>2
    <3> HIDE DEF dt, dp, h, hp
    <3> QED
      BY <1>1, <1>7, <3>1
  <2>2. D # 2
    <3> SUFFICES ASSUME D = 2 PROVE FALSE
      OBVIOUS
    <3>1. dt = 2 * T /\ dp = 2 * P /\ h = 1 /\ hp = P
      BY <1>1, <1>2
    <3> HIDE DEF dt, dp, h, hp
    <3> QED
      BY <1>1, <1>7, <3>1
  <2>3. D >= 3 /\ 1 <= h
    BY <1>1, <1>2, <2>1, <2>2
  <2>4. 1 * P <= h * P
    BY <1>1, <1>2, <2>3, Monotone
  <2> QED
    BY <1>1, <1>2, <2>3, <2>4
<1>9. \A k \in 0 .. 9 : (k + 1) * dt = k * dt + dt /\ (k + 1) * dp = k * dp + dp
  <2> SUFFICES ASSUME NEW k \in 0 .. 9
               PROVE (k + 1) * dt = k * dt + dt /\ (k + 1) * dp = k * dp + dp
    OBVIOUS
  <2>1. k \in Int /\ 1 \in Int /\ dt \in Int /\ dp \in Int /\ 1 * dt = dt /\ 1 * dp = dp
    BY <1>3
  <2> HIDE DEF dt, dp
  <2> QED
    BY <2>1, Distributes
<1>10. \A j \in 0 .. 9, k \in 0 .. 10 : j < k => (j + 1) * dt <= k * dt
  <2> HIDE DEF dt
  <2> QED
    BY <1>3, Monotone
<1>11. Quietens
  <2> SUFFICES ASSUME Link.noiseCycles > 0
               PROVE  /\ Link.noiseCycles * T \in Nat /\ Link.noiseCycles * T < Look(0) + P
                      /\ Look(0) + 2 * P < (HalfBit + 3) * T
    BY DEF Quietens
  <2>1. /\ Link.noiseCycles * T < (D \div 2 + 0 * D) * P + P
        /\ (D \div 2 + 0 * D) * P + 2 * P < (h + 3) * T
    BY <1>1, <1>2 DEF Tolerant
  <2>2. Look(0) = hp
    BY <1>4, <1>6
  <2>3. Link.noiseCycles * T \in Nat
    BY <1>1
  <2> QED
    BY <1>6, <2>1, <2>2, <2>3
<1> HIDE DEF h, dt, dp, hp
<1>12. /\ Begin(0) = 0 /\ Look(0) = hp
       /\ \A k \in 0 .. 10 : Begin(k) = k * dt /\ Look(k) = hp + k * dp /\ Begin(k) \in Nat /\ Look(k) \in Nat
  BY <1>3, <1>4, <1>6
<1>13. \A k \in 0 .. 9 : /\ Begin(k + 1) = Begin(k) + dt /\ Look(k + 1) = Look(k) + dp
                         /\ Begin(k) < Look(k) + P /\ Look(k) + 2 * P < Begin(k + 1)
  <2> SUFFICES ASSUME NEW k \in 0 .. 9
               PROVE  /\ Begin(k + 1) = Begin(k) + dt /\ Look(k + 1) = Look(k) + dp
                      /\ Begin(k) < Look(k) + P /\ Look(k) + 2 * P < Begin(k + 1)
    OBVIOUS
  <2>1. k \in 0 .. 10 /\ k + 1 \in 0 .. 10
    OBVIOUS
  <2>2. /\ Begin(k) = k * dt /\ Look(k) = hp + k * dp
        /\ Begin(k + 1) = (k + 1) * dt /\ Look(k + 1) = hp + (k + 1) * dp
    BY <1>12, <2>1
  <2>3. k * dt \in Nat /\ k * dp \in Nat
    BY <1>4, <2>1
  <2>4. (k + 1) * dt = k * dt + dt /\ (k + 1) * dp = k * dp + dp
    BY <1>9
  <2>5. k * dt < hp + k * dp + P /\ hp + k * dp + 2 * P < (k + 1) * dt
    BY <1>5
  <2> QED
    BY <1>1, <1>3, <2>2, <2>3, <2>4, <2>5
<1>14. \A j \in 0 .. 9, k \in 0 .. 10 : j < k => Begin(j + 1) <= Begin(k)
  <2> SUFFICES ASSUME NEW j \in 0 .. 9, NEW k \in 0 .. 10, j < k PROVE Begin(j + 1) <= Begin(k)
    OBVIOUS
  <2>1. j + 1 \in 0 .. 10
    OBVIOUS
  <2>2. Begin(j + 1) = (j + 1) * dt /\ Begin(k) = k * dt
    BY <1>12, <2>1
  <2> QED
    BY <1>10, <2>2
<1>15. 3 * P < dt
  BY <1>1, <1>3, <1>7, <1>8
<1> QED
  BY <1>1, <1>3, <1>8, <1>11, <1>12, <1>13, <1>14, <1>15 DEF Clocks, h, dt, dp, hp

LEMMA BitLaws ==
  ASSUME Clocks, NEW k \in 0 .. 9
  PROVE  /\ Begin(k) \in Nat /\ Begin(k + 1) \in Nat /\ Begin(k + 1) = Begin(k) + D * T
         /\ Look(k) \in Nat /\ Look(k + 1) \in Nat /\ Look(k + 1) = Look(k) + D * P
         /\ Begin(k) < Look(k) + P /\ Look(k) + 2 * P < Begin(k + 1)
<1>1. k \in 0 .. 10 /\ k + 1 \in 0 .. 10
  OBVIOUS
<1>2. \A i \in 0 .. 10 : Begin(i) \in Nat /\ Look(i) \in Nat
  BY DEF Clocks
<1>3. \A i \in 0 .. 9 : /\ Begin(i + 1) = Begin(i) + D * T
                        /\ Look(i + 1) = Look(i) + D * P
                        /\ Begin(i) < Look(i) + P /\ Look(i) + 2 * P < Begin(i + 1)
  BY DEF Clocks
<1> QED
  BY <1>1, <1>2, <1>3

LEMMA BeginNat == ASSUME Clocks, NEW k \in 0 .. 10 PROVE Begin(k) \in Nat /\ Begin(k) \in Int
<1>1. Begin(k) \in Nat
  BY Zenon DEF Clocks
<1> QED
  BY <1>1

LEMMA BitOrder ==
  ASSUME Clocks, NEW j \in 0 .. 9, NEW k \in 0 .. 10, j < k
  PROVE  Begin(j + 1) <= Begin(k)
BY Zenon DEF Clocks

\* Constants of a setting stay.
LEMMA SettingStays ==
  ASSUME setting' = setting
  PROVE  /\ D' = D /\ T' = T /\ P' = P /\ HalfBit' = HalfBit /\ Link' = Link
         /\ \A k \in Int : Begin(k)' = Begin(k) /\ Look(k)' = Look(k)
BY DEF D, T, P, HalfBit, Link, Begin, Look

\* The byte or noise goes on while time t passes.
GoesOn(t) ==
  /\ Event /\ Event' /\ Fall \in Int /\ Fall' = Fall - t
  /\ (tx.bits = 0) = (tx'.bits = 0)
  /\ \A byte \in Link.bytes : Sending(byte) => Sending(byte)'
  /\ tx.bits = 1 => tx'.bits = 1 /\ level' = level
  /\ tx.bits = 0 /\ level = 1 => level' = 1
  /\ tx'.bits = 10 => tx.bits = 10

\* What the receiver sees after time t while the line goes on.
Shows(t) ==
  /\ \A byte \in Link.bytes, k \in 0 .. 9 :
       /\ Sending(byte) /\ Begin(k) < t - Fall /\ t - Fall < Begin(k + 1)
       => level = Bit(byte, k) /\ level' = Bit(byte, k)
  /\ tx.bits # 0 /\ Begin(9) < t - Fall => tx.bits = 1
  /\ noise # 0 /\ Link.noiseCycles * T < t - Fall => level = 1 /\ level' = 1

\* The byte or noise ends with the next edge of the transmitter.
LineEnds ==
  \/ tx.bits = 1 /\ tx.cnt = 0
  \/ tx.bits = 0 /\ noise # 0 /\ Clear

\* A byte or noise begins.
Starts ==
  /\ Event' /\ Fall' = 0 /\ level' = 0
  /\ tx'.bits = 0 \/ \E byte \in Link.bytes :
       Sending(byte)' /\ tx'.bits = 10 /\ SubSeq(tx'.left, 1, 8) = byte

\* The line is quiet.
Silent == tx' = TxIdle /\ noise' = 0 /\ level' = 1

\* The level between two edges of the transmitter.
LEMMA LevelShown ==
  ASSUME TxOK, Clocks, tx.bits # 0, NEW t \in Nat \ {0}, t <= txIn
  PROVE  /\ Fall = txIn + tx.cnt * T - Begin(11 - tx.bits) /\ Fall \in Int /\ Fall <= 0
         /\ t - Fall <= Begin(11 - tx.bits) - tx.cnt * T
         /\ tx.cnt * T \in Nat /\ (tx.cnt # 0 => tx.cnt * T >= T)
         /\ Begin(10 - tx.bits) < t - Fall
         /\ \A k \in 0 .. 9 : Begin(k) < t - Fall /\ t - Fall < Begin(k + 1)
                               => k = 10 - tx.bits /\ (tx.cnt # 0 \/ t < txIn)
<1>1. tx.bits \in 1 .. 10 /\ tx.cnt \in 0 .. D - 1 /\ txIn \in 1 .. T
  BY DEF TxOK
<1> DEFINE j == 10 - tx.bits
           c == tx.cnt * T
<1>2. j \in 0 .. 9 /\ j + 1 = 11 - tx.bits
  BY <1>1
<1>3. c \in Nat /\ (tx.cnt # 0 => c >= T) /\ (tx.cnt = 0 => c = 0) /\ c + T <= D * T
  <2>1. T \in Nat /\ D \in Nat
    BY DEF Clocks
  <2>2. tx.cnt \in Nat /\ tx.cnt + 1 <= D
    BY <1>1, <2>1
  <2>3. (tx.cnt + 1) * T <= D * T
    BY <2>1, <2>2, Monotone
  <2>4. (tx.cnt + 1) * T = tx.cnt * T + T
    BY <2>1, <2>2
  <2>5. tx.cnt # 0 => 1 * T <= tx.cnt * T
    BY <2>1, <2>2, Monotone
  <2> QED
    BY <2>1, <2>2, <2>3, <2>4, <2>5
<1>4. Fall = txIn + c - Begin(j + 1)
  BY <1>1, <1>2 DEF Fall
<1> HIDE DEF c, j
<1>5. Begin(j) \in Nat /\ Begin(j + 1) \in Nat /\ Begin(j + 1) = Begin(j) + D * T /\ T \in Nat /\ D * T \in Nat
  <2>1. T \in Nat /\ D * T \in Nat
    BY DEF Clocks
  <2> QED
    BY <1>2, <2>1, BitLaws
<1>6. t - Fall <= Begin(j + 1) - c /\ Begin(j) < t - Fall /\ Fall \in Int
  BY <1>1, <1>3, <1>4, <1>5
<1>7. ASSUME NEW k \in 0 .. 9, Begin(k) < t - Fall, t - Fall < Begin(k + 1)
      PROVE  k = j /\ (tx.cnt # 0 \/ t < txIn)
  <2>1. k < j => Begin(k + 1) <= Begin(j)
    BY <1>2, BitOrder
  <2>2. j < k => Begin(j + 1) <= Begin(k)
    BY <1>2, BitOrder
  <2>3. Begin(k) \in Nat /\ Begin(k + 1) \in Nat
    BY BitLaws
  <2>4. k = j
    BY <1>2, <1>3, <1>5, <1>6, <1>7, <2>1, <2>2, <2>3
  <2> QED
    BY <1>1, <1>3, <1>4, <1>5, <1>7, <2>4
<1>8. Fall <= 0
  <2>1. Begin(j) >= 0 /\ txIn <= T
    BY <1>1, <1>5
  <2> QED
    BY <1>1, <1>3, <1>4, <1>5, <2>1
<1> QED
  BY <1>2, <1>3, <1>4, <1>6, <1>7, <1>8 DEF c, j

\* The line in the middle of a byte.
LEMMA ShiftGoesOn ==
  ASSUME TxOK, Clocks, tx.bits # 0, ~(tx.bits = 1 /\ tx.cnt = 0), Shift, txIn' = T, setting' = setting
  PROVE  TxOK' /\ GoesOn(txIn)
<1>1. /\ tx.bits \in 1 .. 10 /\ tx.cnt \in 0 .. D - 1 /\ txIn \in 1 .. T /\ tx.left \in Seq(Levels)
      /\ Len(tx.left) = tx.bits - 1 /\ noise = 0 /\ level \in Levels
      /\ tx \in [left : Seq(Levels), bits : 0 .. 10, cnt : 0 .. D - 1]
  BY DEF TxOK
<1>2. T \in Nat \ {0} /\ D \in Nat /\ D >= 3 /\ D * T \in Nat
  BY DEF Clocks
<1>3. T' = T /\ D' = D /\ Link' = Link /\ \A k \in Int : Begin(k)' = Begin(k)
  BY SettingStays, Zenon
<1>4. noise' = 0
  BY <1>1 DEF Shift
<1>5. Fall = txIn + tx.cnt * T - Begin(11 - tx.bits) /\ Fall \in Int
  <2>1. txIn \in Nat \ {0} /\ txIn <= txIn
    BY <1>1, <1>2
  <2> QED
    BY <1>1, <2>1, LevelShown
<1>6. CASE tx.cnt # 0
  <2>1. tx' = [tx EXCEPT !.cnt = tx.cnt - 1] /\ level' = level
    BY <1>6 DEF Shift
  <2>2. tx'.bits = tx.bits /\ tx'.left = tx.left /\ tx'.cnt = tx.cnt - 1
    BY <1>1, <2>1
  <2>3. TxOK'
    <3>2. tx.cnt - 1 \in 0 .. D - 1
      BY <1>1, <1>2, <1>6
    <3>1. tx' \in [left : Seq(Levels), bits : 0 .. 10, cnt : 0 .. D - 1]
      BY <1>1, <2>1, <3>2
    <3> QED
      BY <1>1, <1>2, <1>3, <1>4, <2>1, <2>2, <3>1 DEF TxOK
  <2>4. Fall' = Fall - txIn
    <3>1. Fall' = T + (tx.cnt - 1) * T - Begin(11 - tx.bits)
      <4>1. Begin(11 - tx.bits)' = Begin(11 - tx.bits)
        BY <1>3, <2>2 DEF Begin
      <4> QED
        BY <1>1, <1>3, <2>2, <4>1 DEF Fall
    <3>2. (tx.cnt - 1) * T + T = tx.cnt * T /\ (tx.cnt - 1) * T \in Int
      BY <1>1, <1>2
    <3>3. Begin(11 - tx.bits) \in Int
      <4>1. 11 - tx.bits \in 0 .. 10
        BY <1>1
      <4> QED
        BY <4>1, BeginNat
    <3> DEFINE x == (tx.cnt - 1) * T
               y == tx.cnt * T
               b == Begin(11 - tx.bits)
    <3>4. Fall = txIn + y - b /\ Fall' = T + x - b /\ x + T = y /\ x \in Int /\ b \in Int
      BY <1>5, <3>1, <3>2, <3>3
    <3>5. txIn \in Int /\ T \in Int
      BY <1>1, <1>2
    <3> HIDE DEF x, y, b
    <3> QED
      BY <3>4, <3>5
  <2>5. \A byte \in Link.bytes : Sending(byte) => Sending(byte)'
    BY <2>1, <2>2 DEF Sending
  <2> QED
    <3>1. Event /\ Event' /\ (tx.bits = 0) = (tx'.bits = 0)
      BY <2>2 DEF Event
    <3>2. tx.bits = 1 => tx'.bits = 1 /\ level' = level
      BY <2>1, <2>2
    <3> QED
      BY <1>5, <2>2, <2>3, <2>4, <2>5, <3>1, <3>2 DEF GoesOn
<1>7. CASE tx.cnt = 0
  <2>1. tx.bits \in 2 .. 10
    BY <1>1, <1>7
  <2>2. /\ level' = Head(tx.left)
        /\ tx' = [left |-> Tail(tx.left), bits |-> tx.bits - 1, cnt |-> D - 1]
    BY <1>7, <2>1 DEF Shift, D
  <2>3. tx'.bits = tx.bits - 1 /\ tx'.left = Tail(tx.left) /\ tx'.cnt = D - 1
    BY <2>2
  <2>4. /\ Tail(tx.left) \in Seq(Levels) /\ Len(Tail(tx.left)) = tx.bits - 2
        /\ Head(tx.left) = tx.left[1] /\ tx.left[1] \in Levels
        /\ \A i \in 1 .. tx.bits - 2 : Tail(tx.left)[i] = tx.left[i + 1]
    <3>1. tx.left # <<>> /\ 1 \in 1 .. Len(tx.left)
      BY <1>1, <2>1
    <3>2. Head(tx.left) = tx.left[1]
      BY <1>1, <3>1
    <3>3. tx.left[1] \in Levels
      BY <1>1, <3>1, ElementOfSeq
    <3> QED
      BY <1>1, <2>1, <3>1, <3>2, <3>3, HeadTailProperties
  <2>5. TxOK'
    <3>1. tx' \in [left : Seq(Levels), bits : 0 .. 10, cnt : 0 .. D - 1]
      BY <1>2, <2>1, <2>2, <2>4
    <3>2. Len(tx'.left) = tx'.bits - 1 /\ tx'.bits # 0
      BY <2>1, <2>3, <2>4
    <3> QED
      BY <1>2, <1>3, <1>4, <2>2, <2>4, <3>1, <3>2 DEF TxOK
  <2>6. Fall' = Fall - txIn
    <3> DEFINE k == 11 - tx.bits
    <3>1. k \in 0 .. 9 /\ k + 1 = 11 - (tx.bits - 1)
      BY <2>1
    <3>2. Begin(k) \in Nat /\ Begin(k + 1) = Begin(k) + D * T
      BY <3>1, BitLaws
    <3>3. Fall' = T + (D - 1) * T - Begin(k + 1)
      <4>1. Begin(11 - tx.bits)' = Begin(k + 1)
        BY <1>3, <2>3, <3>1 DEF Begin
      <4> QED
        BY <1>3, <2>1, <2>3, <4>1 DEF Fall
    <3>4. (D - 1) * T + T = D * T /\ (D - 1) * T \in Int
      BY <1>2
    <3>5. tx.cnt * T = 0
      BY <1>2, <1>7
    <3> HIDE DEF k
    <3>6. Fall = txIn - Begin(k)
      BY <1>1, <1>5, <3>2, <3>5 DEF k
    <3> QED
      BY <1>1, <1>2, <3>2, <3>3, <3>4, <3>6
  <2>7. ASSUME NEW byte \in Link.bytes, Sending(byte) PROVE Sending(byte)'
    <3>1. level' = Bit(byte, 10 - tx'.bits)
      <4>1. 1 \in 1 .. tx.bits - 1 /\ 10 - tx.bits + 1 = 10 - tx'.bits
        BY <2>1, <2>3
      <4>2. tx.left[1] = Bit(byte, 10 - tx.bits + 1)
        BY <2>7, <4>1, Zenon DEF Sending, SendsOn
      <4> QED
        BY <2>2, <2>4, <4>1, <4>2
    <3>2. ASSUME NEW i \in 1 .. tx'.bits - 1 PROVE tx'.left[i] = Bit(byte, 10 - tx'.bits + i)
      <4>1. i \in 1 .. tx.bits - 2 /\ i + 1 \in 1 .. tx.bits - 1
        BY <2>1, <2>3
      <4>2. tx.left[i + 1] = Bit(byte, 10 - tx.bits + (i + 1))
        BY <2>7, <4>1, Zenon DEF Sending, SendsOn
      <4>3. 10 - tx.bits + (i + 1) = 10 - tx'.bits + i
        BY <2>1, <2>3, <4>1
      <4> QED
        BY <2>3, <2>4, <4>1, <4>2, <4>3
    <3>3. tx'.bits \in 1 .. 10
      BY <2>1, <2>3
    <3> QED
      BY <3>1, <3>2, <3>3, Zenon DEF Sending, SendsOn
  <2> QED
    <3>1. Event /\ Event' /\ (tx.bits = 0) = (tx'.bits = 0)
      BY <2>1, <2>3 DEF Event
    <3>2. tx.bits # 1 /\ tx'.bits # 10
      BY <2>1, <2>3
    <3> QED
      BY <1>5, <2>5, <2>6, <2>7, <3>1, <3>2 DEF GoesOn
<1> QED
  BY <1>6, <1>7

\* A byte and its stop bit.
LEMMA ByteOnLine ==
  ASSUME NEW byte \in [1 .. 8 -> {0, 1}]
  PROVE  /\ byte \in Seq(Levels) /\ Len(byte) = 8
         /\ byte \o <<Stop>> \in Seq(Levels) /\ Len(byte \o <<Stop>>) = 9
         /\ \A i \in 1 .. 9 : (byte \o <<Stop>>)[i] = Bit(byte, i)
         /\ SubSeq(byte \o <<Stop>>, 1, 8) = byte
<1>1. byte \in Seq(Levels) /\ Len(byte) = 8
  <2>1. byte \in [1 .. 8 -> Levels] /\ 8 \in Nat
    BY DEF Levels
  <2>2. byte \in Seq(Levels)
    <3>1. byte \in UNION {[1 .. n -> Levels] : n \in Nat}
      BY <2>1
    <3> QED
      BY <3>1, SeqDef, Zenon
  <2>3. DOMAIN byte = 1 .. 8 /\ DOMAIN byte = 1 .. Len(byte) /\ Len(byte) \in Nat
    BY <2>1, <2>2, LenProperties
  <2> QED
    BY <2>2, <2>3
<1>2. <<Stop>> \in Seq(Levels) /\ Len(<<Stop>>) = 1 /\ <<Stop>>[1] = 1
  BY DEF Levels, Stop
<1> DEFINE q == byte \o <<Stop>>
           w == <<Stop>>
<1>3. /\ q \in Seq(Levels) /\ Len(q) = 9 /\ \A i \in 1 .. 8 : q[i] = byte[i]
      /\ q[9] = 1
  <2>1. w \in Seq(Levels) /\ Len(w) = 1 /\ w[1] = 1 /\ q = byte \o w
    BY <1>2
  <2> HIDE DEF w, q
  <2>2. /\ q \in Seq(Levels) /\ Len(q) = Len(byte) + Len(w)
        /\ \A i \in 1 .. Len(byte) + Len(w) : q[i] = IF i <= Len(byte) THEN byte[i] ELSE w[i - Len(byte)]
    BY <1>1, <2>1, ConcatProperties
  <2>3. Len(q) = 9 /\ \A i \in 1 .. 9 : q[i] = IF i <= 8 THEN byte[i] ELSE w[i - 8]
    <3>1. Len(byte) = 8 /\ Len(w) = 1 /\ Len(byte) + Len(w) = 9
      BY <1>1, <2>1
    <3> QED
      BY <2>2, <3>1, Zenon
  <2>4. q[9] = w[1]
    <3>1. 9 \in 1 .. 9 /\ ~(9 <= 8) /\ 9 - 8 = 1
      OBVIOUS
    <3> QED
      BY <2>3, <3>1
  <2>5. \A i \in 1 .. 8 : q[i] = byte[i]
    BY <2>3
  <2> QED
    BY <2>1, <2>2, <2>3, <2>4, <2>5
<1>4. \A i \in 1 .. 9 : q[i] = Bit(byte, i)
  <2> HIDE DEF q
  <2> QED
    BY <1>3 DEF Bit, Stop
<1> HIDE DEF q
<1>5. SubSeq(q, 1, 8) = byte
  <2>1. \A i \in 1 .. 8 : q[i] \in Levels
    <3> SUFFICES ASSUME NEW i \in 1 .. 8 PROVE q[i] \in Levels
      OBVIOUS
    <3>1. i \in 1 .. Len(q)
      BY <1>3
    <3> QED
      BY <1>3, <3>1, ElementOfSeq
  <2>2. /\ SubSeq(q, 1, 8) \in Seq(Levels) /\ Len(SubSeq(q, 1, 8)) = 8
        /\ \A i \in 1 .. 8 : SubSeq(q, 1, 8)[i] = q[i]
    BY <2>1, SubSeqProperties
  <2> QED
    BY <1>1, <1>3, <2>2, SeqEqual
<1> QED
  BY <1>1, <1>3, <1>4, <1>5 DEF q

\* A byte begins.
LEMMA LoadStarts ==
  ASSUME setting \in DOMAIN Settings, TxOK, Clocks, Load, txIn' = T, setting' = setting
  PROVE  TxOK' /\ Starts
<1>1. T \in Nat \ {0} /\ D \in Nat /\ D >= 3 /\ D * T \in Nat
  BY DEF Clocks
<1>2. T' = T /\ D' = D /\ Link' = Link /\ \A k \in Int : Begin(k)' = Begin(k)
  BY SettingStays, Zenon
<1>3. PICK byte \in Link.bytes : tx' = [left |-> byte \o <<Stop>>, bits |-> 10, cnt |-> D - 1]
  BY DEF Load, D
<1>4. byte \in [1 .. 8 -> {0, 1}]
  BY SettingsAssumption DEF Link
<1> DEFINE q == byte \o <<Stop>>
<1>5. q \in Seq(Levels) /\ Len(q) = 9 /\ SubSeq(q, 1, 8) = byte /\ \A i \in 1 .. 9 : q[i] = Bit(byte, i)
  BY <1>4, ByteOnLine
<1>6. tx'.left = q /\ tx'.bits = 10 /\ tx'.cnt = D - 1 /\ level' = 0 /\ noise' = 0
  BY <1>3 DEF Load, Start
<1> HIDE DEF q
<1>7. TxOK'
  <2>1. tx' \in [left : Seq(Levels), bits : 0 .. 10, cnt : 0 .. D - 1]
    <3>1. D - 1 \in 0 .. D - 1 /\ 10 \in 0 .. 10
      BY <1>1
    <3>2. tx' = [left |-> q, bits |-> 10, cnt |-> D - 1]
      BY <1>3 DEF q
    <3> QED
      BY <1>5, <3>1, <3>2
  <2>2. Len(tx'.left) = tx'.bits - 1 /\ tx'.bits # 0
    BY <1>5, <1>6
  <2>3. txIn' \in 1 .. T /\ T' = T /\ D' = D /\ level' \in {0, 1} /\ noise' = 0
    BY <1>1, <1>2, <1>6
  <2> QED
    BY <2>1, <2>2, <2>3 DEF TxOK, Levels
<1>8. Sending(byte)'
  <2>1. level' = Bit(byte, 10 - 10)
    BY <1>6 DEF Bit, Start
  <2>2. \A i \in 1 .. 10 - 1 : q[i] = Bit(byte, 10 - 10 + i)
    BY <1>5
  <2> QED
    BY <1>6, <2>1, <2>2 DEF Sending, SendsOn
<1>9. Fall' = 0
  <2>1. Fall' = T + (D - 1) * T - Begin(1)
    <3>1. Begin(11 - tx.bits)' = Begin(1)
      BY <1>2, <1>6 DEF Begin
    <3> QED
      BY <1>2, <1>6, <3>1 DEF Fall
  <2>2. (D - 1) * T + T = D * T /\ (D - 1) * T \in Int
    BY <1>1
  <2>3. Begin(1) = D * T
    <3>1. 0 \in 0 .. 9 /\ 0 + 1 = 1 /\ Begin(0) = 0
      BY DEF Clocks
    <3>2. Begin(0 + 1) = Begin(0) + D * T
      BY <3>1, BitLaws
    <3> QED
      BY <1>1, <3>1, <3>2
  <2> DEFINE x == (D - 1) * T
             y == D * T
  <2>4. Fall' = T + x - y /\ x + T = y /\ x \in Int
    BY <2>1, <2>2, <2>3
  <2> HIDE DEF x, y
  <2> QED
    BY <1>1, <2>4
<1>10. Event'
  BY <1>6 DEF Event
<1> QED
  BY <1>5, <1>6, <1>7, <1>8, <1>9, <1>10 DEF Starts

\* The line while nothing is sent.
LEMMA PauseKinds ==
  ASSUME setting \in DOMAIN Settings, TxOK, Clocks, tx.bits = 0, Pause, txIn' = T, setting' = setting
  PROVE  TxOK' /\ IF Clear THEN Starts \/ Silent ELSE GoesOn(txIn)
<1>1. /\ tx = TxIdle /\ noise \in Nat /\ level \in {0, 1} /\ txIn \in 1 .. T
      /\ noise = 0 => level = 1
      /\ level = 0 => noise <= Link.noiseCycles
      /\ noise # 0 => Link.noiseCycles > 0
  BY DEF TxOK, Levels
<1>2. T \in Nat \ {0} /\ D \in Nat /\ D >= 3
  BY DEF Clocks
<1>3. T' = T /\ D' = D /\ Link' = Link
  BY SettingStays, Zenon
<1>4. Link.noiseCycles \in Nat
  BY SettingsAssumption DEF Link
<1>5. /\ tx' = TxIdle /\ TxIdle \in [left : Seq(Levels), bits : 0 .. 10, cnt : 0 .. D - 1]
      /\ TxIdle.bits = 0 /\ TxIdle.left = <<>>
  BY <1>2 DEF Pause, TxIdle
<1>6. ASSUME noise' \in Nat, level' \in {0, 1}, noise' = 0 => level' = 1,
             level' = 0 => noise' <= Link.noiseCycles, noise' # 0 => Link.noiseCycles > 0
      PROVE  TxOK'
  BY <1>2, <1>3, <1>5, <1>6 DEF TxOK, Levels
<1>7. Fall' = T - noise' * T
  BY <1>3, <1>5 DEF Fall
<1>8. CASE Clear /\ noise' = 0 /\ level' = 1
  BY <1>5, <1>6, <1>8 DEF Silent
<1>9. CASE Clear /\ Link.noiseCycles > 0 /\ noise' = 1 /\ level' = 0
  <2>1. TxOK'
    BY <1>4, <1>6, <1>9
  <2>2. Fall' = 0
    BY <1>2, <1>7, <1>9
  <2> QED
    BY <1>5, <1>9, <2>1, <2>2 DEF Starts, Event
<1>10. CASE /\ ~Clear /\ noise' = noise + 1
            /\ level' \in IF level = 0 /\ noise < Link.noiseCycles THEN {0, 1} ELSE {1}
  <2>1. noise # 0
    BY <1>10 DEF Clear
  <2>2. TxOK'
    BY <1>1, <1>4, <1>6, <1>10, <2>1
  <2>3. Fall = txIn - noise * T /\ noise * T \in Nat
    BY <1>1, <1>2, <1>5 DEF Fall
  <2>4. (noise + 1) * T = noise * T + T
    BY <1>1, <1>2
  <2>5. Fall' = Fall - txIn /\ Fall \in Int
    <3> DEFINE x == noise * T
               y == (noise + 1) * T
    <3>1. Fall = txIn - x /\ Fall' = T - y /\ x \in Nat /\ y = x + T
      BY <1>7, <1>10, <2>3, <2>4
    <3>2. txIn \in Int /\ T \in Int
      BY <1>1, <1>2
    <3> HIDE DEF x, y
    <3> QED
      BY <3>1, <3>2
  <2>6. Event /\ Event'
    BY <1>1, <1>10, <2>1 DEF Event
  <2>7. \A byte \in Link.bytes : ~Sending(byte)
    BY <1>1, <1>5 DEF Sending, SendsOn
  <2>8. level = 1 => level' = 1
    BY <1>10
  <2>9. tx.bits = 0 /\ tx'.bits = 0
    BY <1>5
  <2> QED
    BY <1>10, <2>2, <2>5, <2>6, <2>7, <2>8, <2>9 DEF GoesOn
<1> QED
  BY <1>8, <1>9, <1>10 DEF Pause

\* An edge of the transmitter lets the byte or noise go on, or ends it, if
\* there was any, and leaves the line quiet or begins another.
LEMMA TxKinds ==
  ASSUME setting \in DOMAIN Settings, TxOK, Clocks, TxEdge, txIn' = T, setting' = setting
  PROVE  /\ TxOK'
         /\ IF Event /\ ~LineEnds THEN GoesOn(txIn) ELSE Starts \/ Silent
<1>1. CASE tx.bits = 0 /\ Load
  <2>1. Clear
    BY <1>1 DEF Load
  <2>2. ~Event \/ LineEnds
    BY <1>1, <2>1 DEF Event, LineEnds
  <2> QED
    BY <1>1, <2>2, LoadStarts
<1>2. CASE tx.bits = 0 /\ Pause
  <2>1. Clear <=> ~Event \/ LineEnds
    BY <1>2 DEF Event, LineEnds, Clear
  <2> QED
    BY <1>2, <2>1, PauseKinds
<1>3. CASE tx.bits # 0 /\ Shift
  <2>1. CASE tx.bits = 1 /\ tx.cnt = 0
    <3>1. tx' = TxIdle /\ level' = 1 /\ noise' = noise
      BY <1>3, <2>1 DEF Shift
    <3>2. noise = 0
      BY <1>3 DEF TxOK
    <3>3. T' = T /\ D' = D /\ T \in Nat \ {0} /\ D \in Nat /\ D >= 3
      <4>1. T' = T /\ D' = D
        BY SettingStays, Zenon
      <4> QED
        BY <4>1 DEF Clocks
    <3>4. /\ TxIdle \in [left : Seq(Levels), bits : 0 .. 10, cnt : 0 .. D - 1]
          /\ TxIdle.bits = 0
      BY <3>3 DEF TxIdle
    <3>5. TxOK'
      BY <3>1, <3>2, <3>3, <3>4 DEF TxOK, Levels
    <3> QED
      BY <2>1, <3>1, <3>2, <3>5 DEF Silent, LineEnds
  <2>2. CASE ~(tx.bits = 1 /\ tx.cnt = 0)
    <3>1. Event /\ ~LineEnds
      BY <1>3, <2>2 DEF Event, LineEnds
    <3> QED
      BY <1>3, <2>2, <3>1, ShiftGoesOn
  <2> QED
    BY <2>1, <2>2
<1>4. CASE Link.gapless /\ tx.bits = 1 /\ tx.cnt = 0 /\ Load
  <2>1. LineEnds
    BY <1>4 DEF LineEnds
  <2> QED
    BY <1>4, <2>1, LoadStarts
<1> QED
  BY <1>1, <1>2, <1>3, <1>4 DEF TxEdge

\* What the receiver sees while the line goes on, with an edge of the
\* transmitter at the end of that time or none.
LEMMA LineShows ==
  ASSUME setting \in DOMAIN Settings, TxOK, Clocks, Event, setting' = setting, NEW t \in Nat \ {0},
         \/ t < txIn /\ UNCHANGED <<level, tx, noise>>
         \/ t = txIn /\ ~LineEnds /\ TxEdge
  PROVE  Shows(t)
<1>1. CASE tx.bits # 0
  <2>1. t <= txIn
    BY DEF TxOK, Clocks
  <2>2. /\ tx.bits \in 1 .. 10 /\ noise = 0
        /\ Fall \in Int /\ t - Fall <= Begin(11 - tx.bits) - tx.cnt * T
        /\ tx.cnt * T \in Nat
        /\ \A k \in 0 .. 9 : Begin(k) < t - Fall /\ t - Fall < Begin(k + 1)
                              => k = 10 - tx.bits /\ (tx.cnt # 0 \/ t < txIn)
    <3>1. tx.bits \in 1 .. 10 /\ noise = 0
      BY <1>1 DEF TxOK
    <3> QED
      BY <1>1, <2>1, <3>1, LevelShown
  <2>3. ASSUME NEW byte \in Link.bytes, NEW k \in 0 .. 9, Sending(byte),
               Begin(k) < t - Fall, t - Fall < Begin(k + 1)
        PROVE  level = Bit(byte, k) /\ level' = Bit(byte, k)
    <3>1. k = 10 - tx.bits /\ (tx.cnt # 0 \/ t < txIn)
      BY <2>2, <2>3
    <3>2. level = Bit(byte, k)
      BY <2>3, <3>1 DEF Sending, SendsOn
    <3>3. level' = level
      <4>1. CASE t < txIn /\ UNCHANGED <<level, tx, noise>>
        BY <4>1
      <4>2. CASE t = txIn /\ ~LineEnds /\ TxEdge
        <5>1. tx.cnt # 0
          BY <2>1, <3>1, <4>2 DEF TxOK
        <5> QED
          BY <1>1, <4>2, <5>1 DEF TxEdge, Shift
      <4> QED
        BY <4>1, <4>2
    <3> QED
      BY <3>2, <3>3
  <2>4. ASSUME Begin(9) < t - Fall PROVE tx.bits = 1
    <3> DEFINE m == 11 - tx.bits
    <3>1. m \in 1 .. 10 /\ t - Fall <= Begin(m) /\ Fall \in Int
      <4>1. t - Fall <= Begin(m) - tx.cnt * T /\ tx.cnt * T \in Nat
        BY <2>2
      <4>2. m \in 0 .. 10
        BY <2>2
      <4>3. Begin(m) \in Int
        BY <4>2, BeginNat
      <4> DEFINE c == tx.cnt * T
      <4> HIDE DEF m, c
      <4> QED
        BY <2>2, <4>1, <4>2, <4>3 DEF m, c
    <3> HIDE DEF m
    <3>2. m < 10 => Begin(m) <= Begin(9)
      <4> SUFFICES ASSUME m < 10 PROVE Begin(m) <= Begin(9)
        OBVIOUS
      <4>1. m - 1 \in 0 .. 9 /\ 9 \in 0 .. 10 /\ m - 1 < 9 /\ m - 1 + 1 = m
        BY <3>1
      <4>2. Begin(m - 1 + 1) <= Begin(9)
        BY <4>1, BitOrder
      <4> QED
        BY <4>1, <4>2
    <3>3. Begin(m) \in Int /\ Begin(9) \in Int
      <4>1. m \in 0 .. 10 /\ 9 \in 0 .. 10
        BY <3>1
      <4> QED
        BY <4>1, BeginNat
    <3>4. m = 10
      BY <2>4, <3>1, <3>2, <3>3
    <3> QED
      BY <2>2, <3>4 DEF m
  <2> QED
    BY <2>2, <2>3, <2>4 DEF Shows
<1>2. CASE tx.bits = 0
  <2>1. /\ noise \in Nat /\ level \in {0, 1} /\ txIn \in 1 .. T /\ Fall = txIn - noise * T
        /\ level = 0 => noise <= Link.noiseCycles
    BY <1>2 DEF TxOK, Fall, Levels
  <2>2. Link.noiseCycles \in Nat /\ T \in Nat \ {0}
    BY SettingsAssumption DEF Link, Clocks
  <2>3. ASSUME NEW byte \in Link.bytes PROVE ~Sending(byte)
    BY <1>2 DEF Sending, SendsOn
  <2>4. ASSUME noise # 0, Link.noiseCycles * T < t - Fall PROVE level = 1 /\ level' = 1
    <3>1. Link.noiseCycles < noise
      <4> SUFFICES ASSUME noise <= Link.noiseCycles PROVE FALSE
        BY <2>1, <2>2
      <4>1. noise * T <= Link.noiseCycles * T
        BY <2>1, <2>2, Monotone
      <4>2. noise * T \in Nat /\ Link.noiseCycles * T \in Nat /\ t <= txIn
        BY <2>1, <2>2
      <4> DEFINE x == noise * T
                 y == Link.noiseCycles * T
      <4>3. x <= y /\ y < t - Fall /\ Fall = txIn - x /\ x \in Nat /\ y \in Nat /\ t <= txIn
        BY <2>1, <2>4, <4>1, <4>2
      <4> HIDE DEF x, y
      <4> QED
        BY <2>1, <2>2, <4>3
    <3>2. level = 1
      BY <2>1, <2>2, <3>1
    <3>3. CASE UNCHANGED <<level, tx, noise>>
      BY <3>2, <3>3
    <3>4. CASE ~LineEnds /\ TxEdge
      <4>1. ~Clear
        BY <1>2, <2>4, <3>4 DEF LineEnds
      <4>2. Pause
        BY <1>2, <3>4, <4>1 DEF TxEdge, Load
      <4> QED
        BY <3>2, <4>1, <4>2 DEF Pause
    <3> QED
      BY <3>2, <3>3, <3>4
  <2> QED
    BY <1>2, <2>3, <2>4 DEF Shows
<1> QED
  BY <1>1, <1>2

\* Where the level the receiver acts on next was or is sampled.
LEMMA AimLaws ==
  ASSUME RxOK, Clocks
  PROVE  /\ Aim \in Int /\ rxIn \in Int /\ rxIn > 0 /\ rxIn <= P /\ P \in Int
         /\ rxIn - 2 * P <= Aim
         /\ rx.cnt = 0 => Aim = rxIn - 2 * P
         /\ rx.cnt = 1 => Aim = rxIn - P
         /\ rx.cnt = 2 => Aim = rxIn
         /\ rx.cnt >= 2 => Aim >= rxIn
<1>1. rx.cnt \in Nat /\ rxIn \in 1 .. P /\ P \in Nat \ {0}
  BY DEF RxOK, Clocks
<1> DEFINE c == rx.cnt
<1>2. (c - 2) * P = c * P - 2 * P
  BY <1>1
<1>3. c * P \in Nat /\ (c >= 2 => 2 * P <= c * P)
  BY <1>1, Monotone
<1>4. (c = 0 => c * P = 0) /\ (c = 1 => c * P = P) /\ (c = 2 => c * P = 2 * P)
  BY <1>1
<1> DEFINE m == c * P
<1>5. Aim = rxIn + (m - 2 * P)
  BY <1>2 DEF Aim
<1>6. m \in Nat /\ (c >= 2 => 2 * P <= m) /\ (c = 0 => m = 0) /\ (c = 1 => m = P) /\ (c = 2 => m = 2 * P)
  BY <1>3, <1>4
<1> HIDE DEF m, c
<1> QED
  BY <1>1, <1>5, <1>6 DEF c

LEMMA PlaceLaw ==
  ASSUME RxOK, Reading
  PROVE  /\ BitDue \in 0 .. 9 /\ (BitDue = 9 <=> rx.st = "RX_STOP")
         /\ BitDue = 0 <=> rx.st = "RX_START"
         /\ Len(rx.levels) \in Nat /\ (rx.st # "RX_START" => BitDue = Len(rx.levels) + 1)
<1>1. /\ rx.st \in {"RX_START", "RX_BITS", "RX_STOP"} /\ Len(rx.levels) \in Nat
      /\ rx.st = "RX_START" => rx.levels = <<>>
  BY DEF RxOK, Reading
<1>2. CASE rx.st = "RX_START"
  <2>1. BitDue = 0
    BY <1>2 DEF BitDue
  <2> QED
    BY <1>1, <1>2, <2>1
<1>3. CASE rx.st = "RX_BITS"
  <2>1. BitDue = Len(rx.levels) + 1 /\ Len(rx.levels) <= 7
    BY <1>3 DEF Reading, BitDue
  <2> QED
    BY <1>1, <1>3, <2>1
<1>4. CASE rx.st = "RX_STOP"
  <2>1. BitDue = Len(rx.levels) + 1 /\ Len(rx.levels) = 8
    BY <1>4 DEF Reading, BitDue
  <2> QED
    BY <1>4, <2>1
<1> QED
  BY <1>1, <1>2, <1>3, <1>4

\* Before the line rests, the receiver has looked at all it waits for.
LEMMA EndsOver ==
  ASSUME UartInv, Clocks, Quietens, Event, LineEnds, txIn <= rxIn
  PROVE  Over
<1>1. TxOK /\ RxOK /\ setting \in DOMAIN Settings
  BY DEF UartInv
<1>2. /\ Aim \in Int /\ rxIn \in Int /\ rxIn > 0 /\ rxIn <= P /\ P \in Int
      /\ rxIn - 2 * P <= Aim
      /\ rx.cnt >= 2 => Aim >= rxIn
  BY <1>1, AimLaws
<1>3. rx.cnt \in Nat /\ sync \in {0, 1} \X {0, 1} /\ rx.levels \in Seq(Levels)
  BY <1>1 DEF RxOK, Levels, Clocks
<1>4. P <= Look(0) /\ Look(0) \in Int /\ txIn \in Int
  <2>1. 0 \in 0 .. 9 /\ txIn \in 1 .. T /\ T \in Nat
    BY <1>1 DEF TxOK, Clocks
  <2>2. P <= Look(0) /\ Look(0) \in Int
    <3>1. Look(0) = HalfBit * P /\ P <= HalfBit * P /\ HalfBit * P \in Nat
      BY DEF Clocks
    <3> QED
      BY <3>1
  <2> QED
    BY <2>1, <2>2
<1>5. Fall \in Int /\ txIn - Fall > 3 * P
  <2>1. CASE tx.bits = 1 /\ tx.cnt = 0
    <3>1. Fall = txIn + 0 * T - Begin(10)
      BY <2>1 DEF Fall
    <3>2. 0 * T = 0 /\ D * T \in Nat /\ 3 * P < D * T
      BY DEF Clocks
    <3>3. Begin(9) \in Nat /\ Begin(10) = Begin(9) + D * T
      <4>1. 9 \in 0 .. 9 /\ 9 + 1 = 10
        OBVIOUS
      <4>2. Begin(9) \in Nat /\ Begin(9 + 1) = Begin(9) + D * T
        BY <4>1, BitLaws
      <4> QED
        BY <4>1, <4>2
    <3> QED
      BY <1>2, <1>4, <3>1, <3>2, <3>3
  <2>2. CASE tx.bits = 0 /\ noise # 0 /\ Clear
    <3>1. /\ noise \in Nat /\ noise >= HalfBit + 3 /\ T \in Nat /\ HalfBit \in Nat
          /\ Link.noiseCycles > 0
      BY <1>1, <2>2 DEF TxOK, Clear, Clocks
    <3>2. Fall = txIn - noise * T
      BY <2>2 DEF Fall
    <3>3. (HalfBit + 3) * T <= noise * T /\ noise * T \in Nat /\ (HalfBit + 3) * T \in Nat
      BY <3>1, Monotone
    <3>4. Look(0) + 2 * P < (HalfBit + 3) * T
      BY <3>1 DEF Quietens
    <3> DEFINE x == noise * T
               y == (HalfBit + 3) * T
    <3>5. Fall = txIn - x /\ y <= x /\ x \in Nat /\ y \in Nat /\ Look(0) + 2 * P < y
      BY <3>2, <3>3, <3>4
    <3> HIDE DEF x, y
    <3> QED
      BY <1>2, <1>4, <3>5
  <2> QED
    BY <2>1, <2>2 DEF LineEnds
<1>6. ~Unseen /\ ~SeenOnce /\ ~SeenTwice
  BY <1>2, <1>4, <1>5 DEF Unseen, SeenOnce, SeenTwice
<1>7. CASE Reading
  <2>1. PICK byte \in Link.bytes : Reads(byte)
    BY <1>7 DEF Reading
  <2>2. tx.bits = 1 /\ tx.cnt = 0
    BY <2>1 DEF LineEnds, Reads, Sending, SendsOn
  <2>3. BitDue \in 0 .. 9 /\ (BitDue = 9 => rx.st = "RX_STOP") /\ Window(BitDue)
    BY <1>1, <1>7, PlaceLaw DEF Reading
  <2>4. Fall = txIn - Begin(10)
    <3>1. Fall = txIn + 0 * T - Begin(10) /\ 0 * T = 0
      BY <2>2 DEF Fall, Clocks
    <3>2. Begin(10) \in Int
      BY BeginNat
    <3> QED
      BY <1>4, <3>1, <3>2
  <2> DEFINE k == BitDue
  <2>5. k \in 0 .. 9 /\ Look(k) + 2 * P < Begin(k + 1) /\ Look(k) \in Int /\ Begin(k + 1) \in Int
    BY <2>3, BitLaws
  <2>6. Aim < Fall + Begin(k + 1)
    <3>1. Aim <= Fall + Look(k) + 2 * P
      BY <2>3 DEF Window
    <3> HIDE DEF k
    <3> QED
      BY <1>2, <1>5, <2>5, <3>1
  <2>7. k = 9
    <3> SUFFICES ASSUME k # 9 PROVE FALSE
      OBVIOUS
    <3> HIDE DEF k
    <3>1. k < 9 /\ 9 \in 0 .. 10
      BY <2>5
    <3>2. Begin(k + 1) <= Begin(9)
      BY <2>5, <3>1, BitOrder
    <3>3. Begin(9) \in Nat /\ Begin(10) = Begin(9) + D * T
      <4>1. 9 \in 0 .. 9 /\ 9 + 1 = 10
        OBVIOUS
      <4>2. Begin(9) \in Nat /\ Begin(9 + 1) = Begin(9) + D * T
        BY <4>1, BitLaws
      <4> QED
        BY <4>1, <4>2
    <3>4. D * T \in Nat /\ 3 * P < D * T
      BY DEF Clocks
    <3> QED
      BY <1>2, <1>4, <2>4, <2>5, <2>6, <3>2, <3>3, <3>4
  <2>8. rx.cnt < 2
    <3>1. 9 + 1 = 10 /\ Begin(10) \in Int
      BY BeginNat
    <3>2. Aim < txIn
      BY <1>4, <2>4, <2>6, <2>7, <3>1
    <3> QED
      BY <1>2, <1>3, <1>4, <3>2
  <2>9. rx.st = "RX_STOP" /\ Len(rx.levels) = 8 /\ (rx.cnt = 0 => sync[1] = 1)
    BY <1>7, <2>3, <2>7 DEF Reading
  <2>10. Bit(byte, 9) = 1
    BY DEF Bit, Stop
  <2>11. (rx.cnt = 1 => sync[1] = 1) /\ (rx.cnt = 0 => sync[2] = 1)
    BY <2>1, <2>7, <2>10 DEF Reads
  <2>12. level = 1
    <3>1. 10 - tx.bits = 9
      BY <2>2
    <3> QED
      BY <2>1, <2>10, <3>1 DEF Reads, Sending, SendsOn
  <2>13. inFlight = Pending
    <3>1. byte \in [1 .. 8 -> {0, 1}]
      BY <1>1, SettingsAssumption DEF Link
    <3>2. byte \in Seq(Levels) /\ Len(byte) = 8
      BY <3>1, ByteOnLine
    <3>3. rx.levels = byte
      BY <1>3, <2>1, <2>9, <3>2, SeqEqual DEF Reads
    <3> QED
      BY <2>1, <2>9, <3>3 DEF Reads, Pending
  <2>14. Ending /\ sync[1] = 1
    BY <1>3, <2>8, <2>9, <2>11 DEF Ending
  <2> QED
    BY <2>2, <2>12, <2>13, <2>14 DEF Over, Free
<1>8. CASE Rejecting
  <2>1. /\ noise # 0 /\ tx.bits = 0 /\ Link.noiseCycles > 0 /\ noise \in Nat /\ noise >= HalfBit + 3
        /\ T \in Nat /\ HalfBit \in Nat /\ level \in {0, 1}
        /\ level = 0 => noise <= Link.noiseCycles
    <3>1. /\ noise # 0 /\ tx.bits = 0 /\ Link.noiseCycles > 0 /\ noise \in Nat /\ level \in {0, 1}
          /\ level = 0 => noise <= Link.noiseCycles
      BY <1>1, <1>8 DEF TxOK, Rejecting, Levels
    <3>2. T \in Nat /\ HalfBit \in Nat
      BY DEF Clocks
    <3>3. noise >= HalfBit + 3
      BY <3>1, <3>2 DEF LineEnds, Clear
    <3> QED
      BY <3>1, <3>2, <3>3
  <2> DEFINE x == noise * T
             y == (HalfBit + 3) * T
             z == Link.noiseCycles * T
  <2>2. Fall = txIn - x /\ y <= x /\ x \in Nat /\ y \in Nat
    BY <2>1, Monotone DEF Fall
  <2>3. Look(0) + 2 * P < y /\ z \in Nat /\ z < Look(0) + P
    BY <2>1 DEF Quietens
  <2>4. level = 1
    <3> SUFFICES ASSUME level = 0 PROVE FALSE
      BY <2>1
    <3>1. noise <= Link.noiseCycles /\ Link.noiseCycles \in Nat
      BY <1>1, <2>1, SettingsAssumption DEF Link
    <3>2. x <= z
      BY <2>1, <3>1, Monotone
    <3> HIDE DEF x, y, z
    <3> QED
      BY <1>2, <1>4, <2>2, <2>3, <3>2
  <2>5. rx.cnt < 2
    <3>1. Aim <= Fall + Look(0) + 2 * P
      BY <1>8 DEF Rejecting, Window
    <3> HIDE DEF x, y, z
    <3> QED
      BY <1>2, <1>3, <1>4, <2>2, <2>3, <3>1
  <2>6. rx.st = "RX_START" /\ inFlight = <<>> /\ sync[1] = 1 /\ (rx.cnt = 0 => sync[2] = 1)
    BY <1>3, <1>8, <2>5 DEF Rejecting
  <2>7. rx.cnt = 0 \/ rx.cnt = 1
    BY <1>3, <2>5
  <2> QED
    BY <2>1, <2>4, <2>6, <2>7 DEF Over, Free, Ending, Pending
<1> QED
  BY <1>6, <1>7, <1>8 DEF UartInv, Phases

\* The receiver, state by state.
LEMMA Receives ==
  ASSUME NEW bit
  PROVE  /\ rx.st = "RX_IDLE" =>
              Received(bit) = IF bit = Start THEN [st |-> "RX_START", cnt |-> HalfBit, levels |-> <<>>] ELSE rx
         /\ rx.st # "RX_IDLE" /\ rx.cnt # 0 => Received(bit) = [rx EXCEPT !.cnt = rx.cnt - 1]
         /\ rx.st = "RX_START" /\ rx.cnt = 0 =>
              Received(bit) = IF bit = Start THEN [st |-> "RX_BITS", cnt |-> D - 1, levels |-> <<>>] ELSE RxIdle
         /\ rx.st = "RX_BITS" /\ rx.cnt = 0 =>
              Received(bit) = [st |-> IF Len(rx.levels) = 7 THEN "RX_STOP" ELSE "RX_BITS", cnt |-> D - 1,
                               levels |-> Append(rx.levels, bit)]
         /\ rx.st = "RX_STOP" /\ rx.cnt = 0 => Received(bit) = RxIdle
BY DEF Received, Qualified, D

\* What is in flight behind an edge of the receiver.
Kept == IF Delivers(sync[2]) /\ inFlight # <<>> THEN Tail(inFlight) ELSE inFlight

\* A receiver keeps its type; the synchroniser shifts.
LEMMA RxTypes ==
  ASSUME setting \in DOMAIN Settings, RxOK, Clocks, level \in Levels, level' \in Levels,
         RxEdge, rxIn' = P, setting' = setting
  PROVE  /\ RxOK' /\ rx' = Received(sync[2])
         /\ sync'[2] = sync[1] /\ sync'[1] \in {level, level'} /\ sync'[1] \in Levels
         /\ sync[1] \in Levels /\ sync[2] \in Levels
<1>1. PICK seen \in {level, level'} : sync' = <<seen, sync[1]>>
  BY DEF RxEdge
<1>2. sync[1] \in Levels /\ sync[2] \in Levels /\ sync' \in Levels \X Levels
      /\ sync'[2] = sync[1] /\ sync'[1] = seen
  BY <1>1 DEF RxOK
<1>3. rx' = Received(sync[2])
  BY DEF RxEdge
<1>4. /\ rx \in [st : {"RX_IDLE", "RX_START", "RX_BITS", "RX_STOP"}, cnt : 0 .. D, levels : Seq(Levels)]
      /\ rx.st = "RX_IDLE" => rx = RxIdle
      /\ rx.st = "RX_START" => rx.levels = <<>>
  BY DEF RxOK
<1>5. P' = P /\ D' = D /\ P \in Nat \ {0} /\ D \in Nat /\ D >= 3
  <2>1. P' = P /\ D' = D
    BY SettingStays, Zenon
  <2> QED
    BY <2>1 DEF Clocks
<1>6. HalfBit \in 0 .. D
  <2>1. HalfBit = D \div 2
    BY DEF HalfBit, D
  <2> QED
    BY <1>5, <2>1
<1>7. rx.levels \in Seq(Levels) /\ rx.cnt \in 0 .. D
  BY <1>4
<1> DEFINE Typed(r) == /\ r \in [st : {"RX_IDLE", "RX_START", "RX_BITS", "RX_STOP"}, cnt : 0 .. D, levels : Seq(Levels)]
                       /\ r.st = "RX_IDLE" => r = RxIdle
                       /\ r.st = "RX_START" => r.levels = <<>>
<1>8. Typed(RxIdle) /\ <<>> \in Seq(Levels)
  BY <1>5 DEF RxIdle
<1>9. Typed(Received(sync[2]))
  <2>1. CASE rx.st = "RX_IDLE"
    <3>1. Received(sync[2]) = IF sync[2] = Start THEN [st |-> "RX_START", cnt |-> HalfBit, levels |-> <<>>] ELSE rx
      BY <2>1, Receives
    <3>2. CASE sync[2] = Start
      BY <1>6, <1>8, <3>1, <3>2
    <3>3. CASE sync[2] # Start
      BY <1>4, <3>1, <3>3
    <3> QED
      BY <3>2, <3>3
  <2>2. CASE rx.st # "RX_IDLE" /\ rx.cnt # 0
    <3>1. Received(sync[2]) = [rx EXCEPT !.cnt = rx.cnt - 1]
      BY <2>2, Receives
    <3>2. rx.cnt - 1 \in 0 .. D
      BY <1>5, <1>7, <2>2
    <3> QED
      BY <1>4, <2>2, <3>1, <3>2
  <2>3. CASE rx.st = "RX_START" /\ rx.cnt = 0
    <3>1. Received(sync[2]) = IF sync[2] = Start THEN [st |-> "RX_BITS", cnt |-> D - 1, levels |-> <<>>] ELSE RxIdle
      BY <2>3, Receives
    <3>2. D - 1 \in 0 .. D
      BY <1>5
    <3> DEFINE r == [st |-> "RX_BITS", cnt |-> D - 1, levels |-> <<>>]
    <3>3. Typed(r)
      BY <1>8, <3>2
    <3> HIDE DEF Typed, r
    <3>4. Received(sync[2]) = r \/ Received(sync[2]) = RxIdle
      BY <3>1 DEF r
    <3> QED
      BY <1>8, <3>3, <3>4
  <2>4. CASE rx.st = "RX_BITS" /\ rx.cnt = 0
    <3>1. Received(sync[2]) = [st |-> IF Len(rx.levels) = 7 THEN "RX_STOP" ELSE "RX_BITS", cnt |-> D - 1,
                               levels |-> Append(rx.levels, sync[2])]
      BY <2>4, Receives
    <3>2. D - 1 \in 0 .. D /\ Append(rx.levels, sync[2]) \in Seq(Levels)
      BY <1>2, <1>5, <1>7
    <3> QED
      BY <3>1, <3>2
  <2>5. CASE rx.st = "RX_STOP" /\ rx.cnt = 0
    <3>1. Received(sync[2]) = RxIdle
      BY <2>5, Receives
    <3> QED
      BY <1>8, <3>1
  <2> QED
    BY <1>4, <2>1, <2>2, <2>3, <2>4, <2>5
<1>10. RxOK'
  <2>1. rxIn' \in 1 .. P
    BY <1>5
  <2> QED
    BY <1>2, <1>3, <1>5, <1>9, <2>1 DEF RxOK, RxIdle
<1> QED
  BY <1>1, <1>2, <1>3, <1>10

\* A receiver that waits for nothing more goes idle, delivers what it has and
\* sees the line anew.
LEMMA FreeStep ==
  ASSUME setting \in DOMAIN Settings, RxOK, Clocks, level \in Levels, level' \in Levels,
         RxEdge, rxIn' = P, setting' = setting, Free,
         NEW c \in Seq(Seq(Levels)), inFlight = Pending \o c
  PROVE  /\ sync[1] = 1 => Free'
         /\ sync[1] = 0 => rx' = RxIdle
         /\ Kept = Pending' \o c
         /\ DeliveredRight'
<1>1. /\ rx' = Received(sync[2]) /\ sync'[2] = sync[1]
      /\ sync[1] \in Levels /\ sync[2] \in Levels
  BY RxTypes
<1>2. /\ rx \in [st : {"RX_IDLE", "RX_START", "RX_BITS", "RX_STOP"}, cnt : 0 .. D, levels : Seq(Levels)]
  BY DEF RxOK
<1>3. RxIdle.st = "RX_IDLE" /\ D \in Nat
  BY DEF RxIdle, Clocks
<1>4. delivered' = IF ~Delivers(sync[2]) THEN NoByte ELSE [valid |-> TRUE, data |-> rx.levels, due |-> inFlight]
  BY DEF RxEdge
<1>5. <<>> \o c = c
  OBVIOUS
<1>6. CASE rx = RxIdle /\ sync[2] = 1
  <2>1. rx' = RxIdle
    BY <1>1, <1>3, <1>6, Receives DEF Start
  <2>2. ~Delivers(sync[2])
    BY <1>3, <1>6 DEF Delivers
  <2>3. Pending = <<>> /\ Pending' = <<>>
    BY <1>3, <1>6, <2>1 DEF Pending
  <2>4. DeliveredRight'
    BY <1>4, <2>2 DEF DeliveredRight, NoByte
  <2> QED
    BY <1>1, <2>1, <2>2, <2>3, <2>4 DEF Kept, Free, RxIdle
<1>7. CASE rx.st \in {"RX_START", "RX_STOP"} /\ rx.cnt = 1 /\ sync[1] = 1
  <2>1. rx' = [rx EXCEPT !.cnt = rx.cnt - 1]
    BY <1>1, <1>7, Receives
  <2>2. rx'.st = rx.st /\ rx'.cnt = 0 /\ rx'.levels = rx.levels
    BY <1>2, <1>7, <2>1
  <2>3. ~Delivers(sync[2])
    BY <1>7 DEF Delivers
  <2>4. Pending' = Pending
    BY <2>2 DEF Pending
  <2>5. Free'
    BY <1>1, <1>7, <2>2 DEF Free, Ending
  <2>6. DeliveredRight'
    BY <1>4, <2>3 DEF DeliveredRight, NoByte
  <2> QED
    BY <1>7, <2>3, <2>4, <2>5, <2>6 DEF Kept
<1>8. CASE rx.st \in {"RX_START", "RX_STOP"} /\ rx.cnt = 0 /\ sync[2] = 1
  <2>1. rx' = RxIdle
    BY <1>1, <1>8, Receives DEF Start
  <2>2. Pending' = <<>>
    BY <1>3, <2>1 DEF Pending
  <2>3. sync[1] = 1 => Free'
    BY <1>1, <2>1 DEF Free
  <2>4. CASE rx.st = "RX_START"
    <3>1. ~Delivers(sync[2]) /\ Pending = <<>>
      BY <2>4 DEF Delivers, Pending
    <3>2. DeliveredRight'
      BY <1>4, <3>1 DEF DeliveredRight, NoByte
    <3> QED
      BY <2>1, <2>2, <2>3, <3>1, <3>2 DEF Kept
  <2>5. CASE rx.st = "RX_STOP"
    <3>1. Delivers(sync[2]) /\ Pending = <<rx.levels>>
      BY <1>8, <2>5 DEF Delivers, Pending, Stop
    <3>2. rx.levels \in Seq(Levels)
      BY <1>2
    <3> DEFINE v == rx.levels
               S == Seq(Levels)
    <3>3. v \in S /\ c \in Seq(S) /\ inFlight = <<v>> \o c
      BY <3>1, <3>2
    <3> HIDE DEF v, S
    <3>4. inFlight # <<>> /\ Head(inFlight) = v /\ Tail(inFlight) = c
      BY <3>3
    <3>5. Kept = c
      BY <3>1, <3>4 DEF Kept
    <3>6. DeliveredRight'
      <4>1. delivered' = [valid |-> TRUE, data |-> rx.levels, due |-> inFlight]
        BY <1>4, <3>1
      <4>2. delivered'.due = inFlight /\ delivered'.data = v
        BY <4>1 DEF v
      <4> QED
        BY <3>4, <4>2 DEF DeliveredRight
    <3> QED
      BY <1>5, <2>1, <2>2, <2>3, <3>5, <3>6
  <2> QED
    BY <1>8, <2>4, <2>5
<1> QED
  BY <1>6, <1>7, <1>8 DEF Free, Ending

\* The line goes on to an edge of the receiver.
ToEdge ==
  /\ setting \in DOMAIN Settings /\ TxOK /\ TxOK' /\ RxOK /\ Clocks /\ Quietens
  /\ setting' = setting /\ RxEdge /\ rxIn' = P
  /\ GoesOn(rxIn) /\ Shows(rxIn) /\ inFlight' = Kept

LEMMA FallPast ==
  ASSUME TxOK, Clocks, Event
  PROVE  Fall \in Int /\ Fall <= 0
<1>1. CASE tx.bits # 0
  <2>1. txIn \in Nat \ {0} /\ txIn <= txIn
    BY DEF TxOK, Clocks
  <2> QED
    BY <1>1, <2>1, LevelShown
<1>2. CASE tx.bits = 0
  <2>1. noise \in Nat \ {0} /\ txIn \in 1 .. T /\ T \in Nat /\ Fall = txIn - noise * T
    BY <1>2 DEF TxOK, Clocks, Event, Fall
  <2>2. 1 * T <= noise * T /\ noise * T \in Nat
    BY <2>1, Monotone
  <2> QED
    BY <2>1, <2>2
<1> QED
  BY <1>1, <1>2

\* What an edge of the receiver changes while the line goes on.
LEMMA EdgeLaws ==
  ASSUME ToEdge
  PROVE  /\ RxOK' /\ rx' = Received(sync[2])
         /\ sync'[2] = sync[1] /\ sync'[1] \in {level, level'} /\ sync'[1] \in {0, 1}
         /\ sync[1] \in {0, 1} /\ sync[2] \in {0, 1} /\ level \in {0, 1} /\ level' \in {0, 1}
         /\ T' = T /\ P' = P /\ D' = D /\ HalfBit' = HalfBit /\ Link' = Link /\ rxIn' = P
         /\ Fall \in Int /\ Fall <= 0 /\ Fall' = Fall - rxIn /\ Event'
         /\ rxIn \in Int /\ rxIn > 0 /\ rxIn <= P /\ P \in Int
<1>1. level \in Levels /\ level' \in Levels /\ Event
  BY DEF ToEdge, TxOK, GoesOn
<1>2. /\ RxOK' /\ rx' = Received(sync[2])
      /\ sync'[2] = sync[1] /\ sync'[1] \in {level, level'} /\ sync'[1] \in Levels
      /\ sync[1] \in Levels /\ sync[2] \in Levels
  BY <1>1, RxTypes DEF ToEdge
<1>3. T' = T /\ P' = P /\ D' = D /\ HalfBit' = HalfBit /\ Link' = Link
  BY SettingStays DEF ToEdge
<1>4. Fall \in Int /\ Fall <= 0
  BY <1>1, FallPast DEF ToEdge
<1>5. rxIn \in Int /\ rxIn > 0 /\ rxIn <= P /\ P \in Int
  BY DEF ToEdge, RxOK, Clocks
<1> QED
  BY <1>1, <1>2, <1>3, <1>4, <1>5 DEF Levels, ToEdge, GoesOn

\* A byte that has begun is still to be read when the receiver goes idle.
LEMMA BegunStep ==
  ASSUME ToEdge, Free, UnderWay
  PROVE  /\ UnderWay' /\ DeliveredRight'
         /\ sync[1] = 1 => Free'
         /\ sync[1] = 0 => rx' = RxIdle
<1>1. level \in Levels /\ level' \in Levels /\ (tx.bits = 0) = (tx'.bits = 0)
      /\ \A byte \in Link.bytes : Sending(byte) => Sending(byte)'
  BY DEF ToEdge, TxOK, GoesOn
<1>2. Link' = Link /\ inFlight' = Kept
  BY EdgeLaws DEF ToEdge
<1>3. ASSUME NEW c \in Seq(Seq(Levels)), inFlight = Pending \o c
      PROVE  /\ sync[1] = 1 => Free'
             /\ sync[1] = 0 => rx' = RxIdle
             /\ Kept = Pending' \o c
             /\ DeliveredRight'
  BY <1>1, <1>3, FreeStep DEF ToEdge
<1>4. CASE tx.bits = 0
  <2>1. rx.levels \in Seq(Levels) /\ rx'.levels \in Seq(Levels)
    <3>1. RxOK /\ RxOK'
      BY EdgeLaws DEF ToEdge
    <3> QED
      BY <3>1 DEF RxOK
  <2>2. inFlight = Pending \o <<>> /\ Pending' \o <<>> = Pending'
    BY <1>4, <2>1 DEF UnderWay, Pending
  <2>3. <<>> \in Seq(Seq(Levels))
    OBVIOUS
  <2>4. /\ sync[1] = 1 => Free'
        /\ sync[1] = 0 => rx' = RxIdle
        /\ Kept = Pending' \o <<>>
        /\ DeliveredRight'
    BY <1>3, <2>2, <2>3
  <2> QED
    BY <1>1, <1>2, <1>4, <2>2, <2>4 DEF UnderWay
<1>5. CASE tx.bits # 0
  <2>1. PICK byte \in Link.bytes : Sending(byte) /\ inFlight = Pending \o <<byte>>
    BY <1>5 DEF UnderWay
  <2>2. <<byte>> \in Seq(Seq(Levels))
    <3>1. byte \in [1 .. 8 -> {0, 1}]
      BY SettingsAssumption DEF Link, ToEdge
    <3> QED
      BY <3>1, ByteOnLine
  <2>3. /\ sync[1] = 1 => Free'
        /\ sync[1] = 0 => rx' = RxIdle
        /\ Kept = Pending' \o <<byte>>
        /\ DeliveredRight'
    BY <1>3, <2>1, <2>2
  <2>4. Sending(byte)' /\ tx'.bits # 0
    BY <1>1, <1>5, <2>1
  <2> QED
    BY <1>2, <2>1, <2>3, <2>4 DEF UnderWay
<1> QED
  BY <1>4, <1>5

\* The line has been low for a while only: it shows the start bit.
LEMMA ShowsStart ==
  ASSUME ToEdge, tx.bits # 0, NEW byte \in Link.bytes, Sending(byte), rxIn - Fall <= 3 * P
  PROVE  sync'[1] = 0
<1>1. /\ Fall \in Int /\ Fall <= 0 /\ rxIn \in Int /\ rxIn > 0 /\ P \in Int
      /\ sync'[1] \in {level, level'}
  BY EdgeLaws
<1>2. Begin(0) = 0 /\ Begin(0 + 1) = Begin(0) + D * T /\ D * T \in Nat /\ 3 * P < D * T
  <2>1. 0 \in 0 .. 9 /\ Clocks
    BY DEF ToEdge
  <2> QED
    BY <2>1, BitLaws DEF Clocks
<1>3. Begin(0) < rxIn - Fall /\ rxIn - Fall < Begin(0 + 1)
  BY <1>1, <1>2
<1>4. level = Bit(byte, 0) /\ level' = Bit(byte, 0)
  BY <1>3 DEF ToEdge, Shows
<1> QED
  BY <1>1, <1>4 DEF Bit, Start

LEMMA OverStep ==
  ASSUME ToEdge, Over
  PROVE  Over' /\ DeliveredRight'
<1>1. level = 1 /\ sync[1] = 1 /\ Free /\ tx.bits \in {0, 1} /\ inFlight = Pending
  BY DEF Over
<1>2. level' = 1 /\ tx'.bits \in {0, 1}
  BY <1>1 DEF ToEdge, GoesOn
<1>3. sync'[1] = 1 /\ RxOK /\ RxOK' /\ level \in Levels /\ level' \in Levels
  BY <1>1, <1>2, EdgeLaws DEF ToEdge, Levels
<1>4. rx.levels \in Seq(Levels) /\ rx'.levels \in Seq(Levels)
  BY <1>3 DEF RxOK
<1>5. inFlight = Pending \o <<>> /\ Pending' \o <<>> = Pending'
  BY <1>1, <1>4 DEF Pending
<1>6. <<>> \in Seq(Seq(Levels))
  OBVIOUS
<1>7. Free' /\ Kept = Pending' \o <<>> /\ DeliveredRight'
  BY <1>1, <1>3, <1>5, <1>6, FreeStep DEF ToEdge
<1>8. inFlight' = Pending'
  BY <1>5, <1>7 DEF ToEdge
<1> QED
  BY <1>2, <1>3, <1>7, <1>8 DEF Over

LEMMA UnseenStep ==
  ASSUME ToEdge, Unseen
  PROVE  Phases' /\ DeliveredRight'
<1>1. sync[1] = 1 /\ Free /\ UnderWay /\ rxIn - P <= Fall /\ Event
  BY DEF Unseen
<1>2. UnderWay' /\ DeliveredRight' /\ Free'
  BY <1>1, BegunStep
<1>3. /\ sync'[2] = 1 /\ sync'[1] \in {level, level'} /\ sync'[1] \in {0, 1} /\ level \in {0, 1}
      /\ Fall \in Int /\ Fall <= 0 /\ Fall' = Fall - rxIn /\ Event'
      /\ rxIn \in Int /\ rxIn > 0 /\ P \in Int /\ rxIn <= P /\ P' = P /\ rxIn' = P
  BY <1>1, EdgeLaws
<1>4. CASE sync'[1] = 0
  <2>1. Fall' <= rxIn' - P' /\ rxIn' - P' <= Fall' + P'
    BY <1>1, <1>3
  <2> QED
    BY <1>2, <1>3, <1>4, <2>1 DEF SeenOnce, Phases
<1>5. CASE sync'[1] = 1
  <2>1. tx.bits = 0
    <3> SUFFICES ASSUME tx.bits # 0 PROVE FALSE
      OBVIOUS
    <3>1. PICK byte \in Link.bytes : Sending(byte)
      BY <1>1 DEF UnderWay
    <3>2. rxIn - Fall <= 3 * P
      BY <1>1, <1>3
    <3> QED
      BY <1>5, <3>1, <3>2, ShowsStart
  <2>2. level' = 1 /\ tx'.bits = 0
    BY <1>3, <1>5, <2>1 DEF ToEdge, GoesOn
  <2>3. inFlight' = Pending'
    BY <1>2, <2>2 DEF UnderWay
  <2> QED
    BY <1>2, <1>5, <2>2, <2>3 DEF Over, Phases
<1> QED
  BY <1>3, <1>4, <1>5

LEMMA SeenOnceStep ==
  ASSUME ToEdge, SeenOnce
  PROVE  Phases' /\ DeliveredRight'
<1>1. sync[1] = 0 /\ Free /\ UnderWay /\ Fall <= rxIn - P /\ rxIn - P <= Fall + P
  BY DEF SeenOnce
<1>2. UnderWay' /\ DeliveredRight' /\ rx' = RxIdle
  BY <1>1, BegunStep
<1>3. /\ sync'[2] = 0 /\ Fall \in Int /\ Fall' = Fall - rxIn /\ Event'
      /\ rxIn \in Int /\ P \in Int /\ P' = P /\ rxIn' = P
  BY <1>1, EdgeLaws
<1>4. Fall' <= rxIn' - 2 * P' /\ rxIn' - 2 * P' <= Fall' + P'
  BY <1>1, <1>3
<1> QED
  BY <1>2, <1>3, <1>4 DEF SeenTwice, Phases

\* The window the receiver has reached, from its new state.
LEMMA WindowNext ==
  ASSUME setting' = setting, NEW k \in Int, BitDue' = k,
         Fall' + Look(k) + P <= Aim', Aim' <= Fall' + Look(k) + 2 * P
  PROVE  Window(BitDue)'
<1>1. Look(BitDue)' = Look(k) /\ P' = P
  <2>1. D' = D /\ P' = P /\ HalfBit' = HalfBit
    BY SettingStays
  <2> QED
    BY <2>1 DEF Look
<1> QED
  BY <1>1 DEF Window

LEMMA SeenTwiceStep ==
  ASSUME ToEdge, SeenTwice
  PROVE  Phases' /\ DeliveredRight'
<1>1. /\ sync[2] = 0 /\ rx = RxIdle /\ UnderWay /\ Event
      /\ Fall <= rxIn - 2 * P /\ rxIn - 2 * P <= Fall + P
  BY DEF SeenTwice
<1>2. /\ rx' = Received(sync[2]) /\ sync'[1] \in {level, level'}
      /\ Fall \in Int /\ Fall' = Fall - rxIn /\ Event'
      /\ rxIn \in Int /\ P \in Int /\ P' = P /\ rxIn' = P /\ rxIn <= P /\ rxIn > 0
      /\ Link' = Link
  BY EdgeLaws
<1>3. RxIdle.st = "RX_IDLE"
  BY DEF RxIdle
<1>4. rx' = [st |-> "RX_START", cnt |-> HalfBit, levels |-> <<>>]
  BY <1>1, <1>2, <1>3, Receives DEF Start
<1>5. rx'.st = "RX_START" /\ rx'.cnt = HalfBit /\ rx'.levels = <<>>
  BY <1>4
<1>6. ~Delivers(sync[2]) /\ Pending = <<>>
  BY <1>1, <1>3 DEF Delivers, Pending
<1>7. DeliveredRight' /\ inFlight' = inFlight
  BY <1>6 DEF DeliveredRight, NoByte, ToEdge, RxEdge, Kept
<1>8. HalfBit \in Nat \ {0} /\ Look(0) = HalfBit * P /\ HalfBit * P \in Nat
  BY DEF ToEdge, Clocks
<1>9. Aim' = Look(0) - P
  <2>1. Aim' = P + (HalfBit - 2) * P
    BY <1>2, <1>5 DEF Aim
  <2>2. (HalfBit - 2) * P = HalfBit * P - 2 * P
    BY <1>2, <1>8
  <2> DEFINE x == (HalfBit - 2) * P
             y == HalfBit * P
  <2>3. Aim' = P + x /\ x = y - 2 * P /\ Look(0) = y /\ y \in Int
    BY <1>8, <2>1, <2>2
  <2> HIDE DEF x, y
  <2> QED
    BY <1>2, <2>3
<1>10. Fall' + Look(0) + P <= Aim' /\ Aim' <= Fall' + Look(0) + 2 * P
  <2>1. Look(0) \in Int
    BY <1>8
  <2> QED
    BY <1>1, <1>2, <1>9, <2>1
<1>11. BitDue' = 0
  BY <1>5 DEF BitDue
<1>12. Window(0)' /\ Window(BitDue)'
  <2>1. Window(BitDue)'
    BY <1>10, <1>11, WindowNext DEF ToEdge
  <2>2. Look(0)' = Look(0)
    BY SettingStays DEF ToEdge
  <2> QED
    BY <1>2, <1>10, <2>1, <2>2 DEF Window
<1>13. CASE tx.bits # 0
  <2>1. PICK byte \in Link.bytes : Sending(byte) /\ inFlight = <<>> \o <<byte>>
    BY <1>1, <1>6, <1>13 DEF UnderWay
  <2>2. inFlight' = <<byte>>
    BY <1>7, <2>1
  <2>3. Sending(byte)'
    BY <2>1 DEF ToEdge, GoesOn
  <2>4. sync'[1] = 0
    <3>1. rxIn - Fall <= 3 * P
      BY <1>1, <1>2
    <3> QED
      BY <1>13, <2>1, <3>1, ShowsStart
  <2>5. Bit(byte, BitDue)' = 0
    BY <1>11 DEF Bit, Start
  <2>6. rx'.cnt # 0 /\ Len(rx'.levels) = 0
    BY <1>5, <1>8
  <2>7. Reads(byte)'
    BY <2>2, <2>3, <2>4, <2>5, <2>6 DEF Reads
  <2>8. Reading'
    BY <1>2, <1>5, <1>12, <2>7 DEF Reading
  <2> QED
    BY <1>7, <2>8 DEF Phases
<1>14. CASE tx.bits = 0
  <2>1. noise # 0 /\ inFlight = <<>>
    BY <1>1, <1>6, <1>14 DEF Event, UnderWay
  <2>2. noise' # 0
    BY <1>14 DEF ToEdge, GoesOn, Event
  <2>3. rx'.cnt = 1 => sync'[1] = 1
    <3> SUFFICES ASSUME HalfBit = 1 PROVE sync'[1] = 1
      BY <1>5
    <3>1. Link.noiseCycles > 0
      BY <2>1 DEF ToEdge, TxOK
    <3>2. Link.noiseCycles * T \in Nat /\ Link.noiseCycles * T < Look(0) + P
      BY <3>1 DEF ToEdge, Quietens
    <3>3. Look(0) = P
      BY <1>2, <1>8
    <3>4. Link.noiseCycles * T < rxIn - Fall
      BY <1>1, <1>2, <3>2, <3>3
    <3> QED
      BY <1>2, <2>1, <3>4 DEF ToEdge, Shows
  <2>4. Rejecting'
    BY <1>5, <1>7, <1>8, <1>12, <2>1, <2>2, <2>3 DEF Rejecting
  <2> QED
    BY <1>7, <2>4 DEF Phases
<1> QED
  BY <1>13, <1>14

\* Counting down, the receiver aims at the same moment.
LEMMA CountDown ==
  ASSUME ToEdge, rx.st # "RX_IDLE", rx.cnt # 0
  PROVE  /\ rx'.st = rx.st /\ rx'.cnt = rx.cnt - 1 /\ rx'.levels = rx.levels
         /\ Aim' = Aim - rxIn /\ BitDue' = BitDue
         /\ ~Delivers(sync[2]) /\ inFlight' = inFlight /\ DeliveredRight'
<1>1. rx' = [rx EXCEPT !.cnt = rx.cnt - 1] /\ P' = P /\ rxIn' = P /\ rxIn \in Int /\ P \in Int
  BY EdgeLaws, Receives
<1>2. rx \in [st : {"RX_IDLE", "RX_START", "RX_BITS", "RX_STOP"}, cnt : 0 .. D, levels : Seq(Levels)] /\ D \in Nat
  BY DEF ToEdge, RxOK, Clocks
<1>3. rx'.st = rx.st /\ rx'.cnt = rx.cnt - 1 /\ rx'.levels = rx.levels
  BY <1>1, <1>2
<1>4. Aim' = Aim - rxIn
  <2> DEFINE a == rx.cnt - 1 - 2
             x == a * P
             y == (rx.cnt - 2) * P
  <2>1. rx'.cnt - 2 = a /\ a \in Int /\ a + 1 = rx.cnt - 2
    BY <1>2, <1>3
  <2>2. Aim' = P + x
    BY <1>1, <2>1 DEF Aim
  <2>3. y = x + P /\ x \in Int
    <3> HIDE DEF a
    <3>1. (a + 1) * P = a * P + 1 * P /\ a * P \in Int
      BY <1>1, <2>1, Distributes
    <3> QED
      BY <1>1, <2>1, <3>1
  <2>4. Aim = rxIn + y
    BY DEF Aim
  <2> HIDE DEF x, y
  <2> QED
    BY <1>1, <2>2, <2>3, <2>4
<1>5. BitDue' = BitDue
  BY <1>3 DEF BitDue
<1>6. ~Delivers(sync[2])
  BY DEF Delivers
<1>7. inFlight' = inFlight /\ DeliveredRight'
  BY <1>6 DEF DeliveredRight, NoByte, ToEdge, RxEdge, Kept
<1> QED
  BY <1>3, <1>4, <1>5, <1>6, <1>7

LEMMA RejectingStep ==
  ASSUME ToEdge, Rejecting
  PROVE  Phases' /\ DeliveredRight'
<1>1. /\ noise # 0 /\ rx.st = "RX_START" /\ Window(0) /\ inFlight = <<>>
      /\ rx.cnt = 1 => sync[1] = 1
      /\ rx.cnt = 0 => sync[1] = 1 /\ sync[2] = 1
  BY DEF Rejecting
<1>2. /\ Aim \in Int /\ rxIn \in Int /\ rxIn > 0 /\ P \in Int /\ P > 0
      /\ rx.cnt = 0 => Aim = rxIn - 2 * P
      /\ rx.cnt = 1 => Aim = rxIn - P
      /\ rx.cnt = 2 => Aim = rxIn
  BY AimLaws DEF ToEdge, Clocks
<1>3. /\ RxOK' /\ sync'[2] = sync[1] /\ sync'[1] \in {level, level'}
      /\ Fall \in Int /\ Fall' = Fall - rxIn /\ P' = P /\ Event' /\ level \in {0, 1} /\ level' \in {0, 1}
  BY EdgeLaws
<1>4. Look(0) \in Int
  <2>1. 0 \in 0 .. 9
    OBVIOUS
  <2> QED
    BY <2>1, BitLaws DEF ToEdge
<1>5. rx.cnt \in {0, 1, 2} => level = 1 /\ level' = 1 /\ sync'[1] = 1
  <2> SUFFICES ASSUME rx.cnt \in {0, 1, 2} PROVE level = 1 /\ level' = 1
    BY <1>3
  <2>1. Aim <= rxIn
    BY <1>2
  <2>2. Link.noiseCycles > 0
    BY <1>1 DEF ToEdge, TxOK
  <2>3. Link.noiseCycles * T \in Nat /\ Link.noiseCycles * T < Look(0) + P
    BY <2>2 DEF ToEdge, Quietens
  <2>4. Link.noiseCycles * T < rxIn - Fall
    <3> DEFINE n == Link.noiseCycles * T
    <3>1. n \in Nat /\ n < Look(0) + P /\ Fall + Look(0) + P <= Aim
      BY <1>1, <2>3 DEF Window
    <3> HIDE DEF n
    <3>2. n < rxIn - Fall
      BY <1>2, <1>3, <1>4, <2>1, <3>1
    <3> QED
      BY <3>2 DEF n
  <2> QED
    BY <1>1, <2>4 DEF ToEdge, Shows
<1>6. tx.bits = 0 /\ tx'.bits = 0
  BY <1>1 DEF ToEdge, TxOK, GoesOn
<1>7. CASE rx.cnt = 0
  <2>1. Free /\ Pending = <<>> /\ inFlight = Pending
    BY <1>1, <1>7 DEF Free, Ending, Pending
  <2>2. UnderWay
    BY <1>6, <2>1 DEF UnderWay
  <2>3. UnderWay' /\ DeliveredRight' /\ Free'
    BY <1>1, <1>7, <2>1, <2>2, BegunStep
  <2>4. inFlight' = Pending'
    BY <1>6, <2>3 DEF UnderWay
  <2> QED
    BY <1>5, <1>6, <1>7, <2>3, <2>4 DEF Over, Phases
<1>8. CASE rx.cnt # 0
  <2>1. /\ rx'.st = "RX_START" /\ rx'.cnt = rx.cnt - 1 /\ Aim' = Aim - rxIn
        /\ inFlight' = <<>> /\ DeliveredRight'
    BY <1>1, <1>8, CountDown
  <2>2. Window(0)'
    <3>1. Look(0)' = Look(0)
      BY SettingStays DEF ToEdge
    <3> QED
      BY <1>1, <1>2, <1>3, <1>4, <2>1, <3>1 DEF Window
  <2>3. noise' # 0
    BY <1>3, <1>6 DEF Event
  <2>4. rx.cnt \in Nat
    BY DEF ToEdge, RxOK, Clocks
  <2>5. rx'.cnt = 1 => sync'[1] = 1
    BY <1>5, <2>1, <2>4
  <2>6. rx'.cnt = 0 => sync'[1] = 1 /\ sync'[2] = 1
    BY <1>1, <1>3, <1>5, <2>1, <2>4
  <2> QED
    BY <2>1, <2>2, <2>3, <2>5, <2>6 DEF Rejecting, Phases
<1> QED
  BY <1>7, <1>8

\* The receiver counts down to a bit.
LEMMA ReadingCounts ==
  ASSUME ToEdge, Reading, rx.cnt # 0
  PROVE  Phases' /\ DeliveredRight'
<1>1. /\ rx.st \in {"RX_START", "RX_BITS", "RX_STOP"} /\ Window(BitDue)
      /\ rx.st = "RX_BITS" => Len(rx.levels) <= 7
      /\ rx.st = "RX_STOP" => Len(rx.levels) = 8
  BY DEF Reading
<1>2. PICK byte \in Link.bytes : Reads(byte)
  BY DEF Reading
<1>3. /\ Aim \in Int /\ rxIn \in Int /\ P \in Int /\ P > 0 /\ rxIn > 0
      /\ rx.cnt = 1 => Aim = rxIn - P
      /\ rx.cnt = 2 => Aim = rxIn
  BY AimLaws DEF ToEdge, Clocks
<1>4. /\ sync'[2] = sync[1] /\ sync'[1] \in {level, level'} /\ Link' = Link
      /\ Fall \in Int /\ Fall' = Fall - rxIn /\ P' = P
  BY EdgeLaws
<1>5. /\ rx'.st = rx.st /\ rx'.cnt = rx.cnt - 1 /\ rx'.levels = rx.levels
      /\ Aim' = Aim - rxIn /\ BitDue' = BitDue /\ inFlight' = inFlight /\ DeliveredRight'
  BY <1>1, CountDown
<1>6. /\ BitDue \in 0 .. 9 /\ (BitDue = 9 <=> rx.st = "RX_STOP") /\ rx.cnt \in Nat
  BY PlaceLaw DEF ToEdge, RxOK, Clocks
<1> DEFINE k == BitDue
<1>7. /\ k \in 0 .. 9 /\ Look(k) \in Int /\ Begin(k) \in Int /\ Begin(k + 1) \in Int
      /\ Begin(k) < Look(k) + P /\ Look(k) + 2 * P < Begin(k + 1)
  BY <1>6, BitLaws DEF ToEdge
<1>8. Fall + Look(k) + P <= Aim /\ Aim <= Fall + Look(k) + 2 * P
  BY <1>1 DEF Window
<1>9. Window(BitDue)'
  <2> HIDE DEF k
  <2>1. Fall' + Look(k) + P <= Aim' /\ Aim' <= Fall' + Look(k) + 2 * P
    BY <1>3, <1>4, <1>5, <1>7, <1>8
  <2>2. BitDue' = k /\ k \in Int
    BY <1>5, <1>7 DEF k
  <2> QED
    BY <2>1, <2>2, WindowNext DEF ToEdge
<1>10. Sending(byte) /\ Sending(byte)' /\ inFlight = <<byte>>
  BY <1>2 DEF Reads, ToEdge, GoesOn
<1>11. rx'.cnt = 1 => sync'[1] = Bit(byte, k)
  <2> SUFFICES ASSUME rx.cnt = 2 PROVE sync'[1] = Bit(byte, k)
    BY <1>5, <1>6
  <2> HIDE DEF k
  <2>1. Begin(k) < rxIn - Fall /\ rxIn - Fall < Begin(k + 1)
    BY <1>3, <1>4, <1>7, <1>8
  <2>2. level = Bit(byte, k) /\ level' = Bit(byte, k)
    BY <1>7, <1>10, <2>1 DEF ToEdge, Shows
  <2> QED
    BY <1>4, <2>2
<1>12. rx'.cnt = 0 => sync'[2] = Bit(byte, k)
  BY <1>2, <1>4, <1>5, <1>6 DEF Reads
<1>13. rx'.st = "RX_STOP" /\ rx'.cnt = 0 => sync'[1] = 1
  <2> SUFFICES ASSUME rx.st = "RX_STOP", rx.cnt = 1 PROVE sync'[1] = 1
    BY <1>5, <1>6
  <2>1. k = 9
    BY <1>6
  <2>2. Begin(9) < rxIn - Fall
    <3> HIDE DEF k
    <3> QED
      BY <1>3, <1>4, <1>7, <1>8, <2>1
  <2>3. tx.bits # 0
    BY <1>10 DEF Sending, SendsOn
  <2>4. tx.bits = 1
    BY <2>2, <2>3 DEF ToEdge, Shows
  <2>5. level = 1 /\ level' = level
    <3>1. 10 - tx.bits = 9
      BY <2>4
    <3> QED
      BY <1>10, <2>4, <3>1 DEF Sending, SendsOn, Bit, Stop, ToEdge, GoesOn
  <2> QED
    BY <1>4, <2>5
<1>14. Reads(byte)'
  <2>1. \A i \in 1 .. Len(rx'.levels) : rx'.levels[i] = byte[i]
    BY <1>2, <1>5 DEF Reads
  <2>2. Bit(byte, BitDue)' = Bit(byte, k)
    BY <1>5 DEF Bit
  <2> QED
    BY <1>5, <1>10, <1>11, <1>12, <2>1, <2>2 DEF Reads
<1>15. Reading'
  BY <1>1, <1>4, <1>5, <1>9, <1>13, <1>14 DEF Reading
<1> QED
  BY <1>5, <1>15 DEF Phases

\* The receiver takes one of the first nine levels of a byte.
LEMMA ReadingTakes ==
  ASSUME ToEdge, Reading, rx.cnt = 0, rx.st # "RX_STOP"
  PROVE  Phases' /\ DeliveredRight'
<1>1. /\ rx.st \in {"RX_START", "RX_BITS"} /\ Window(BitDue)
      /\ rx.st = "RX_BITS" => Len(rx.levels) <= 7
  BY DEF Reading
<1>2. PICK byte \in Link.bytes : Reads(byte)
  BY DEF Reading
<1>3. /\ Aim = rxIn - 2 * P /\ rxIn \in Int /\ P \in Int /\ P > 0 /\ rxIn > 0
  BY AimLaws DEF ToEdge, Clocks
<1>4. /\ sync[2] \in {0, 1} /\ Link' = Link /\ RxOK'
      /\ Fall \in Int /\ Fall' = Fall - rxIn /\ P' = P /\ D' = D /\ rxIn' = P
      /\ rx' = Received(sync[2])
  BY EdgeLaws
<1>5. /\ BitDue \in 0 .. 8 /\ Len(rx.levels) \in Nat /\ rx.levels \in Seq(Levels)
      /\ BitDue = 0 <=> rx.st = "RX_START"
      /\ rx.st # "RX_START" => BitDue = Len(rx.levels) + 1
      /\ rx.st = "RX_START" => rx.levels = <<>>
  <2>1. /\ BitDue \in 0 .. 9 /\ BitDue # 9 /\ Len(rx.levels) \in Nat
        /\ BitDue = 0 <=> rx.st = "RX_START"
        /\ rx.st # "RX_START" => BitDue = Len(rx.levels) + 1
    BY PlaceLaw DEF ToEdge
  <2>2. rx.levels \in Seq(Levels) /\ (rx.st = "RX_START" => rx.levels = <<>>)
    BY DEF ToEdge, RxOK
  <2> QED
    BY <2>1, <2>2
<1> DEFINE k == BitDue
<1>6. /\ k \in 0 .. 8 /\ Look(k) \in Int /\ Look(k + 1) = Look(k) + D * P
      /\ D \in Nat /\ D >= 3 /\ D * P \in Nat
  <2>1. k \in 0 .. 9 /\ k \in 0 .. 8 /\ Clocks
    BY <1>5 DEF ToEdge
  <2>2. D \in Nat /\ D >= 3 /\ D * P \in Nat
    BY <2>1 DEF Clocks
  <2> HIDE DEF k
  <2>3. Look(k) \in Nat /\ Look(k + 1) = Look(k) + D * P
    BY <2>1, BitLaws
  <2> QED
    BY <2>1, <2>2, <2>3
<1>7. Fall + Look(k) + P <= Aim /\ Aim <= Fall + Look(k) + 2 * P
  BY <1>1 DEF Window
<1>8. sync[2] = Bit(byte, k) /\ Sending(byte) /\ Sending(byte)' /\ inFlight = <<byte>>
  BY <1>2 DEF Reads, ToEdge, GoesOn
<1>9. ~Delivers(sync[2])
  BY DEF Delivers
<1>10. inFlight' = inFlight /\ DeliveredRight'
  BY <1>9 DEF DeliveredRight, NoByte, ToEdge, RxEdge, Kept
<1>11. /\ rx'.cnt = D - 1 /\ rx'.st \in {"RX_BITS", "RX_STOP"} /\ Len(rx'.levels) = k
       /\ rx'.st = "RX_STOP" <=> k = 8
       /\ \A i \in 1 .. k : rx'.levels[i] = byte[i]
  <2>1. CASE rx.st = "RX_START"
    <3>1. k = 0
      BY <1>5, <2>1
    <3>2. sync[2] = Start
      BY <1>8, <3>1 DEF Bit
    <3>3. rx' = [st |-> "RX_BITS", cnt |-> D - 1, levels |-> <<>>]
      BY <1>3, <1>4, <2>1, <3>2, Receives
    <3>4. rx'.cnt = D - 1 /\ rx'.st = "RX_BITS" /\ rx'.levels = <<>> /\ Len(rx'.levels) = 0
      BY <3>3
    <3> HIDE DEF k
    <3> QED
      BY <3>1, <3>4
  <2>2. CASE rx.st = "RX_BITS"
    <3>1. k = Len(rx.levels) + 1 /\ k \in 1 .. 8
      BY <1>5, <2>2
    <3>2. sync[2] = byte[k]
      BY <1>8, <3>1 DEF Bit
    <3>3. rx' = [st |-> IF Len(rx.levels) = 7 THEN "RX_STOP" ELSE "RX_BITS", cnt |-> D - 1,
                 levels |-> Append(rx.levels, sync[2])]
      BY <1>4, <2>2, Receives
    <3>4. /\ rx'.cnt = D - 1 /\ rx'.levels = Append(rx.levels, sync[2])
          /\ rx'.st = IF Len(rx.levels) = 7 THEN "RX_STOP" ELSE "RX_BITS"
      BY <3>3
    <3> HIDE DEF k
    <3>5. /\ Len(rx'.levels) = k /\ rx'.levels[k] = byte[k]
          /\ \A i \in 1 .. Len(rx.levels) : rx'.levels[i] = rx.levels[i]
      <4>1. sync[2] \in Levels
        BY <1>4 DEF Levels
      <4> QED
        BY <1>5, <3>1, <3>2, <3>4, <4>1, AppendProperties
    <3>6. \A i \in 1 .. Len(rx.levels) : rx.levels[i] = byte[i]
      BY <1>2 DEF Reads
    <3>7. \A i \in 1 .. k : rx'.levels[i] = byte[i]
      <4> SUFFICES ASSUME NEW i \in 1 .. k PROVE rx'.levels[i] = byte[i]
        OBVIOUS
      <4>1. i = k \/ i \in 1 .. Len(rx.levels)
        BY <3>1
      <4> QED
        BY <3>5, <3>6, <4>1
    <3>8. rx'.st = "RX_STOP" <=> k = 8
      <4>1. Len(rx.levels) = 7 <=> k = 8
        <5>1. Len(rx.levels) \in Nat
          BY <1>5
        <5>2. \A n \in Nat, m \in 1 .. 8 : m = n + 1 => (n = 7 <=> m = 8)
          OBVIOUS
        <5> QED
          BY <3>1, <5>1, <5>2, Zenon
      <4> QED
        BY <3>4, <4>1
    <3>9. rx'.st \in {"RX_BITS", "RX_STOP"}
      BY <3>4
    <3> QED
      BY <3>4, <3>5, <3>7, <3>8, <3>9
  <2> QED
    BY <1>1, <2>1, <2>2
<1> HIDE DEF k
<1>12. BitDue' = k + 1
  BY <1>11 DEF BitDue
<1>13. Aim' = Aim - rxIn + D * P
  <2> DEFINE e == D - 1
             x == (e - 2) * P
             y == D * P
  <2>1. Aim' = P + x
    BY <1>4, <1>11 DEF Aim
  <2>2. x + 3 * P = y /\ x \in Int
    <3>1. e - 2 \in Int /\ e - 2 + 3 = D
      BY <1>6
    <3>2. (e - 2 + 3) * P = (e - 2) * P + 3 * P /\ (e - 2) * P \in Int
      <4> HIDE DEF e
      <4> QED
        BY <1>3, <3>1, Distributes
    <3> QED
      BY <3>1, <3>2
  <2> HIDE DEF x, y, e
  <2>3. y \in Int
    BY <1>3, <2>2
  <2> QED
    BY <1>3, <2>1, <2>2, <2>3 DEF y
<1>14. Window(BitDue)'
  <2>1. Fall' + Look(k + 1) + P <= Aim' /\ Aim' <= Fall' + Look(k + 1) + 2 * P
    <3> DEFINE y == D * P
    <3>1. Aim' = Aim - rxIn + y /\ Look(k + 1) = Look(k) + y /\ y \in Int
      BY <1>6, <1>13
    <3> HIDE DEF y
    <3> QED
      BY <1>3, <1>4, <1>6, <1>7, <3>1
  <2>2. k + 1 \in Int
    BY <1>6
  <2> QED
    BY <1>12, <2>1, <2>2, WindowNext DEF ToEdge
<1>15. rx'.cnt # 0 /\ rx'.cnt # 1
  BY <1>6, <1>11
<1>16. Reads(byte)'
  BY <1>8, <1>10, <1>11, <1>15 DEF Reads
<1>17. rx'.st = "RX_BITS" => Len(rx'.levels) <= 7
  BY <1>6, <1>11
<1>18. Reading'
  BY <1>4, <1>11, <1>14, <1>15, <1>16, <1>17 DEF Reading
<1> QED
  BY <1>10, <1>18 DEF Phases

\* The receiver looks at the stop bit.
LEMMA ReadingStops ==
  ASSUME ToEdge, Reading, rx.cnt = 0, rx.st = "RX_STOP"
  PROVE  Phases' /\ DeliveredRight'
<1>1. Window(BitDue) /\ Len(rx.levels) = 8 /\ sync[1] = 1
  BY DEF Reading
<1>2. PICK byte \in Link.bytes : Reads(byte)
  BY DEF Reading
<1>3. /\ Aim = rxIn - 2 * P /\ rxIn \in Int /\ P \in Int /\ P > 0 /\ rxIn > 0
  BY AimLaws DEF ToEdge, Clocks
<1>4. Fall \in Int /\ RxOK' /\ sync'[1] \in {level, level'}
  BY EdgeLaws
<1>5. BitDue = 9
  BY PlaceLaw DEF ToEdge
<1>6. sync[2] = 1 /\ Sending(byte) /\ inFlight = <<byte>>
  BY <1>2, <1>5 DEF Reads, Bit, Stop
<1>7. inFlight = Pending
  <2>1. byte \in Seq(Levels) /\ Len(byte) = 8
    <3>1. byte \in [1 .. 8 -> {0, 1}]
      BY SettingsAssumption DEF Link, ToEdge
    <3> QED
      BY <3>1, ByteOnLine
  <2>2. rx.levels \in Seq(Levels)
    BY DEF ToEdge, RxOK
  <2>3. rx.levels = byte
    BY <1>1, <1>2, <2>1, <2>2, SeqEqual DEF Reads
  <2> QED
    BY <1>6, <2>3 DEF Pending
<1>8. tx.bits = 1
  <2>1. /\ Look(9) \in Int /\ Begin(9) \in Int /\ Begin(9) < Look(9) + P
    <3>1. 9 \in 0 .. 9
      OBVIOUS
    <3> QED
      BY <3>1, BitLaws DEF ToEdge
  <2>2. Fall + Look(9) + P <= Aim
    BY <1>1, <1>5 DEF Window
  <2>3. Begin(9) < rxIn - Fall
    BY <1>3, <1>4, <2>1, <2>2
  <2>4. tx.bits # 0
    BY <1>6 DEF Sending, SendsOn
  <2> QED
    BY <2>3, <2>4 DEF ToEdge, Shows
<1>9. tx'.bits = 1 /\ level' = level /\ level = 1
  <2>1. 10 - tx.bits = 9
    BY <1>8
  <2> QED
    BY <1>6, <1>8, <2>1 DEF Sending, SendsOn, Bit, Stop, ToEdge, GoesOn
<1>10. Over
  BY <1>1, <1>6, <1>7, <1>8, <1>9 DEF Over, Free, Ending
<1> QED
  BY <1>10, OverStep DEF Phases

\* An edge of the receiver while the line goes on.
LEMMA RxStep ==
  ASSUME ToEdge, Phases
  PROVE  Phases' /\ DeliveredRight' /\ RxOK'
<1>1. RxOK'
  BY EdgeLaws
<1>2. CASE Over
  BY <1>1, <1>2, OverStep DEF Phases
<1>3. CASE Reading
  BY <1>1, <1>3, ReadingCounts, ReadingTakes, ReadingStops
<1> QED
  BY <1>1, <1>2, <1>3, UnseenStep, SeenOnceStep, SeenTwiceStep, RejectingStep DEF Phases

\* What is in flight: at most a byte read and the next one begun.
LEMMA InFlightShort ==
  ASSUME UartInv
  PROVE  /\ inFlight \in Seq(Seq(Levels)) /\ Len(inFlight) <= 2
         /\ tx.bits = 0 /\ rx.st = "RX_IDLE" /\ level = 1 /\ sync = <<1, 1>> => inFlight = <<>>
<1> DEFINE S == Seq(Levels)
<1>1. rx.levels \in S
  BY DEF UartInv, RxOK
<1>2. ASSUME NEW byte \in Link.bytes PROVE byte \in S
  <2>1. byte \in [1 .. 8 -> {0, 1}]
    BY SettingsAssumption DEF Link, UartInv
  <2> QED
    BY <2>1, ByteOnLine
<1> HIDE DEF S
<1>3. /\ Pending \in Seq(S) /\ Len(Pending) <= 1 /\ (rx.st = "RX_IDLE" => Pending = <<>>)
      /\ <<>> \in Seq(S) /\ Len(<<>>) = 0 /\ Len(Pending) \in Nat
  BY <1>1 DEF Pending
<1>4. ASSUME NEW byte \in Link.bytes
      PROVE  /\ Pending \o <<byte>> \in Seq(S) /\ Len(Pending \o <<byte>>) <= 2
             /\ <<byte>> \in Seq(S) /\ Len(<<byte>>) = 1
  <2>1. byte \in S
    BY <1>2
  <2> DEFINE w == <<byte>>
             v == Pending
  <2>2. w \in Seq(S) /\ Len(w) = 1 /\ v \in Seq(S) /\ Len(v) <= 1 /\ Len(v) \in Nat
    BY <1>3, <2>1
  <2> HIDE DEF w, v
  <2>3. v \o w \in Seq(S) /\ Len(v \o w) = Len(v) + Len(w)
    BY <2>2, ConcatProperties
  <2>4. Len(v \o w) <= 2
    BY <2>2, <2>3
  <2> QED
    BY <2>2, <2>3, <2>4 DEF v, w
<1>5. CASE Over
  BY <1>3, <1>5 DEF Over, S
<1>6. CASE UnderWay
  <2>1. CASE tx.bits = 0
    BY <1>3, <1>6, <2>1 DEF UnderWay, S
  <2>2. CASE tx.bits # 0
    <3>1. PICK byte \in Link.bytes : inFlight = Pending \o <<byte>>
      BY <1>6, <2>2 DEF UnderWay
    <3> QED
      BY <1>4, <2>2, <3>1 DEF S
  <2> QED
    BY <2>1, <2>2
<1>7. CASE SeenOnce \/ SeenTwice
  <2>1. sync # <<1, 1>>
    BY <1>7 DEF SeenOnce, SeenTwice
  <2>2. UnderWay
    BY <1>7 DEF SeenOnce, SeenTwice
  <2> QED
    BY <1>6, <2>2
<1>8. CASE Reading
  <2>1. PICK byte \in Link.bytes : Sending(byte) /\ inFlight = <<byte>>
    BY <1>8 DEF Reading, Reads
  <2>2. tx.bits # 0
    BY <2>1 DEF Sending, SendsOn
  <2> QED
    BY <1>4, <2>1, <2>2 DEF S
<1>9. CASE Rejecting
  BY <1>3, <1>9 DEF Rejecting, S
<1> QED
  BY <1>5, <1>6, <1>7, <1>8, <1>9 DEF UartInv, Phases, Unseen

\* Nothing is on the line: the receiver waits for nothing.
LEMMA RestsOver ==
  ASSUME UartInv, ~Event
  PROVE  Over
<1>1. ~Unseen /\ ~SeenOnce /\ ~SeenTwice
  BY DEF Unseen, SeenOnce, SeenTwice
<1>2. ~Reading
  BY DEF Reading, Reads, Sending, SendsOn, Event
<1>3. ~Rejecting
  BY DEF Rejecting, Event
<1> QED
  BY <1>1, <1>2, <1>3 DEF UartInv, Phases

\* A byte that begins with this step.
Fresh == IF tx'.bits = 10 /\ tx.bits # 10 THEN <<SubSeq(tx'.left, 1, 8)>> ELSE <<>>

\* The line is quiet, or falls, behind a receiver that waits for nothing.
LEMMA NextEvent ==
  ASSUME setting' = setting, P \in Int, P > 0, Starts \/ Silent,
         sync'[1] \in {0, 1}, sync'[1] = 0 => sync'[2] = 1 /\ rxIn' = P, sync'[1] = 1 \/ level' = 0,
         rxIn' \in Int, rxIn' <= P, Free', tx.bits \in {0, 1},
         Pending' \in Seq(Seq(Levels)), inFlight' = Pending' \o Fresh
  PROVE  Phases'
<1>1. Link' = Link /\ P' = P
  BY SettingStays
<1>2. Pending' \o <<>> = Pending'
  OBVIOUS
<1>3. CASE Silent
  <2>1. tx'.bits = 0 /\ level' = 1
    BY <1>3 DEF Silent, TxIdle
  <2>2. inFlight' = Pending'
    BY <1>2, <2>1 DEF Fresh
  <2> QED
    BY <2>1, <2>2 DEF Over, Phases
<1>4. CASE Starts
  <2>1. Event' /\ Fall' = 0 /\ level' = 0
    BY <1>4 DEF Starts
  <2>2. UnderWay'
    <3>1. CASE tx'.bits = 0
      <4>1. Fresh = <<>>
        BY <3>1 DEF Fresh
      <4> QED
        BY <1>2, <3>1, <4>1 DEF UnderWay
    <3>2. CASE tx'.bits # 0
      <4>1. PICK byte \in Link.bytes : Sending(byte)' /\ tx'.bits = 10 /\ SubSeq(tx'.left, 1, 8) = byte
        BY <1>4, <3>2 DEF Starts
      <4>2. Fresh = <<byte>>
        <5>1. tx.bits # 10
          OBVIOUS
        <5> QED
          BY <4>1, <5>1, Zenon DEF Fresh
      <4> QED
        BY <1>1, <3>2, <4>1, <4>2 DEF UnderWay
    <3> QED
      BY <3>1, <3>2
  <2>3. CASE sync'[1] = 1
    <3>1. rxIn' - P <= 0
      <4>1. \A a, b \in Int : a <= b => a - b <= 0
        OBVIOUS
      <4> QED
        BY <4>1, Zenon
    <3>2. rxIn' - P' <= Fall'
      BY <1>1, <2>1, <3>1, Zenon
    <3> QED
      BY <2>1, <2>2, <2>3, <3>2 DEF Unseen, Phases
  <2>4. CASE sync'[1] = 0
    <3>1. Fall' <= rxIn' - P' /\ rxIn' - P' <= Fall' + P'
      BY <1>1, <2>1, <2>4
    <3> QED
      BY <2>1, <2>2, <2>4, <3>1 DEF SeenOnce, Phases
  <2> QED
    BY <2>3, <2>4
<1> QED
  BY <1>3, <1>4

\* The same with an edge of the receiver, and without one.
LEMMA SettlesWithEdge ==
  ASSUME UartInv, Clocks, Over, setting' = setting, TxOK', Starts \/ Silent,
         RxEdge, rxIn' = P, inFlight' = Kept \o Fresh
  PROVE  Phases' /\ RxOK' /\ DeliveredRight'
<1>1. /\ level = 1 /\ sync[1] = 1 /\ Free /\ tx.bits \in {0, 1} /\ inFlight = Pending
      /\ setting \in DOMAIN Settings /\ TxOK /\ RxOK
  BY DEF Over, UartInv
<1>2. level \in Levels /\ level' \in Levels
  BY <1>1 DEF TxOK
<1>3. RxOK' /\ sync'[2] = 1 /\ sync'[1] \in {1, level'} /\ sync'[1] \in {0, 1}
  BY <1>1, <1>2, RxTypes DEF Levels
<1>4. rx.levels \in Seq(Levels) /\ rx'.levels \in Seq(Levels)
  BY <1>1, <1>3 DEF RxOK
<1>5. /\ Pending \in Seq(Seq(Levels)) /\ Pending' \in Seq(Seq(Levels))
      /\ inFlight = Pending \o <<>> /\ Pending' \o <<>> = Pending' /\ <<>> \in Seq(Seq(Levels))
  BY <1>1, <1>4 DEF Pending
<1>6. Free' /\ Kept = Pending' \o <<>> /\ DeliveredRight'
  BY <1>1, <1>2, <1>5, FreeStep
<1>7. P \in Int /\ P > 0
  BY DEF Clocks
<1>8. sync'[1] = 1 \/ level' = 0
  BY <1>2, <1>3 DEF Levels
<1>9. Kept = Pending'
  BY <1>5, <1>6
<1>10. inFlight' = Pending' \o Fresh
  BY <1>9
<1>11. Phases'
  BY <1>1, <1>3, <1>5, <1>6, <1>7, <1>8, <1>10, NextEvent
<1> QED
  BY <1>3, <1>6, <1>11

LEMMA SettlesWithoutEdge ==
  ASSUME UartInv, Clocks, Over, setting' = setting, Starts \/ Silent,
         UNCHANGED <<sync, rx>>, rxIn' \in Int, rxIn' <= P, inFlight' = inFlight \o Fresh
  PROVE  Phases'
<1>1. sync[1] = 1 /\ Free /\ tx.bits \in {0, 1} /\ inFlight = Pending
  BY DEF Over
<1>2. Free' /\ Pending' = Pending
  BY <1>1 DEF Free, Ending, RxIdle, Pending
<1>3. Pending' \in Seq(Seq(Levels))
  <2>1. rx.levels \in Seq(Levels)
    BY DEF UartInv, RxOK
  <2> QED
    BY <1>2, <2>1 DEF Pending
<1>4. P \in Int /\ P > 0
  BY DEF Clocks
<1>5. sync'[1] = 1
  BY <1>1
<1>6. inFlight' = Pending' \o Fresh
  BY <1>1, <1>2
<1> QED
  BY <1>1, <1>2, <1>3, <1>4, <1>5, <1>6, NextEvent

\* The line goes on between two edges of the receiver.
LEMMA GoesWithoutEdge ==
  ASSUME UartInv, Clocks, setting' = setting, GoesOn(txIn),
         UNCHANGED <<sync, rx, inFlight>>, rxIn' = rxIn - txIn
  PROVE  Phases'
<1>1. /\ rxIn \in Int /\ txIn \in Int /\ P \in Int /\ Aim \in Int
      /\ Fall \in Int /\ Fall' = Fall - txIn /\ Event' /\ Event
  <2>1. txIn \in 1 .. T /\ T \in Nat
    BY DEF UartInv, TxOK, Clocks
  <2>2. rxIn \in Int /\ P \in Int /\ Aim \in Int
    BY AimLaws DEF UartInv
  <2> QED
    BY <2>1, <2>2 DEF GoesOn
<1>2. P' = P /\ D' = D /\ HalfBit' = HalfBit /\ Link' = Link
  BY SettingStays
<1>3. /\ (tx.bits = 0) = (tx'.bits = 0)
      /\ \A byte \in Link.bytes : Sending(byte) => Sending(byte)'
      /\ tx.bits = 1 => tx'.bits = 1 /\ level' = level
      /\ tx.bits = 0 /\ level = 1 => level' = 1
  BY DEF GoesOn
<1>4. Pending' = Pending /\ (Free => Free')
  BY DEF Pending, Free, Ending, RxIdle
<1>5. UnderWay => UnderWay'
  BY <1>2, <1>3, <1>4 DEF UnderWay
<1>6. Aim' = Aim - txIn
  <2> DEFINE x == (rx.cnt - 2) * P
  <2>1. Aim = rxIn + x /\ Aim' = rxIn - txIn + x
    BY <1>2 DEF Aim
  <2>2. x \in Int
    <3>1. rx.cnt \in Nat
      BY DEF UartInv, RxOK, Clocks
    <3> QED
      BY <1>1, <3>1
  <2> HIDE DEF x
  <2> QED
    BY <1>1, <2>1, <2>2
<1>7. BitDue' = BitDue
  BY DEF BitDue
<1>8. ASSUME NEW k \in 0 .. 9, Window(k)
      PROVE  Window(k)'
  <2>1. Look(k)' = Look(k)
    BY <1>2 DEF Look
  <2>2. Look(k) \in Int
    BY BitLaws
  <2> QED
    BY <1>1, <1>2, <1>6, <1>8, <2>1, <2>2 DEF Window
<1>9. CASE Over
  <2>1. tx'.bits \in {0, 1} /\ level' = 1
    BY <1>3, <1>9 DEF Over
  <2> QED
    BY <1>4, <1>9, <2>1 DEF Over, Phases
<1>10. CASE Unseen
  BY <1>1, <1>2, <1>4, <1>5, <1>10 DEF Unseen, Phases
<1>11. CASE SeenOnce
  BY <1>1, <1>2, <1>4, <1>5, <1>11 DEF SeenOnce, Phases
<1>12. CASE SeenTwice
  <2>1. rx' = RxIdle'
    BY <1>12 DEF SeenTwice, RxIdle
  <2>2. Fall' <= rxIn' - 2 * P' /\ rxIn' - 2 * P' <= Fall' + P'
    BY <1>1, <1>2, <1>12 DEF SeenTwice
  <2> QED
    BY <1>1, <1>5, <1>12, <2>1, <2>2 DEF SeenTwice, Phases
<1>13. CASE Reading
  <2>1. BitDue \in 0 .. 9 /\ Window(BitDue)
    BY <1>13, PlaceLaw DEF Reading, UartInv
  <2>2. Window(BitDue)'
    <3> DEFINE k == BitDue
    <3>1. k \in 0 .. 9 /\ Window(k)
      BY <2>1
    <3>2. k \in Int /\ Look(k) \in Int
      BY <3>1, BitLaws
    <3>3. BitDue' = k
      BY <1>7
    <3> HIDE DEF k
    <3>4. Fall' + Look(k) + P <= Aim' /\ Aim' <= Fall' + Look(k) + 2 * P
      BY <1>1, <1>6, <3>1, <3>2 DEF Window
    <3> QED
      BY <3>2, <3>3, <3>4, WindowNext
  <2>3. PICK byte \in Link.bytes : Reads(byte)
    BY <1>13 DEF Reading
  <2>4. Reads(byte)'
    <3>1. Sending(byte)' /\ Bit(byte, BitDue)' = Bit(byte, BitDue)
      BY <1>3, <1>7, <2>3 DEF Reads, Bit
    <3> QED
      BY <2>3, <3>1 DEF Reads
  <2> QED
    BY <1>2, <1>13, <2>2, <2>4 DEF Reading, Phases
<1>14. CASE Rejecting
  <2>1. Window(0)'
    <3>1. 0 \in 0 .. 9 /\ Window(0)
      BY <1>14 DEF Rejecting
    <3> QED
      BY <1>8, <3>1
  <2>2. noise' # 0
    <3>1. tx.bits = 0
      BY <1>14 DEF Rejecting, UartInv, TxOK
    <3> QED
      BY <1>1, <1>3, <3>1 DEF Event
  <2> QED
    BY <1>14, <2>1, <2>2 DEF Rejecting, Phases
<1> QED
  BY <1>9, <1>10, <1>11, <1>12, <1>13, <1>14 DEF UartInv, Phases

\* While the transmitter has no edge, what is on the line goes on.
LEMMA LineWaits ==
  ASSUME TxOK, Clocks, setting' = setting, UNCHANGED <<level, tx, noise>>,
         NEW t \in Nat \ {0}, t < txIn, txIn' = txIn - t
  PROVE  TxOK' /\ (Event => GoesOn(t)) /\ (~Event => Silent)
<1>1. T' = T /\ D' = D /\ Link' = Link /\ T \in Nat /\ txIn \in 1 .. T
  <2>1. T' = T /\ D' = D /\ Link' = Link
    BY SettingStays
  <2> QED
    BY <2>1 DEF TxOK, Clocks
<1>2. TxOK'
  <2>1. txIn' \in 1 .. T
    BY <1>1
  <2>2. TxIdle' = TxIdle
    BY DEF TxIdle
  <2> QED
    BY <1>1, <2>1, <2>2 DEF TxOK
<1>3. ASSUME Event PROVE GoesOn(t)
  <2>1. Fall \in Int
    BY <1>3, FallPast
  <2>2. Fall' = Fall - t
    <3>1. CASE tx.bits # 0
      <4> DEFINE x == tx.cnt * T
                 b == Begin(11 - tx.bits)
      <4>1. Begin(11 - tx.bits)' = b
        <5>1. D' = D /\ T' = T
          BY <1>1
        <5> QED
          BY <5>1 DEF Begin
      <4>2. Fall = txIn + x - b /\ Fall' = txIn - t + x - b
        BY <1>1, <3>1, <4>1 DEF Fall
      <4>3. x \in Int
        <5>1. tx.cnt \in 0 .. D - 1 /\ D \in Nat
          BY DEF TxOK, Clocks
        <5> QED
          BY <1>1, <5>1
      <4>4. b \in Int
        <5>1. 11 - tx.bits \in 0 .. 10
          BY <3>1 DEF TxOK
        <5> QED
          BY <5>1, BeginNat
      <4> HIDE DEF x, b
      <4> QED
        BY <1>1, <4>2, <4>3, <4>4
    <3>2. CASE tx.bits = 0
      <4> DEFINE x == noise * T
      <4>1. Fall = txIn - x /\ Fall' = txIn - t - x
        BY <1>1, <3>2 DEF Fall
      <4>2. x \in Int
        BY <1>1 DEF TxOK
      <4> HIDE DEF x
      <4> QED
        BY <1>1, <4>1, <4>2
    <3> QED
      BY <3>1, <3>2
  <2>3. \A byte \in Link.bytes : Sending(byte) => Sending(byte)'
    BY DEF Sending
  <2> QED
    BY <1>3, <2>1, <2>2, <2>3 DEF GoesOn, Event
<1>4. ASSUME ~Event PROVE Silent
  <2>1. tx.bits = 0 /\ noise = 0
    BY <1>4 DEF Event
  <2>2. tx = TxIdle /\ level = 1
    BY <2>1 DEF TxOK
  <2> QED
    BY <2>1, <2>2 DEF Silent
<1> QED
  BY <1>2, <1>3, <1>4

\* The history, step by step.
LEMMA Tracks ==
  /\ Track(FALSE) => inFlight' = inFlight \o Fresh
  /\ Track(Delivers(sync[2])) => inFlight' = Kept \o Fresh
BY DEF Track, Kept, Fresh

LEMMA NothingFresh ==
  ASSUME UartInv, tx'.bits = 10 => tx.bits = 10
  PROVE  inFlight \o Fresh = inFlight /\ Kept \o Fresh = Kept
<1>1. Fresh = <<>>
  BY DEF Fresh
<1> DEFINE S == Seq(Levels)
<1>2. inFlight \in Seq(S)
  BY InFlightShort
<1> HIDE DEF S
<1>3. Kept \in Seq(S)
  BY <1>2 DEF Kept
<1> QED
  BY <1>1, <1>2, <1>3

UartRight == UartInv /\ DeliveredRight

LEMMA TxAloneStep ==
  ASSUME UartRight, Clocks, Quietens, setting' = setting, TxAlone
  PROVE  UartRight'
<1>1. /\ UartInv /\ TxOK /\ RxOK /\ setting \in DOMAIN Settings
      /\ txIn < rxIn /\ txIn' = T /\ rxIn' = rxIn - txIn /\ TxEdge
      /\ inFlight' = inFlight \o Fresh /\ UNCHANGED <<sync, rx, delivered>>
  BY Tracks DEF UartRight, UartInv, TxAlone, T
<1>2. /\ txIn \in Int /\ txIn > 0 /\ rxIn \in Int /\ rxIn <= P /\ P \in Int
      /\ rxIn' \in 1 .. P
  <2>1. txIn \in 1 .. T /\ rxIn \in 1 .. P /\ T \in Nat /\ P \in Nat
    BY <1>1 DEF TxOK, RxOK, Clocks
  <2> QED
    BY <1>1, <2>1
<1>3. TxOK' /\ IF Event /\ ~LineEnds THEN GoesOn(txIn) ELSE Starts \/ Silent
  BY <1>1, TxKinds
<1>4. RxOK'
  <2>1. P' = P /\ D' = D
    BY SettingStays
  <2> QED
    BY <1>1, <1>2, <2>1 DEF RxOK, RxIdle
<1>5. Phases'
  <2>1. CASE Event /\ ~LineEnds
    <3>1. GoesOn(txIn)
      BY <1>3, <2>1
    <3>2. inFlight' = inFlight
      BY <1>1, <3>1, NothingFresh DEF GoesOn
    <3> QED
      BY <1>1, <3>1, <3>2, GoesWithoutEdge
  <2>2. CASE ~(Event /\ ~LineEnds)
    <3>1. Over
      BY <1>1, <1>2, <2>2, EndsOver, RestsOver
    <3>2. rxIn' \in Int /\ rxIn' <= P
      BY <1>2
    <3> QED
      BY <1>1, <1>3, <2>2, <3>1, <3>2, SettlesWithoutEdge
  <2> QED
    BY <2>1, <2>2
<1>6. DeliveredRight'
  BY <1>1 DEF UartRight, DeliveredRight
<1> QED
  BY <1>1, <1>3, <1>4, <1>5, <1>6 DEF UartRight, UartInv

LEMMA RxAloneStep ==
  ASSUME UartRight, Clocks, Quietens, setting' = setting, RxAlone
  PROVE  UartRight'
<1>1. /\ UartInv /\ TxOK /\ RxOK /\ setting \in DOMAIN Settings
      /\ rxIn < txIn /\ rxIn' = P /\ txIn' = txIn - rxIn /\ RxEdge
      /\ inFlight' = Kept \o Fresh /\ UNCHANGED <<level, tx, noise>>
  BY Tracks DEF UartRight, UartInv, RxAlone, P
<1>2. rxIn \in Nat \ {0}
  BY <1>1 DEF RxOK, Clocks
<1>3. TxOK' /\ (Event => GoesOn(rxIn)) /\ (~Event => Silent)
  BY <1>1, <1>2, LineWaits
<1>4. CASE Event
  <2>1. Shows(rxIn)
    BY <1>1, <1>2, <1>4, LineShows
  <2>2. inFlight' = Kept
    BY <1>1, NothingFresh
  <2>3. ToEdge
    BY <1>1, <1>3, <1>4, <2>1, <2>2 DEF ToEdge
  <2>4. Phases' /\ DeliveredRight' /\ RxOK'
    BY <1>1, <2>3, RxStep DEF UartInv
  <2> QED
    BY <1>1, <1>3, <2>4 DEF UartRight, UartInv
<1>5. CASE ~Event
  <2>1. Over
    BY <1>1, <1>5, RestsOver
  <2>2. Phases' /\ RxOK' /\ DeliveredRight'
    BY <1>1, <1>3, <1>5, <2>1, SettlesWithEdge
  <2> QED
    BY <1>1, <1>3, <2>2 DEF UartRight, UartInv
<1> QED
  BY <1>4, <1>5

LEMMA BothStep ==
  ASSUME UartRight, Clocks, Quietens, setting' = setting, Both
  PROVE  UartRight'
<1>1. /\ UartInv /\ TxOK /\ RxOK /\ setting \in DOMAIN Settings
      /\ txIn = rxIn /\ txIn' = T /\ rxIn' = P /\ TxEdge /\ RxEdge
      /\ inFlight' = Kept \o Fresh
  BY Tracks DEF UartRight, UartInv, Both, T, P
<1>2. rxIn \in Nat \ {0}
  BY <1>1 DEF RxOK, Clocks
<1>3. TxOK' /\ IF Event /\ ~LineEnds THEN GoesOn(txIn) ELSE Starts \/ Silent
  BY <1>1, TxKinds
<1>4. CASE Event /\ ~LineEnds
  <2>1. Shows(rxIn)
    BY <1>1, <1>2, <1>4, LineShows
  <2>2. GoesOn(rxIn)
    BY <1>1, <1>3, <1>4
  <2>3. inFlight' = Kept
    BY <1>1, <2>2, NothingFresh DEF GoesOn
  <2>4. ToEdge
    BY <1>1, <1>3, <2>1, <2>2, <2>3 DEF ToEdge
  <2>5. Phases' /\ DeliveredRight' /\ RxOK'
    BY <1>1, <2>4, RxStep DEF UartInv
  <2> QED
    BY <1>1, <1>3, <2>5 DEF UartRight, UartInv
<1>5. CASE ~(Event /\ ~LineEnds)
  <2>1. txIn <= rxIn
    BY <1>1, <1>2
  <2>2. Over
    BY <1>1, <1>5, <2>1, EndsOver, RestsOver
  <2>3. Phases' /\ RxOK' /\ DeliveredRight'
    BY <1>1, <1>3, <1>5, <2>2, SettlesWithEdge
  <2> QED
    BY <1>1, <1>3, <2>3 DEF UartRight, UartInv
<1> QED
  BY <1>4, <1>5

LEMMA UartStarts ==
  ASSUME UartInit, Clocks
  PROVE  UartRight
<1>1. T \in Nat \ {0} /\ P \in Nat \ {0} /\ D \in Nat /\ D >= 3
  BY DEF Clocks
<1>2. /\ setting \in DOMAIN Settings /\ txIn \in 1 .. T /\ rxIn = P
      /\ level = 1 /\ tx = TxIdle /\ noise = 0
      /\ sync = <<1, 1>> /\ rx = RxIdle
      /\ inFlight = <<>> /\ delivered = NoByte
  BY DEF UartInit, T, P
<1>3. TxOK
  <2>1. TxIdle \in [left : Seq(Levels), bits : 0 .. 10, cnt : 0 .. D - 1] /\ TxIdle.bits = 0
    BY <1>1 DEF TxIdle
  <2> QED
    BY <1>2, <2>1 DEF TxOK, Levels
<1>4. RxOK
  <2>1. /\ RxIdle \in [st : {"RX_IDLE", "RX_START", "RX_BITS", "RX_STOP"}, cnt : 0 .. D, levels : Seq(Levels)]
        /\ RxIdle.st = "RX_IDLE"
    BY <1>1 DEF RxIdle
  <2> QED
    BY <1>1, <1>2, <2>1 DEF RxOK, Levels
<1>5. Over
  <2>1. RxIdle.st = "RX_IDLE" /\ TxIdle.bits = 0
    BY DEF RxIdle, TxIdle
  <2> QED
    BY <1>2, <2>1 DEF Over, Free, Pending
<1>6. DeliveredRight
  BY <1>2 DEF DeliveredRight, NoByte
<1> QED
  BY <1>2, <1>3, <1>4, <1>5, <1>6 DEF UartRight, UartInv, Phases

\* On every link whose clocks agree well enough each byte arrives, whatever
\* the phases of the clocks, the pauses between the bytes and the noise.
THEOREM BytesGetThrough ==
  (\A name \in DOMAIN Settings : Tolerant(Settings[name])) => (UartSpec => []BytesArrive)
<1> SUFFICES ASSUME \A name \in DOMAIN Settings : Tolerant(Settings[name])
             PROVE  UartSpec => []BytesArrive
  OBVIOUS
<1>1. ASSUME setting \in DOMAIN Settings PROVE Clocks /\ Quietens
  <2>1. Tolerant(Link)
    BY <1>1 DEF Link
  <2> QED
    BY <1>1, <2>1, ClocksAgree
<1>2. UartInit => UartRight
  <2> SUFFICES ASSUME UartInit PROVE UartRight
    OBVIOUS
  <2>1. Clocks
    BY <1>1 DEF UartInit
  <2> QED
    BY <2>1, UartStarts
<1>3. UartRight /\ [UartNext]_uartVars => UartRight'
  <2> SUFFICES ASSUME UartRight, [UartNext]_uartVars PROVE UartRight'
    OBVIOUS
  <2>1. Clocks /\ Quietens
    BY <1>1 DEF UartRight, UartInv
  <2>2. CASE UartNext
    <3>1. setting' = setting
      BY <2>2 DEF UartNext
    <3> QED
      BY <2>1, <2>2, <3>1, TxAloneStep, RxAloneStep, BothStep DEF UartNext
  <2>3. CASE UNCHANGED uartVars
    <3>1. /\ setting' = setting /\ txIn' = txIn /\ rxIn' = rxIn /\ level' = level /\ tx' = tx /\ noise' = noise
          /\ sync' = sync /\ rx' = rx /\ inFlight' = inFlight /\ delivered' = delivered
      BY <2>3 DEF uartVars
    <3>2. T' = T /\ P' = P /\ D' = D /\ Link' = Link /\ HalfBit' = HalfBit
      BY <3>1, SettingStays
    <3>3. TxOK' /\ RxOK'
      BY <3>1, <3>2 DEF UartRight, UartInv, TxOK, RxOK, RxIdle, TxIdle
    <3>4. Phases'
      <4>1. /\ Fall' = Fall /\ Aim' = Aim /\ BitDue' = BitDue /\ Pending' = Pending
            /\ Free' = Free /\ Event' = Event
        BY <3>1, <3>2 DEF Fall, Begin, Aim, BitDue, Pending, Free, Ending, RxIdle, Event
      <4>2. UnderWay' = UnderWay
        BY <3>1, <3>2, <4>1 DEF UnderWay, Sending
      <4>3. Window(BitDue)' = Window(BitDue) /\ Window(0)' = Window(0)
        BY <3>1, <3>2, <4>1 DEF Window, Look
      <4>4. Reading' = Reading
        BY <3>1, <3>2, <4>1, <4>3 DEF Reading, Reads, Sending, Bit
      <4>5. Rejecting' = Rejecting
        BY <3>1, <4>3 DEF Rejecting
      <4> QED
        BY <3>1, <3>2, <4>1, <4>2, <4>4, <4>5
           DEF UartRight, UartInv, Phases, Over, Unseen, SeenOnce, SeenTwice, RxIdle
    <3> QED
      BY <3>1, <3>3, <3>4 DEF UartRight, UartInv, DeliveredRight
  <2> QED
    BY <2>2, <2>3
<1>4. UartRight => BytesArrive
  BY InFlightShort DEF UartRight, DeliveredRight, BytesArrive
<1> QED
  BY <1>2, <1>3, <1>4, PTL DEF UartSpec
=============================================================================
