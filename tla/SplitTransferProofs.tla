------------------------- MODULE SplitTransferProofs -------------------------
(***************************************************************************)
(* Reassembly never mixes two splittings, no part of an undelivered        *)
(* message is lost across a step-down of the MTU, and only a step-down     *)
(* repeats a message or its receipt, for every ladder, every set of        *)
(* messages and every path.                                                *)
(***************************************************************************)
EXTENDS SplitTransfer, WireArithmetic, FiniteSetTheorems

-----------------------------------------------------------------------------
(* Queues as sets of entries.                                              *)

(* Append adds one entry.                                                  *)
LEMMA AppendElements ==
  ASSUME NEW T, NEW s \in Seq(T), NEW x \in T
  PROVE  Append(s, x) \in Seq(T) /\ Elements(Append(s, x)) = Elements(s) \cup {x}
  <1>1. Append(s, x) \in Seq(T) /\ DOMAIN Append(s, x) = 1 .. Len(s) + 1 /\ DOMAIN s = 1 .. Len(s)
        /\ Len(s) \in Nat
    OBVIOUS
  <1>2. Append(s, x)[Len(s) + 1] = x /\ \A i \in 1 .. Len(s) : Append(s, x)[i] = s[i] OBVIOUS
  <1>3. 1 .. Len(s) + 1 = (1 .. Len(s)) \cup {Len(s) + 1} BY <1>1
  <1>4. Elements(Append(s, x)) = {Append(s, x)[i] : i \in (1 .. Len(s)) \cup {Len(s) + 1}}
        /\ Elements(s) = {s[i] : i \in 1 .. Len(s)}
    BY <1>1, <1>3 DEF Elements
  <1>5. {Append(s, x)[i] : i \in (1 .. Len(s)) \cup {Len(s) + 1}}
          = {s[i] : i \in 1 .. Len(s)} \cup {x}
    <2> DEFINE A == Append(s, x)
               D == 1 .. Len(s)
               k == Len(s) + 1
    <2>1. A[k] = x /\ \A i \in D : A[i] = s[i] BY <1>2
    <2> HIDE DEF A, D, k
    <2>2. {A[i] : i \in D \cup {k}} = {s[i] : i \in D} \cup {x} BY <2>1
    <2> QED BY <2>2 DEF A, D, k
  <1> QED BY <1>1, <1>4, <1>5

(* Concatenation joins the entries.                                        *)
LEMMA ConcatElements ==
  ASSUME NEW T, NEW s \in Seq(T), NEW t \in Seq(T)
  PROVE  s \o t \in Seq(T) /\ Elements(s \o t) = Elements(s) \cup Elements(t)
  <1>1. s \o t \in Seq(T) /\ DOMAIN (s \o t) = 1 .. Len(s) + Len(t) /\ DOMAIN s = 1 .. Len(s)
        /\ DOMAIN t = 1 .. Len(t) /\ Len(s) \in Nat /\ Len(t) \in Nat
    OBVIOUS
  <1>2. \A i \in 1 .. Len(s) : i \in DOMAIN (s \o t) /\ (s \o t)[i] = s[i] BY <1>1
  <1>3. \A i \in 1 .. Len(t) : Len(s) + i \in DOMAIN (s \o t) /\ (s \o t)[Len(s) + i] = t[i] BY <1>1
  <1>4. \A i \in DOMAIN (s \o t) : i \in 1 .. Len(s) \/ \E j \in 1 .. Len(t) : i = Len(s) + j
    <2> TAKE i \in DOMAIN (s \o t)
    <2>1. i \in 1 .. Len(s) \/ (i - Len(s) \in 1 .. Len(t) /\ i = Len(s) + (i - Len(s))) BY <1>1
    <2> QED BY <2>1
  <1>5. Elements(s \o t) \subseteq Elements(s) \cup Elements(t)
    <2> SUFFICES ASSUME NEW i \in DOMAIN (s \o t) PROVE (s \o t)[i] \in Elements(s) \cup Elements(t)
      BY Zenon DEF Elements
    <2>1. CASE i \in 1 .. Len(s) BY <1>1, <1>2, <2>1, Zenon DEF Elements
    <2>2. CASE \E j \in 1 .. Len(t) : i = Len(s) + j BY <1>1, <1>3, <2>2, Zenon DEF Elements
    <2> QED BY <1>4, <2>1, <2>2
  <1>6. Elements(s) \subseteq Elements(s \o t) BY <1>1, <1>2, Zenon DEF Elements
  <1>7. Elements(t) \subseteq Elements(s \o t) BY <1>1, <1>3, Zenon DEF Elements
  <1> QED BY <1>1, <1>5, <1>6, <1>7, Zenon

(* A queue is its head and its tail.                                       *)
LEMMA TailElements ==
  ASSUME NEW T, NEW s \in Seq(T), s # <<>>
  PROVE  /\ Head(s) \in T /\ Tail(s) \in Seq(T) /\ Head(s) \in Elements(s)
         /\ Elements(s) = {Head(s)} \cup Elements(Tail(s))
  <1>1. Head(s) \in T /\ Tail(s) \in Seq(T) /\ Len(s) \in Nat \ {0} /\ DOMAIN s = 1 .. Len(s)
        /\ DOMAIN Tail(s) = 1 .. Len(s) - 1 /\ Head(s) = s[1]
    OBVIOUS
  <1>2. \A i \in 1 .. Len(s) - 1 : i + 1 \in DOMAIN s /\ Tail(s)[i] = s[i + 1] BY <1>1
  <1>3. \A i \in DOMAIN s : i = 1 \/ \E j \in 1 .. Len(s) - 1 : i = j + 1
    <2> TAKE i \in DOMAIN s
    <2>1. i = 1 \/ (i - 1 \in 1 .. Len(s) - 1 /\ i = (i - 1) + 1) BY <1>1
    <2> QED BY <2>1
  <1>4. 1 \in DOMAIN s BY <1>1
  <1>5. Elements(s) \subseteq {Head(s)} \cup Elements(Tail(s))
    <2> SUFFICES ASSUME NEW i \in DOMAIN s PROVE s[i] \in {Head(s)} \cup Elements(Tail(s))
      BY Zenon DEF Elements
    <2>1. CASE i = 1 BY <1>1, <2>1
    <2>2. CASE \E j \in 1 .. Len(s) - 1 : i = j + 1 BY <1>1, <1>2, <2>2, Zenon DEF Elements
    <2> QED BY <1>3, <2>1, <2>2
  <1>6. Head(s) \in Elements(s) BY <1>1, <1>4, Zenon DEF Elements
  <1>7. Elements(Tail(s)) \subseteq Elements(s)
    <2> SUFFICES ASSUME NEW i \in 1 .. Len(s) - 1 PROVE Tail(s)[i] \in Elements(s)
      BY <1>1, Zenon DEF Elements
    <2> QED BY <1>2, Zenon DEF Elements
  <1>8. {Head(s)} \cup Elements(Tail(s)) = Elements(s) BY <1>5, <1>6, <1>7, Zenon
  <1> QED BY <1>1, <1>6, <1>8, Zenon

(* The recursive function inside FlattenSeq exists and flattens the        *)
(* sequences up to each place.                                             *)
Flattens(f, ss, n) ==
  f = [i \in 1 .. n |-> IF i = 1 THEN ss[i] ELSE f[i - 1] \o ss[i]]

(* There is such a function for every length.                              *)
LEMMA FlattensExists ==
  ASSUME NEW ss PROVE \A n \in Nat : \E f : Flattens(f, ss, n)
  <1> DEFINE S == {n \in Nat : \E f : Flattens(f, ss, n)}
  <1>1. 0 \in S
    <2>1. Flattens([i \in 1 .. 0 |-> {}], ss, 0) BY DEF Flattens
    <2> QED BY <2>1
  <1>2. ASSUME NEW n \in Nat, n \in S PROVE n + 1 \in S
    <2>1. PICK f : Flattens(f, ss, n) BY <1>2
    <2> DEFINE g == [i \in 1 .. n + 1 |->
                       IF i <= n THEN f[i] ELSE IF i = 1 THEN ss[i] ELSE f[i - 1] \o ss[i]]
    <2>2. ASSUME NEW i \in 1 .. n + 1
          PROVE  g[i] = IF i = 1 THEN ss[i] ELSE g[i - 1] \o ss[i]
      <3>1. i # 1 => i - 1 \in 1 .. n + 1 /\ g[i - 1] = f[i - 1] OBVIOUS
      <3>2. CASE i <= n
        <4>1. i \in 1 .. n BY <3>2
        <4>2. f[i] = IF i = 1 THEN ss[i] ELSE f[i - 1] \o ss[i] BY <2>1, <4>1, Zenon DEF Flattens
        <4> QED BY <3>1, <3>2, <4>2
      <3> QED BY <3>1, <3>2
    <2>3. g = [i \in 1 .. n + 1 |-> IF i = 1 THEN ss[i] ELSE g[i - 1] \o ss[i]] BY <2>2
    <2> HIDE DEF g
    <2>4. Flattens(g, ss, n + 1) BY <2>3, Zenon DEF Flattens
    <2> QED BY <2>4
  <1> HIDE DEF S
  <1>3. Nat \subseteq S BY <1>1, <1>2, Induction, Zenon
  <1> QED BY <1>3 DEF S

(* Its value at n holds the entries of the first n sequences.              *)
LEMMA FlattensElements ==
  ASSUME NEW T, NEW ss \in Seq(Seq(T))
  PROVE  \A f : Flattens(f, ss, Len(ss)) => \A n \in 1 .. Len(ss) :
           f[n] \in Seq(T) /\ Elements(f[n]) = UNION {Elements(ss[i]) : i \in 1 .. n}
  <1> SUFFICES ASSUME NEW f, Flattens(f, ss, Len(ss)), NEW m \in 1 .. Len(ss)
               PROVE  f[m] \in Seq(T) /\ Elements(f[m]) = UNION {Elements(ss[i]) : i \in 1 .. m}
    OBVIOUS
  <1> DEFINE P(n) == f[n] \in Seq(T) /\ Elements(f[n]) = UNION {Elements(ss[i]) : i \in 1 .. n}
             S == {n \in Nat : n + 1 \in 1 .. Len(ss) => P(n + 1)}
  <1>0. Len(ss) \in Nat /\ \A i \in 1 .. Len(ss) : ss[i] \in Seq(T) OBVIOUS
  <1>1. 0 \in S
    <2> SUFFICES ASSUME 1 \in 1 .. Len(ss) PROVE P(1) OBVIOUS
    <2>1. f[1] = ss[1] BY Zenon DEF Flattens
    <2>2. 1 .. 1 = {1} OBVIOUS
    <2>3. UNION {Elements(ss[i]) : i \in 1 .. 1} = Elements(ss[1]) BY <2>2
    <2> QED BY <1>0, <2>1, <2>3
  <1>2. ASSUME NEW n \in Nat, n \in S PROVE n + 1 \in S
    <2> SUFFICES ASSUME n + 2 \in 1 .. Len(ss) PROVE P(n + 2)
      <3>1. (n + 1) + 1 = n + 2 /\ n + 1 \in Nat OBVIOUS
      <3>2. (n + 1) + 1 \in 1 .. Len(ss) => P((n + 1) + 1) BY <3>1, Zenon
      <3> QED BY <3>1, <3>2, Zenon
    <2>1. n + 1 \in 1 .. Len(ss) /\ P(n + 1) BY <1>0, <1>2
    <2>2. f[n + 2] = IF n + 2 = 1 THEN ss[n + 2] ELSE f[(n + 2) - 1] \o ss[n + 2] BY Zenon DEF Flattens
    <2>3. f[n + 2] = f[n + 1] \o ss[n + 2]
      <3>1. n + 2 # 1 /\ (n + 2) - 1 = n + 1 OBVIOUS
      <3> QED BY <2>2, <3>1
    <2>4. f[n + 2] \in Seq(T) /\ Elements(f[n + 2]) = Elements(f[n + 1]) \cup Elements(ss[n + 2])
      BY <1>0, <2>1, <2>3, ConcatElements
    <2>5. 1 .. n + 2 = (1 .. n + 1) \cup {n + 2} OBVIOUS
    <2>6. UNION {Elements(ss[i]) : i \in 1 .. n + 2}
            = (UNION {Elements(ss[i]) : i \in 1 .. n + 1}) \cup Elements(ss[n + 2])
      <3> DEFINE D == 1 .. n + 1
                 k == n + 2
      <3> HIDE DEF D, k
      <3>1. UNION {Elements(ss[i]) : i \in D \cup {k}}
              = (UNION {Elements(ss[i]) : i \in D}) \cup Elements(ss[k])
        BY Zenon
      <3> QED BY <2>5, <3>1 DEF D, k
    <2> QED BY <2>1, <2>4, <2>6
  <1> HIDE DEF S
  <1>3. Nat \subseteq S BY <1>1, <1>2, Induction, Zenon
  <1>4. m - 1 \in S BY <1>0, <1>3
  <1>5. (m - 1) + 1 = m BY <1>0
  <1>6. P(m) BY <1>4, <1>5, Zenon DEF S
  <1> QED BY <1>6

(* FlattenSeq strings its sequences together.                              *)
LEMMA FlattenElements ==
  ASSUME NEW T, NEW ss \in Seq(Seq(T))
  PROVE  /\ FlattenSeq(ss) \in Seq(T)
         /\ Elements(FlattenSeq(ss)) = UNION {Elements(ss[i]) : i \in DOMAIN ss}
  <1>0. Len(ss) \in Nat /\ DOMAIN ss = 1 .. Len(ss) OBVIOUS
  <1>1. CASE Len(ss) = 0
    <2>1. ss = <<>> /\ ss \in Seq(T) /\ DOMAIN ss = {} BY <1>1
    <2>2. FlattenSeq(ss) = ss BY <1>1 DEF FlattenSeq
    <2> QED BY <2>1, <2>2 DEF Elements
  <1>2. CASE Len(ss) # 0
    <2> DEFINE fl == CHOOSE f : f = [i \in 1 .. Len(ss) |-> IF i = 1 THEN ss[i] ELSE f[i - 1] \o ss[i]]
    <2>1. FlattenSeq(ss) = fl[Len(ss)] BY <1>2 DEF FlattenSeq
    <2>2. Flattens(fl, ss, Len(ss)) BY <1>0, FlattensExists, Zenon DEF Flattens
    <2> HIDE DEF fl
    <2>3. Len(ss) \in 1 .. Len(ss) BY <1>0, <1>2
    <2>5. \A n \in 1 .. Len(ss) :
            fl[n] \in Seq(T) /\ Elements(fl[n]) = UNION {Elements(ss[i]) : i \in 1 .. n}
      <3>1. \A f : Flattens(f, ss, Len(ss)) => \A n \in 1 .. Len(ss) :
              f[n] \in Seq(T) /\ Elements(f[n]) = UNION {Elements(ss[i]) : i \in 1 .. n}
        BY FlattensElements, Zenon
      <3> QED BY <2>2, <3>1, Zenon
    <2>4. fl[Len(ss)] \in Seq(T) /\ Elements(fl[Len(ss)]) = UNION {Elements(ss[i]) : i \in 1 .. Len(ss)}
      BY <2>3, <2>5, Zenon
    <2> QED BY <1>0, <2>1, <2>4, Zenon
  <1> QED BY <1>1, <1>2

(* Only keeps the entries at the places it is given.                       *)
LEMMA OnlyElements ==
  ASSUME NEW T, NEW s \in Seq(T), NEW S \in SUBSET (DOMAIN s)
  PROVE  Only(s, S) \in Seq(T) /\ Elements(Only(s, S)) = {s[i] : i \in S}
  <1> DEFINE ss == [i \in DOMAIN s |-> IF i \in S THEN <<s[i]>> ELSE <<>>]
  <1>0. Len(s) \in Nat /\ DOMAIN s = 1 .. Len(s) /\ \A i \in DOMAIN s : s[i] \in T OBVIOUS
  <1>1. \A i \in DOMAIN s : ss[i] \in Seq(T) BY <1>0
  <1>2. ss \in Seq(Seq(T)) /\ DOMAIN ss = DOMAIN s BY <1>0, <1>1
  <1>3. \A i \in S : Elements(ss[i]) = {s[i]}
    <2> TAKE i \in S
    <2>1. ss[i] = <<s[i]>> OBVIOUS
    <2>2. DOMAIN <<s[i]>> = {1} /\ <<s[i]>>[1] = s[i] OBVIOUS
    <2> QED BY <2>1, <2>2 DEF Elements
  <1>4. \A i \in DOMAIN s \ S : Elements(ss[i]) = {} BY DEF Elements
  <1>5. Only(s, S) = FlattenSeq(ss) BY DEF Only
  <1> HIDE DEF ss
  <1>6. UNION {Elements(ss[i]) : i \in DOMAIN s} = {s[i] : i \in S}
    <2>2. ASSUME NEW i \in DOMAIN s, NEW v \in Elements(ss[i]) PROVE v \in {s[j] : j \in S}
      <3>1. i \in S BY <1>4
      <3>2. v = s[i] BY <1>3, <3>1
      <3> QED BY <3>1, <3>2
    <2>3. {s[i] : i \in S} \subseteq UNION {Elements(ss[i]) : i \in DOMAIN s}
      <3> SUFFICES ASSUME NEW i \in S PROVE s[i] \in UNION {Elements(ss[j]) : j \in DOMAIN s} OBVIOUS
      <3>1. i \in DOMAIN s /\ s[i] \in Elements(ss[i]) BY <1>3
      <3> QED BY <3>1, Zenon
    <2> QED BY <2>2, <2>3
  <1> QED BY <1>2, <1>5, <1>6, FlattenElements

-----------------------------------------------------------------------------
(* Splitting.                                                              *)

Resends == [number : Nat, packet : Packets, timesSent : 1 .. Threshold]
Datagrams == [number : Nat, packet : Packets]

(* What the constants are.                                                 *)
LEMMA ConstantTypes ==
  /\ Len(Ladder) \in Nat \ {0} /\ DOMAIN Ladder = 1 .. Len(Ladder)
  /\ \A i \in DOMAIN Ladder : Ladder[i] \in Nat \ {0}
  /\ \A m \in Messages : Size[m] \in Nat \ {0}
  /\ IdSpan \in Nat \ {0} /\ StartId \in Nat /\ Threshold \in Nat \ {0} /\ HoleLimit \in Nat
  BY SplitAssumption

(* The last fragment is not longer than the others and not empty.          *)
LEMMA LastFragment ==
  ASSUME NEW s \in Nat \ {0}, NEW b \in Nat \ {0}
  PROVE  (s - 1) \div b \in Nat /\ s - (((s - 1) \div b + 1) - 1) * b \in Nat
  <1> DEFINE q == (s - 1) \div b
             r == (s - 1) % b
  <1>1. q \in Int /\ r \in 0 .. b - 1 /\ s - 1 = q * b + r
    <2>1. s - 1 \in Int OBVIOUS
    <2> QED BY <2>1, ModDivision
  <1> HIDE DEF q, r
  <1>2. q >= 0
    <2>1. q <= -1 => q * b <= -b BY <1>1
    <2> QED BY <1>1, <2>1
  <1>3. (q + 1) - 1 = q BY <1>1
  <1>4. s - q * b = r + 1 BY <1>1
  <1>5. s - ((q + 1) - 1) * b = r + 1 BY <1>3, <1>4
  <1> QED BY <1>1, <1>2, <1>5 DEF q

(* SplitPacket numbers the fragments of a message from 0 to count - 1.     *)
LEMMA SplitParts ==
  ASSUME NEW m \in Messages, NEW id \in Nat, NEW rung \in DOMAIN Ladder
  PROVE  /\ SplitPacketCount(m, rung) \in Nat \ {0}
         /\ SplitPacket(m, id, rung) \in Seq(Packets)
         /\ \A p \in Elements(SplitPacket(m, id, rung)) :
              /\ p \in Packets /\ p.message = m /\ p.id = id /\ p.count = SplitPacketCount(m, rung)
              /\ p.index \in 0 .. SplitPacketCount(m, rung) - 1
         /\ \A i \in 0 .. SplitPacketCount(m, rung) - 1 :
              \E p \in Elements(SplitPacket(m, id, rung)) : p.index = i
         /\ \A p, q \in Elements(SplitPacket(m, id, rung)) : p.index = q.index => p = q
  <1> DEFINE n == SplitPacketCount(m, rung)
             b == Ladder[rung]
             s == Size[m]
             last == s - (n - 1) * b
             P(i) == [message |-> m, id |-> id, index |-> i - 1, count |-> n,
                      size |-> IF i < n THEN b ELSE last]
  <1>1. s \in Nat \ {0} /\ b \in Nat \ {0} BY ConstantTypes
  <1>2. n = (s - 1) \div b + 1 BY DEF SplitPacketCount
  <1>3. n \in Nat \ {0} /\ last \in Nat
    <2>1. (s - 1) \div b \in Nat /\ s - (((s - 1) \div b + 1) - 1) * b \in Nat BY <1>1, LastFragment
    <2> QED BY <1>2, <2>1
  <1>4. SplitPacket(m, id, rung) = [i \in 1 .. n |-> P(i)] BY DEF SplitPacket
  <1> HIDE DEF n, b, s, last
  <1>5. ASSUME NEW i \in 1 .. n
        PROVE  P(i) \in Packets /\ P(i).index = i - 1 /\ i - 1 \in 0 .. n - 1
    BY <1>1, <1>3 DEF Packets
  <1>6. [i \in 1 .. n |-> P(i)] \in Seq(Packets) /\ DOMAIN [i \in 1 .. n |-> P(i)] = 1 .. n
    BY <1>3, <1>5
  <1>7. Elements(SplitPacket(m, id, rung)) = {P(i) : i \in 1 .. n} BY <1>4, <1>6 DEF Elements
  <1>8. \A p \in Elements(SplitPacket(m, id, rung)) :
              /\ p \in Packets /\ p.message = m /\ p.id = id /\ p.count = n /\ p.index \in 0 .. n - 1
    BY <1>5, <1>7
  <1>9. \A i \in 0 .. n - 1 : \E p \in Elements(SplitPacket(m, id, rung)) : p.index = i
    <2> TAKE i \in 0 .. n - 1
    <2>1. i + 1 \in 1 .. n /\ (i + 1) - 1 = i BY <1>3
    <2>2. P(i + 1).index = i BY <1>5, <2>1
    <2> QED BY <1>7, <2>1, <2>2
  <1>10. \A p, q \in Elements(SplitPacket(m, id, rung)) : p.index = q.index => p = q
    <2> SUFFICES ASSUME NEW i \in 1 .. n, NEW j \in 1 .. n, P(i).index = P(j).index PROVE P(i) = P(j)
      BY <1>7
    <2>1. i = j BY <1>3, <1>5
    <2> QED BY <2>1
  <1> QED BY <1>3, <1>4, <1>6, <1>8, <1>9, <1>10 DEF n

(* An unsplit message is one packet with count 0.                          *)
LEMMA WholePart ==
  ASSUME NEW m \in Messages
  PROVE  /\ Whole(m) \in Seq(Packets)
         /\ \A p \in Elements(Whole(m)) : p.message = m /\ p.count = 0
         /\ Elements(Whole(m)) # {}
  <1> DEFINE p == [message |-> m, id |-> 0, index |-> 0, count |-> 0, size |-> Size[m]]
  <1>1. p \in Packets BY ConstantTypes DEF Packets
  <1>2. p.message = m /\ p.count = 0 OBVIOUS
  <1>3. Whole(m) = <<p>> BY DEF Whole
  <1> HIDE DEF p
  <1>4. <<p>> \in Seq(Packets) /\ DOMAIN <<p>> = {1} /\ <<p>>[1] = p BY <1>1
  <1>5. Elements(Whole(m)) = {p} BY <1>3, <1>4 DEF Elements
  <1> QED BY <1>2, <1>3, <1>4, <1>5

(* The packets the sender has queued.                                      *)
LEMMA QueuedElements ==
  ASSUME TypeOK
  PROVE  /\ Queued \in Seq(Packets)
         /\ Elements(Queued) = {r.packet : r \in Elements(resendList)} \cup Elements(outgoing)
  <1> DEFINE s == [i \in 1 .. Len(resendList) |-> resendList[i].packet]
  <1>1. resendList \in Seq(Resends) /\ outgoing \in Seq(Packets) BY DEF TypeOK, Resends
  <1>2. Len(resendList) \in Nat /\ DOMAIN resendList = 1 .. Len(resendList)
        /\ \A i \in 1 .. Len(resendList) : resendList[i] \in Resends
    BY <1>1
  <1>3. s \in Seq(Packets) /\ DOMAIN s = 1 .. Len(resendList) BY <1>2 DEF Resends
  <1>4. \A i \in 1 .. Len(resendList) : s[i] = resendList[i].packet OBVIOUS
  <1>5. Queued = s \o outgoing BY DEF Queued
  <1> HIDE DEF s
  <1>6. Elements(s) = {r.packet : r \in Elements(resendList)} BY <1>2, <1>3, <1>4 DEF Elements
  <1> QED BY <1>1, <1>3, <1>5, <1>6, ConcatElements

-----------------------------------------------------------------------------
(* The step-down.                                                          *)

(* SameMessage is an equivalence.                                          *)
LEMMA SameMessageTransitive ==
  ASSUME NEW p, NEW q, NEW u, SameMessage(p, q), SameMessage(q, u)
  PROVE  SameMessage(p, u)
  BY DEF SameMessage

(* Below the last rung there is another.                                   *)
LEMMA RungBelow ==
  ASSUME TypeOK, mtu < Len(Ladder) PROVE mtu + 1 \in DOMAIN Ladder
  BY ConstantTypes DEF TypeOK

(* Each message with an oversized packet is rebuilt.                       *)
LEMMA RebuiltMessages ==
  ASSUME TypeOK, NEW rung \in DOMAIN Ladder
  PROVE  /\ Rebuilt(rung) \in Seq(Messages)
         /\ \A q \in Elements(Queued) : Stale(q, rung) =>
              \E p \in Elements(Queued) : \E i \in DOMAIN Rebuilt(rung) :
                SameMessage(p, q) /\ Rebuilt(rung)[i] = p.message
  <1> DEFINE S == FirstOversized(rung)
             marked == Only(Queued, S)
  <1>1. Queued \in Seq(Packets) BY QueuedElements
  <1>2. S \in SUBSET (DOMAIN Queued) BY DEF FirstOversized
  <1>3. marked \in Seq(Packets) /\ Elements(marked) = {Queued[i] : i \in S}
    <2> HIDE DEF S
    <2> QED BY <1>1, <1>2, OnlyElements
  <1>4. Rebuilt(rung) = [i \in DOMAIN marked |-> marked[i].message] BY DEF Rebuilt
  <1> HIDE DEF marked
  <1>5. Len(marked) \in Nat /\ DOMAIN marked = 1 .. Len(marked)
        /\ \A i \in DOMAIN marked : marked[i] \in Packets
    BY <1>3
  <1>6. Rebuilt(rung) \in Seq(Messages) BY <1>4, <1>5 DEF Packets
  <1>7. ASSUME NEW q \in Elements(Queued), Stale(q, rung)
        PROVE  \E p \in Elements(Queued) : \E i \in DOMAIN Rebuilt(rung) :
                 SameMessage(p, q) /\ Rebuilt(rung)[i] = p.message
    <2> DEFINE C == {i \in DOMAIN Queued : Oversized(Queued[i], rung) /\ SameMessage(Queued[i], q)}
    <2>1. C # {} BY <1>7, Zenon DEF Stale, Elements
    <2>2. DOMAIN Queued \in SUBSET Nat BY <1>1
    <2>3. C \in SUBSET Nat BY <2>2
    <2>4. PICK k \in C : \A j \in C : k <= j
      <3> HIDE DEF C
      <3> QED BY <2>1, <2>3, LeastNumber
    <2>5. ASSUME NEW j \in 1 .. k - 1, Oversized(Queued[j], rung), SameMessage(Queued[j], Queued[k])
          PROVE  FALSE
      <3>1. j \in DOMAIN Queued /\ ~(k <= j) BY <1>1, <2>2
      <3>2. SameMessage(Queued[j], q) BY <2>4, <2>5, SameMessageTransitive
      <3>3. j \in C BY <2>5, <3>1, <3>2
      <3> QED BY <2>4, <3>1, <3>3
    <2>6. k \in S BY <2>4, <2>5 DEF FirstOversized
    <2>7. PICK i \in DOMAIN marked : marked[i] = Queued[k]
      <3>1. Queued[k] \in Elements(marked) BY <1>3, <2>6
      <3> QED BY <3>1 DEF Elements
    <2>8. Rebuilt(rung)[i] = Queued[k].message /\ i \in DOMAIN Rebuilt(rung) BY <1>4, <2>7
    <2>9. Queued[k] \in Elements(Queued) /\ SameMessage(Queued[k], q) BY <2>4 DEF Elements
    <2> QED BY <2>8, <2>9
  <1> QED BY <1>6, <1>7

(* The fragments the step-down adds to outgoingPacketBuffer.               *)
ReSplit(rung) ==
  UNION {Elements(SplitPacket(Rebuilt(rung)[i], FreshId(i), rung)) : i \in DOMAIN Rebuilt(rung)}

(* The queues after a step-down, as sets: what is not stale stays, the     *)
(* rebuilt messages are added under fresh ids.                             *)
LEMMA StepDownEffect ==
  ASSUME TypeOK, mtu < Len(Ladder), StepDownMtuAfterBlackHole
  PROVE  /\ mtu' = mtu + 1 /\ mtu' \in DOMAIN Ladder
         /\ resendList' \in Seq(Resends)
         /\ Elements(resendList') = {r \in Elements(resendList) : ~Stale(r.packet, mtu + 1)}
         /\ due' \subseteq due
         /\ outgoing' \in Seq(Packets)
         /\ Elements(outgoing') = {p \in Elements(outgoing) : ~Stale(p, mtu + 1)} \cup ReSplit(mtu + 1)
         /\ splitPacketId' = splitPacketId + Len(Rebuilt(mtu + 1))
         /\ splitPacketId' \in Nat
  <1> DEFINE rung == mtu + 1
             rebuilt == Rebuilt(rung)
             A == {i \in DOMAIN resendList : ~Stale(resendList[i].packet, rung)}
             B == {i \in DOMAIN outgoing : ~Stale(outgoing[i], rung)}
             ss == [i \in DOMAIN rebuilt |-> SplitPacket(rebuilt[i], FreshId(i), rung)]
  <1>0. resendList \in Seq(Resends) /\ outgoing \in Seq(Packets) /\ splitPacketId \in Nat
    BY DEF TypeOK, Resends
  <1>1. rung \in DOMAIN Ladder BY RungBelow
  <1>2. rebuilt \in Seq(Messages)
    <2> HIDE DEF rung
    <2> QED BY <1>1, RebuiltMessages
  <1>3. mtu' = rung /\ resendList' = Only(resendList, A) /\ due' \subseteq due
        /\ outgoing' = Only(outgoing, B) \o FlattenSeq(ss)
        /\ splitPacketId' = splitPacketId + Len(rebuilt)
    BY DEF StepDownMtuAfterBlackHole
  <1>4. A \in SUBSET (DOMAIN resendList) /\ B \in SUBSET (DOMAIN outgoing) OBVIOUS
  <1>5. {resendList[i] : i \in A} = {r \in Elements(resendList) : ~Stale(r.packet, rung)}
    <2> HIDE DEF rung
    <2> QED BY Zenon DEF Elements
  <1>6. {outgoing[i] : i \in B} = {p \in Elements(outgoing) : ~Stale(p, rung)}
    <2> HIDE DEF rung
    <2> QED BY Zenon DEF Elements
  <1>7. resendList' \in Seq(Resends)
        /\ Elements(resendList') = {r \in Elements(resendList) : ~Stale(r.packet, rung)}
    <2> HIDE DEF A, rung
    <2> QED BY <1>0, <1>3, <1>4, <1>5, OnlyElements
  <1>8. Only(outgoing, B) \in Seq(Packets)
        /\ Elements(Only(outgoing, B)) = {p \in Elements(outgoing) : ~Stale(p, rung)}
    <2> HIDE DEF B, rung
    <2> QED BY <1>0, <1>4, <1>6, OnlyElements
  <1>9. Len(rebuilt) \in Nat /\ DOMAIN rebuilt = 1 .. Len(rebuilt)
        /\ \A i \in DOMAIN rebuilt : rebuilt[i] \in Messages
    <2> HIDE DEF rebuilt
    <2> QED BY <1>2
  <1>10. \A i \in DOMAIN rebuilt : FreshId(i) \in Nat
    <2> HIDE DEF rebuilt
    <2> QED BY <1>0, <1>9 DEF FreshId
  <1>11. \A i \in DOMAIN rebuilt : SplitPacket(rebuilt[i], FreshId(i), rung) \in Seq(Packets)
    <2> HIDE DEF rebuilt, rung
    <2> QED BY <1>1, <1>9, <1>10, SplitParts
  <1>12. ss \in Seq(Seq(Packets)) /\ DOMAIN ss = DOMAIN rebuilt
    <2> HIDE DEF rebuilt, rung
    <2> QED BY <1>9, <1>11
  <1>13. UNION {Elements(ss[i]) : i \in DOMAIN ss} = ReSplit(rung)
    <2>1. \A i \in DOMAIN ss : ss[i] = SplitPacket(Rebuilt(rung)[i], FreshId(i), rung) OBVIOUS
    <2>2. DOMAIN ss = DOMAIN Rebuilt(rung) OBVIOUS
    <2> HIDE DEF ss, rung, rebuilt
    <2>3. {Elements(ss[i]) : i \in DOMAIN ss}
            = {Elements(SplitPacket(Rebuilt(rung)[i], FreshId(i), rung)) : i \in DOMAIN Rebuilt(rung)}
      BY <2>1, <2>2
    <2> QED BY <2>3 DEF ReSplit
  <1>14. FlattenSeq(ss) \in Seq(Packets) /\ Elements(FlattenSeq(ss)) = ReSplit(rung)
    <2> HIDE DEF ss, rung
    <2> QED BY <1>12, <1>13, FlattenElements
  <1>15. outgoing' \in Seq(Packets)
         /\ Elements(outgoing') = {p \in Elements(outgoing) : ~Stale(p, rung)} \cup ReSplit(rung)
    <2> DEFINE s == Only(outgoing, B)
               t == FlattenSeq(ss)
    <2>1. s \in Seq(Packets) /\ t \in Seq(Packets) /\ outgoing' = s \o t BY <1>3, <1>8, <1>14
    <2>2. Elements(s) = {p \in Elements(outgoing) : ~Stale(p, rung)} /\ Elements(t) = ReSplit(rung)
      BY <1>8, <1>14
    <2> HIDE DEF s, t, rung
    <2> QED BY <2>1, <2>2, ConcatElements
  <1>16. splitPacketId' \in Nat
    <2> HIDE DEF rebuilt
    <2> QED BY <1>0, <1>3, <1>9
  <1> QED BY <1>1, <1>3, <1>7, <1>15, <1>16

-----------------------------------------------------------------------------
(* The inductive invariant.                                                *)

(* The packets that are queued, under way or held by the receiver.         *)
Held == UNION {c.fragments : c \in channels}
InPlay == Elements(Queued) \cup {x.packet : x \in net} \cup Held

(* A message number the receiver will not accept again.                    *)
Received(n) == n < base \/ n \in got

(* The fragments of one id come from one splitting of one message, and no  *)
(* id at or above splitPacketId is in use.                                 *)
SplitInv ==
  /\ splitPacketId >= StartId
  /\ \A p \in InPlay : p.count > 0 => p.id >= StartId /\ p.id < splitPacketId
  /\ \A p \in InPlay : p.count > 0 =>
       \E rung \in DOMAIN Ladder : \A q \in InPlay :
         q.count > 0 /\ q.id = p.id => q \in Elements(SplitPacket(p.message, p.id, rung))

(* A channel holds fragments of its own id and count, and lacks one.       *)
ChannelInv ==
  /\ \A c \in channels :
       /\ c.fragments # {}
       /\ \A q \in c.fragments : q.count > 0 /\ q.count = c.count /\ WireId(q.id) = c.id
       /\ \E i \in 0 .. c.count - 1 : \A q \in c.fragments : q.index # i
  /\ \A c, d \in channels : c.id = d.id => c = d

(* A message number belongs to one packet.                                 *)
Numbered == {<<r.number, r.packet>> : r \in Elements(resendList)}
            \cup {<<x.number, x.packet>> : x \in net}
NumberInv ==
  /\ \A a \in Numbered : a[1] < sendIndex
  /\ \A a, b \in Numbered : a[1] = b[1] => a[2] = b[2]
  /\ base <= sendIndex /\ \A n \in got : n < sendIndex

(* What is acknowledged was received, and what was received and is still   *)
(* in the resend list is held by the receiver or delivered.                *)
AckInv ==
  /\ \A n \in acks : Received(n)
  /\ \A r \in Elements(resendList) : Received(r.number) =>
       \/ delivered[r.packet.message] > 0
       \/ r.packet.count > 0 /\ r.packet \in Held

(* Every part of p's splitting is queued or held, and NothingMissing said  *)
(* with it: unlike there, a part also has p's count.                       *)
PartsKept(p) ==
  \A i \in 0 .. p.count - 1 : \E q \in Elements(Queued) \cup Held :
    q.message = p.message /\ q.id = p.id /\ q.count = p.count /\ q.index = i
CompleteInv ==
  \A m \in sent : delivered[m] = 0 =>
    \E p \in Elements(Queued) : p.message = m /\ PartsKept(p)

(* No two splittings in play share an id on the wire.                      *)
IdsApart ==
  \A p, q \in InPlay :
    p.count > 0 /\ q.count > 0 /\ WireId(p.id) = WireId(q.id) => p.id = q.id

(* At most IdSpan splittings in the whole stretch, so that no id is        *)
(* used twice.                                                             *)
FewSplits == splitPacketId <= StartId + IdSpan

(* No number is refused for lying too far ahead of base: the numbers of    *)
(* packets a step-down removed never arrive and hold base back.            *)
HolesFew == sendIndex - base <= HoleLimit + 1
-----------------------------------------------------------------------------
(* Types and message numbers.                                              *)

Channels == [id : 0 .. IdSpan - 1, count : Nat, fragments : SUBSET Packets]

(* An id on the wire fits SplitPacketIdType.                               *)
LEMMA WireIdRange == ASSUME NEW id \in Nat PROVE WireId(id) \in 0 .. IdSpan - 1
  <1>1. id \in Int /\ IdSpan \in Nat \ {0} BY ConstantTypes
  <1> QED BY <1>1, ModRange, Zenon DEF WireId

(* A bounded set of numbers has a greatest one.                            *)
LEMMA GreatestBelow ==
  ASSUME NEW S \in SUBSET Nat, S # {}, NEW b \in Nat, \A n \in S : n < b
  PROVE  \E n \in S : \A k \in S : k <= n
  <1> DEFINE T == {d \in Nat : \E n \in S : d = b - n}
  <1>1. PICK n \in S : TRUE OBVIOUS
  <1>2. b - n \in T BY <1>1
  <1>3. PICK d \in T : \A e \in T : d <= e
    <2>1. T \in SUBSET Nat /\ T # {} BY <1>2
    <2> HIDE DEF T
    <2> QED BY <2>1, LeastNumber
  <1>4. PICK g \in S : d = b - g OBVIOUS
  <1>5. ASSUME NEW k \in S PROVE k <= g
    <2>1. b - k \in T OBVIOUS
    <2>2. d <= b - k BY <1>3, <2>1
    <2> QED BY <1>4, <2>2
  <1> QED BY <1>5

(* hasReceivedPacketQueue has a length.                                    *)
LEMMA QueueSizeType ==
  ASSUME TypeOK, NumberInv PROVE QueueSize \in Int
  <1>1. base \in Nat /\ got \in SUBSET Nat /\ sendIndex \in Nat /\ \A n \in got : n < sendIndex
    BY DEF TypeOK, NumberInv
  <1>2. CASE got = {} BY <1>2 DEF QueueSize
  <1>3. CASE got # {}
    <2> DEFINE g == CHOOSE n \in got : \A k \in got : k <= n
    <2>1. \E n \in got : \A k \in got : k <= n BY <1>1, <1>3, GreatestBelow
    <2>2. g \in got BY <2>1
    <2>3. QueueSize = g - base + 1 BY <1>3 DEF QueueSize
    <2> HIDE DEF g
    <2> QED BY <1>1, <2>2, <2>3
  <1> QED BY <1>2, <1>3

(* Marking a number adds it, and no other, to what was received.           *)
LEMMA MarkEffect ==
  ASSUME TypeOK, NumberInv, NEW n \in Nat, n < sendIndex, n >= base, MarkReceived(n)
  PROVE  /\ base' \in Nat /\ got' \in SUBSET Nat
         /\ base' <= sendIndex /\ \A i \in got' : i < sendIndex
         /\ \A i \in Nat : Received(i)' <=> Received(i) \/ i = n
  <1>1. base \in Nat /\ got \in SUBSET Nat /\ sendIndex \in Nat
        /\ base <= sendIndex /\ \A i \in got : i < sendIndex
    BY DEF TypeOK, NumberInv
  <1>2. QueueSize \in Int BY QueueSizeType
  <1>3. PICK k \in base .. base + QueueSize + 1 :
          /\ \A i \in base .. k - 1 : i \in got \cup {n}
          /\ k \notin got \cup {n}
          /\ base' = k
          /\ got' = {i \in got \cup {n} : i > k}
    BY DEF MarkReceived
  <1>4. k \in Nat /\ base <= k BY <1>1, <1>2
  <1>5. k <= sendIndex
    <2>1. CASE k = base BY <1>1, <2>1
    <2>2. CASE k # base
      <3>1. k - 1 \in base .. k - 1 /\ k - 1 \in Nat BY <1>1, <1>4, <2>2
      <3>2. k - 1 \in got \cup {n} BY <1>3, <3>1
      <3>3. k - 1 < sendIndex BY <1>1, <3>2
      <3> QED BY <1>1, <1>4, <3>3
    <2> QED BY <2>1, <2>2
  <1>6. ASSUME NEW i \in Nat PROVE Received(i)' <=> Received(i) \/ i = n
    <2>1. Received(i)' <=> i < k \/ (i \in got \cup {n} /\ i > k) BY <1>3 DEF Received
    <2>2. i < k => i < base \/ i \in base .. k - 1 BY <1>1, <1>4
    <2>3. i < k => i < base \/ i \in got \/ i = n BY <1>3, <2>2
    <2>4. i < base => i < k BY <1>1, <1>4
    <2>5. i \in got \cup {n} => i < k \/ i > k BY <1>3, <1>4
    <2> QED BY <2>1, <2>3, <2>4, <2>5 DEF Received
  <1> QED BY <1>1, <1>3, <1>4, <1>5, <1>6

(* The channel a fragment goes to, before and after, and what becomes of   *)
(* it: the fragment is dropped, the channel stays incomplete, or it is     *)
(* complete and put together.                                              *)
Inserted(p, old, new) ==
  /\ \/ /\ old \in channels /\ old.id = WireId(p.id)
     \/ /\ \A c \in channels : c.id # WireId(p.id)
        /\ old = [id |-> WireId(p.id), count |-> p.count, fragments |-> {}]
  /\ new = [old EXCEPT !.fragments = @ \cup {p}]
  /\ \/ /\ ~Fits(old, p)
        /\ UNCHANGED <<channels, delivered, garbled>>
     \/ /\ Fits(old, p)
        /\ \E i \in 0 .. new.count - 1 : \A q \in new.fragments : q.index # i
        /\ channels' = {c \in channels : c.id # WireId(p.id)} \cup {new}
        /\ UNCHANGED <<delivered, garbled>>
     \/ /\ Fits(old, p)
        /\ \A i \in 0 .. new.count - 1 : \E q \in new.fragments : q.index = i
        /\ channels' = {c \in channels : c.id # WireId(p.id)}
        /\ \/ delivered' = [delivered EXCEPT ![p.message] = @ + 1] /\ UNCHANGED garbled
           \/ /\ garbled' = TRUE /\ UNCHANGED delivered
              /\ \A rung \in DOMAIN Ladder :
                   new.fragments # Elements(SplitPacket(p.message, p.id, rung))

(* Insert is one of the three.                                             *)
LEMMA InsertEffect ==
  ASSUME channels \subseteq Channels, NEW p \in Packets, Insert(p)
  PROVE  \E old \in Channels, new \in Channels : Inserted(p, old, new)
  <1> DEFINE open == {c \in channels : c.id = WireId(p.id)}
             fresh == [id |-> WireId(p.id), count |-> p.count, fragments |-> {}]
             old == IF open = {} THEN fresh ELSE CHOOSE c \in open : TRUE
             new == [old EXCEPT !.fragments = @ \cup {p}]
             whole == \E rung \in DOMAIN Ladder :
                        new.fragments = Elements(SplitPacket(p.message, p.id, rung))
             complete == \A i \in 0 .. new.count - 1 : \E q \in new.fragments : q.index = i
  <1>1. fresh \in Channels
    <2>1. p.id \in Nat /\ p.count \in Nat BY DEF Packets
    <2> QED BY <2>1, WireIdRange DEF Channels
  <1>2. (open = {} /\ old = fresh) \/ (old \in channels /\ old.id = WireId(p.id))
    <2> HIDE DEF fresh
    <2>1. open # {} => (CHOOSE c \in open : TRUE) \in open BY Zenon
    <2> QED BY <2>1
  <1>3. old \in Channels BY <1>1, <1>2
  <1>4. IF ~Fits(old, p) THEN UNCHANGED <<channels, delivered, garbled>>
        ELSE IF ~complete
        THEN channels' = (channels \ open) \cup {new} /\ UNCHANGED <<delivered, garbled>>
        ELSE /\ channels' = channels \ open
             /\ IF whole THEN Deliver(p.message) /\ UNCHANGED garbled
                ELSE garbled' = TRUE /\ UNCHANGED delivered
    BY DEF Insert
  <1>5. channels \ open = {c \in channels : c.id # WireId(p.id)} OBVIOUS
  <1>6. open = {} => \A c \in channels : c.id # WireId(p.id) OBVIOUS
  <1> HIDE DEF old, open
  <1>7. new \in Channels BY <1>3 DEF Channels
  <1>8. new = [old EXCEPT !.fragments = @ \cup {p}] OBVIOUS
  <1> HIDE DEF new
  <1>9. \/ /\ old \in channels /\ old.id = WireId(p.id)
        \/ /\ \A c \in channels : c.id # WireId(p.id)
           /\ old = [id |-> WireId(p.id), count |-> p.count, fragments |-> {}]
    BY <1>2, <1>6
  <1>10. \/ /\ ~Fits(old, p)
            /\ UNCHANGED <<channels, delivered, garbled>>
         \/ /\ Fits(old, p)
            /\ \E i \in 0 .. new.count - 1 : \A q \in new.fragments : q.index # i
            /\ channels' = {c \in channels : c.id # WireId(p.id)} \cup {new}
            /\ UNCHANGED <<delivered, garbled>>
         \/ /\ Fits(old, p)
            /\ \A i \in 0 .. new.count - 1 : \E q \in new.fragments : q.index = i
            /\ channels' = {c \in channels : c.id # WireId(p.id)}
            /\ \/ delivered' = [delivered EXCEPT ![p.message] = @ + 1] /\ UNCHANGED garbled
               \/ /\ garbled' = TRUE /\ UNCHANGED delivered
                  /\ \A rung \in DOMAIN Ladder :
                       new.fragments # Elements(SplitPacket(p.message, p.id, rung))
    <2>1. CASE ~Fits(old, p) BY <1>4, <2>1
    <2>2. CASE Fits(old, p) /\ ~complete BY <1>4, <1>5, <2>2
    <2>3. CASE Fits(old, p) /\ complete /\ whole BY <1>4, <1>5, <2>3 DEF Deliver
    <2>4. CASE Fits(old, p) /\ complete /\ ~whole BY <1>4, <1>5, <2>4
    <2> QED BY <2>1, <2>2, <2>3, <2>4
  <1>11. Inserted(p, old, new) BY <1>8, <1>9, <1>10, Zenon DEF Inserted
  <1> QED BY <1>3, <1>7, <1>11, Zenon

(* TypeOK with the names the proofs use.                                   *)
LEMMA Types ==
  ASSUME TypeOK
  PROVE  /\ resendList \in Seq(Resends) /\ outgoing \in Seq(Packets)
         /\ sendIndex \in Nat /\ splitPacketId \in Nat /\ mtu \in DOMAIN Ladder
         /\ base \in Nat /\ got \in SUBSET Nat /\ channels \subseteq Channels
         /\ net \subseteq Datagrams /\ acks \subseteq Nat /\ delivered \in [Messages -> Nat]
         /\ \A r \in Elements(resendList) : r \in Resends /\ r.number \in Nat /\ r.packet \in Packets
         /\ \A p \in Elements(outgoing) : p \in Packets
         /\ \A x \in net : x.number \in Nat /\ x.packet \in Packets
  <1>1. resendList \in Seq(Resends) /\ outgoing \in Seq(Packets) BY DEF TypeOK, Resends
  <1>2. \A i \in DOMAIN resendList : resendList[i] \in Resends BY <1>1
  <1>3. \A i \in DOMAIN outgoing : outgoing[i] \in Packets BY <1>1
  <1>4. \A r \in Elements(resendList) : r \in Resends BY <1>2, Zenon DEF Elements
  <1>5. \A p \in Elements(outgoing) : p \in Packets BY <1>3, Zenon DEF Elements
  <1>6. \A r \in Resends : r.number \in Nat /\ r.packet \in Packets BY DEF Resends
  <1>7. net \subseteq Datagrams /\ channels \subseteq Channels BY DEF TypeOK, Datagrams, Channels
  <1>8. \A x \in net : x.number \in Nat /\ x.packet \in Packets BY <1>7 DEF Datagrams
  <1> QED BY <1>1, <1>4, <1>5, <1>6, <1>7, <1>8 DEF TypeOK

(* The head of the resend list goes to its end.                            *)
LEMMA ResendEffect ==
  ASSUME TypeOK, Resend
  PROVE  LET r == Head(resendList)
         IN /\ r \in Elements(resendList) /\ r \in Resends
            /\ resendList' \in Seq(Resends)
            /\ \E s \in Resends :
                 /\ s.number = r.number /\ s.packet = r.packet
                 /\ Elements(resendList') \subseteq Elements(resendList) \cup {s}
                 /\ Elements(resendList) \subseteq Elements(resendList') \cup {r}
                 /\ s \in Elements(resendList')
            /\ net' \subseteq net \cup {[number |-> r.number, packet |-> r.packet]}
            /\ net \subseteq net'
  <1> DEFINE r == Head(resendList)
             times == IF r.timesSent < Threshold THEN r.timesSent + 1 ELSE Threshold
             s == [r EXCEPT !.timesSent = times]
  <1>1. resendList \in Seq(Resends) /\ resendList # <<>> BY Types DEF Resend, HeadIsDue
  <1>2. r \in Resends /\ Tail(resendList) \in Seq(Resends) /\ r \in Elements(resendList)
        /\ Elements(resendList) = {r} \cup Elements(Tail(resendList))
    BY <1>1, TailElements
  <1>3. resendList' = Append(Tail(resendList), s) /\ Emit(r.number, r.packet) BY DEF Resend
  <1> HIDE DEF r
  <1>4. times \in 1 .. Threshold BY <1>2, ConstantTypes DEF Resends
  <1> HIDE DEF times
  <1>5. s \in Resends /\ s.number = r.number /\ s.packet = r.packet BY <1>2, <1>4 DEF Resends
  <1> HIDE DEF s
  <1>6. resendList' \in Seq(Resends) /\ Elements(resendList') = Elements(Tail(resendList)) \cup {s}
    <2> DEFINE t == Tail(resendList)
    <2>1. t \in Seq(Resends) /\ resendList' = Append(t, s) BY <1>2, <1>3
    <2> HIDE DEF t
    <2>2. resendList' \in Seq(Resends) /\ Elements(resendList') = Elements(t) \cup {s}
      BY <1>5, <2>1, AppendElements
    <2> QED BY <2>2 DEF t
  <1>7. net' \subseteq net \cup {[number |-> r.number, packet |-> r.packet]} /\ net \subseteq net'
    BY <1>3 DEF Emit
  <1> QED BY <1>2, <1>5, <1>6, <1>7 DEF r

(* The head of outgoingPacketBuffer gets the next message number.          *)
LEMMA TransmitEffect ==
  ASSUME TypeOK, Transmit
  PROVE  \E p \in Packets, r \in Resends :
           /\ r.number = sendIndex /\ r.packet = p
           /\ outgoing' \in Seq(Packets) /\ Elements(outgoing) = {p} \cup Elements(outgoing')
           /\ resendList' \in Seq(Resends) /\ Elements(resendList') = Elements(resendList) \cup {r}
           /\ net' \subseteq net \cup {[number |-> sendIndex, packet |-> p]} /\ net \subseteq net'
           /\ sendIndex' = sendIndex + 1
  <1> DEFINE p == Head(outgoing)
             r == [number |-> sendIndex, packet |-> p, timesSent |-> 1]
  <1>1. outgoing \in Seq(Packets) /\ outgoing # <<>> /\ resendList \in Seq(Resends) /\ sendIndex \in Nat
    BY Types DEF Transmit
  <1>2. p \in Packets /\ Tail(outgoing) \in Seq(Packets)
        /\ Elements(outgoing) = {p} \cup Elements(Tail(outgoing))
    BY <1>1, TailElements
  <1>3. resendList' = Append(resendList, r) /\ Emit(sendIndex, p) /\ outgoing' = Tail(outgoing)
        /\ sendIndex' = sendIndex + 1
    BY DEF Transmit
  <1> HIDE DEF p
  <1>4. r \in Resends /\ r.number = sendIndex /\ r.packet = p BY <1>1, <1>2, ConstantTypes DEF Resends
  <1> HIDE DEF r
  <1>5. resendList' \in Seq(Resends) /\ Elements(resendList') = Elements(resendList) \cup {r}
    BY <1>1, <1>3, <1>4, AppendElements
  <1>6. net' \subseteq net \cup {[number |-> sendIndex, packet |-> p]} /\ net \subseteq net'
    BY <1>3 DEF Emit
  <1> QED BY <1>2, <1>3, <1>4, <1>5, <1>6

(* An acknowledgement takes its number out of the resend list.             *)
LEMMA AckEffect ==
  ASSUME TypeOK, NEW n, ReceiveAck(n)
  PROVE  /\ resendList' \in Seq(Resends)
         /\ Elements(resendList') = {r \in Elements(resendList) : r.number # n}
  <1> DEFINE S == {i \in DOMAIN resendList : resendList[i].number # n}
  <1>1. resendList \in Seq(Resends) BY Types
  <1>2. resendList' = Only(resendList, S) BY DEF ReceiveAck
  <1>3. S \in SUBSET (DOMAIN resendList) OBVIOUS
  <1>4. {resendList[i] : i \in S} = {r \in Elements(resendList) : r.number # n} BY Zenon DEF Elements
  <1> HIDE DEF S
  <1> QED BY <1>1, <1>2, <1>3, <1>4, OnlyElements

(* A new message joins outgoingPacketBuffer, whole or split.               *)
LEMMA SendEffect ==
  ASSUME TypeOK, NEW m \in Messages, Send(m)
  PROVE  \E new \in Seq(Packets) :
           /\ outgoing' \in Seq(Packets) /\ Elements(outgoing') = Elements(outgoing) \cup Elements(new)
           /\ \/ new = SplitPacket(m, splitPacketId, mtu) /\ splitPacketId' = splitPacketId + 1
              \/ new = Whole(m) /\ splitPacketId' = splitPacketId
  <1> DEFINE split == Size[m] > Ladder[mtu]
             new == IF split THEN SplitPacket(m, splitPacketId, mtu) ELSE Whole(m)
  <1>1. outgoing \in Seq(Packets) /\ splitPacketId \in Nat /\ mtu \in DOMAIN Ladder BY Types
  <1>2. outgoing' = outgoing \o new
        /\ splitPacketId' = IF split THEN splitPacketId + 1 ELSE splitPacketId
    BY DEF Send
  <1>3. SplitPacket(m, splitPacketId, mtu) \in Seq(Packets) BY <1>1, SplitParts
  <1>4. Whole(m) \in Seq(Packets) BY WholePart
  <1>5. \/ new = SplitPacket(m, splitPacketId, mtu) /\ splitPacketId' = splitPacketId + 1
        \/ new = Whole(m) /\ splitPacketId' = splitPacketId
    BY <1>2
  <1>6. new \in Seq(Packets) BY <1>3, <1>4, <1>5
  <1> HIDE DEF new
  <1>7. outgoing' \in Seq(Packets) /\ Elements(outgoing') = Elements(outgoing) \cup Elements(new)
    BY <1>1, <1>2, <1>6, ConcatElements
  <1> QED BY <1>5, <1>6, <1>7

(* What ReceivePacket does to the receiver, when it accepts the number.    *)
LEMMA AcceptEffect ==
  ASSUME TypeOK, NumberInv, NEW x \in net, ReceivePacket(x)
  PROVE  \/ /\ ~Accepted(x.number) /\ UNCHANGED receiverVars
         \/ /\ base' \in Nat /\ got' \in SUBSET Nat
            /\ base' <= sendIndex /\ \A i \in got' : i < sendIndex
            /\ \A i \in Nat : Received(i)' <=> Received(i) \/ i = x.number
            /\ \/ /\ x.packet.count = 0
                  /\ delivered' = [delivered EXCEPT ![x.packet.message] = @ + 1]
                  /\ UNCHANGED <<channels, garbled>>
               \/ x.packet.count > 0 /\ Insert(x.packet)
  <1>1. x.number \in Nat /\ x.packet \in Packets BY Types
  <1>2. x.number < sendIndex
    <2>1. <<x.number, x.packet>> \in Numbered BY DEF Numbered
    <2>2. <<x.number, x.packet>>[1] < sendIndex BY <2>1 DEF NumberInv
    <2> QED BY <2>2
  <1>3. CASE ~Accepted(x.number) BY <1>3 DEF ReceivePacket
  <1>4. CASE Accepted(x.number)
    <2>1. MarkReceived(x.number) /\ x.number >= base BY <1>4 DEF ReceivePacket, Accepted
    <2>2. base' \in Nat /\ got' \in SUBSET Nat
          /\ base' <= sendIndex /\ (\A i \in got' : i < sendIndex)
          /\ \A i \in Nat : Received(i)' <=> Received(i) \/ i = x.number
      BY <1>1, <1>2, <2>1, MarkEffect
    <2>3. x.packet.count \in Nat BY <1>1 DEF Packets
    <2>4. CASE x.packet.count = 0 BY <1>4, <2>2, <2>4 DEF ReceivePacket, Deliver
    <2>5. CASE x.packet.count # 0
      <3>1. x.packet.count > 0 BY <2>3, <2>5
      <3>2. Insert(x.packet) BY <1>4, <2>5 DEF ReceivePacket
      <3> QED BY <2>2, <3>1, <3>2
    <2> QED BY <2>4, <2>5
  <1> QED BY <1>3, <1>4

(* Reassembly keeps the types.                                             *)
LEMMA InsertTypes ==
  ASSUME TypeOK, NEW p \in Packets, Insert(p)
  PROVE  channels' \subseteq Channels /\ delivered' \in [Messages -> Nat] /\ garbled' \in BOOLEAN
  <1>1. channels \subseteq Channels /\ delivered \in [Messages -> Nat] /\ garbled \in BOOLEAN
    BY Types DEF TypeOK
  <1>0. PICK old \in Channels, new \in Channels : Inserted(p, old, new) BY <1>1, InsertEffect
  <1>2.
           \/ UNCHANGED <<channels, delivered, garbled>>
           \/ /\ channels' = {c \in channels : c.id # WireId(p.id)} \cup {new}
              /\ UNCHANGED <<delivered, garbled>>
           \/ /\ channels' = {c \in channels : c.id # WireId(p.id)}
              /\ \/ delivered' = [delivered EXCEPT ![p.message] = @ + 1] /\ UNCHANGED garbled
                 \/ garbled' = TRUE /\ UNCHANGED delivered
    BY <1>0 DEF Inserted
  <1>3. channels' \subseteq Channels BY <1>1, <1>2
  <1>4. delivered' \in [Messages -> Nat] BY <1>1, <1>2 DEF Packets
  <1>5. garbled' \in BOOLEAN BY <1>1, <1>2
  <1> QED BY <1>3, <1>4, <1>5

(* The conjuncts of TypeOK in the next state, regrouped.                   *)
LEMMA TypesNext ==
  ASSUME sent' \subseteq Messages, outgoing' \in Seq(Packets), resendList' \in Seq(Resends),
         due' \subseteq Nat, sendIndex' \in Nat, splitPacketId' \in Nat, mtu' \in DOMAIN Ladder,
         sending' \in BOOLEAN, receipts' \in [Messages -> Nat], base' \in Nat, got' \in SUBSET Nat,
         channels' \subseteq Channels, delivered' \in [Messages -> Nat], garbled' \in BOOLEAN,
         net' \subseteq Datagrams, acks' \subseteq Nat, faults' \in Nat
  PROVE  TypeOK'
  BY DEF TypeOK, Resends, Channels, Datagrams

(* Every step keeps the types.                                             *)
LEMMA TypeStep ==
  ASSUME TypeOK, NumberInv, [Next]_vars PROVE TypeOK'
  <1> USE DEF queueVars, senderVars, receiverVars
  <1>0. /\ sent \subseteq Messages /\ outgoing \in Seq(Packets) /\ resendList \in Seq(Resends)
        /\ due \subseteq Nat /\ sendIndex \in Nat /\ splitPacketId \in Nat /\ mtu \in DOMAIN Ladder
        /\ sending \in BOOLEAN /\ receipts \in [Messages -> Nat] /\ base \in Nat /\ got \in SUBSET Nat
        /\ channels \subseteq Channels /\ delivered \in [Messages -> Nat] /\ garbled \in BOOLEAN
        /\ net \subseteq Datagrams /\ acks \subseteq Nat /\ faults \in Nat
    BY DEF TypeOK, Resends, Channels, Datagrams
  <1>1. ASSUME NEW m \in Messages, Send(m) PROVE TypeOK'
    <2>1. outgoing' \in Seq(Packets)
      BY <1>1, SendEffect
    <2>2. splitPacketId' = splitPacketId + 1 \/ splitPacketId' = splitPacketId BY <1>1, SendEffect
    <2>3. sent' = sent \cup {m} /\ UNCHANGED <<sendIndex, mtu, resendList, due, sending, receipts,
            receiverVars, pathMax, net, acks, faults>>
      BY <1>1 DEF Send
    <2> QED BY <1>0, <2>1, <2>2, <2>3, TypesNext
  <1>2. ASSUME UpdateBegin PROVE TypeOK'
    <2>1. sending' = TRUE /\ UNCHANGED <<sent, sendIndex, receipts, receiverVars, pathMax, net, acks, faults>>
      BY <1>2 DEF UpdateBegin
    <2>2. CASE StepDownMtuAfterBlackHole /\ mtu < Len(Ladder)
      <3>1. resendList' \in Seq(Resends) /\ outgoing' \in Seq(Packets) /\ due' \subseteq due
            /\ mtu' \in DOMAIN Ladder /\ splitPacketId' \in Nat
        BY <2>2, StepDownEffect
      <3> QED BY <1>0, <2>1, <3>1, TypesNext
    <2>3. CASE UNCHANGED <<resendList, due, outgoing, splitPacketId, mtu>>
      BY <1>0, <2>1, <2>3, TypesNext
    <2> QED BY <1>2, <2>2, <2>3 DEF UpdateBegin, ShouldStepDownMtu
  <1>3. ASSUME Resend PROVE TypeOK'
    <2>1. Head(resendList) \in Resends /\ resendList' \in Seq(Resends)
          /\ net' \subseteq net \cup {[number |-> Head(resendList).number, packet |-> Head(resendList).packet]}
      BY <1>3, ResendEffect
    <2>2. [number |-> Head(resendList).number, packet |-> Head(resendList).packet] \in Datagrams
      BY <2>1 DEF Resends, Datagrams
    <2>3. due' \subseteq due /\ UNCHANGED <<queueVars, sending, receipts, receiverVars, pathMax, acks, faults>>
      BY <1>3 DEF Resend
    <2>4. net' \subseteq Datagrams BY <1>0, <2>1, <2>2
    <2> QED BY <1>0, <2>1, <2>3, <2>4, TypesNext
  <1>4. ASSUME Transmit PROVE TypeOK'
    <2>1. PICK p \in Packets :
            /\ outgoing' \in Seq(Packets) /\ resendList' \in Seq(Resends)
            /\ net' \subseteq net \cup {[number |-> sendIndex, packet |-> p]}
            /\ sendIndex' = sendIndex + 1
      BY <1>4, TransmitEffect
    <2>2. UNCHANGED <<sent, splitPacketId, mtu, due, sending, receipts, receiverVars, pathMax, acks, faults>>
      BY <1>4 DEF Transmit
    <2>3. [number |-> sendIndex, packet |-> p] \in Datagrams BY <1>0 DEF Datagrams
    <2>4. net' \subseteq Datagrams /\ sendIndex' \in Nat BY <1>0, <2>1, <2>3
    <2> QED BY <1>0, <2>1, <2>2, <2>4, TypesNext
  <1>5. ASSUME UpdateEnd PROVE TypeOK'
    <2>1. sending' = FALSE /\ UNCHANGED <<queueVars, resendList, due, receipts, receiverVars, pathMax, net, acks, faults>>
      BY <1>5 DEF UpdateEnd
    <2> QED BY <1>0, <2>1, TypesNext
  <1>6. ASSUME NEW r \in Elements(resendList), Timeout(r) PROVE TypeOK'
    <2>1. r.number \in Nat BY Types
    <2>2. due' = due \cup {r.number} /\ (faults' = faults + 1 \/ faults' = faults)
          /\ UNCHANGED <<queueVars, resendList, sending, receipts, receiverVars, pathMax, net, acks>>
      BY <1>6 DEF Timeout
    <2>5. due \subseteq Nat /\ faults \in Nat BY <1>0
    <2>6. due' = due \cup {r.number} BY <2>2
    <2>7. faults' = faults + 1 \/ faults' = faults BY <2>2
    <2>8. due' \subseteq Nat BY <2>1, <2>5, <2>6, Zenon
    <2>9. faults' \in Nat BY <2>5, <2>7
    <2>3. due' \subseteq Nat /\ faults' \in Nat BY <2>8, <2>9
    <2>4. UNCHANGED <<sent, outgoing, sendIndex, splitPacketId, mtu, resendList, sending, receipts,
                      base, got, channels, delivered, garbled, net, acks>>
      BY <2>2
    <2> QED BY <1>0, <2>3, <2>4, TypesNext
  <1>7. ASSUME NEW n \in acks, ReceiveAck(n) PROVE TypeOK'
    <2>1. resendList' \in Seq(Resends) BY <1>7, AckEffect
    <2>2. receipts' \in [Messages -> Nat] BY <1>0, <1>7 DEF ReceiveAck
    <2>3. acks' \subseteq acks /\ due' \subseteq due
          /\ UNCHANGED <<queueVars, sending, receiverVars, pathMax, net, faults>>
      BY <1>7 DEF ReceiveAck
    <2> QED BY <1>0, <2>1, <2>2, <2>3, TypesNext
  <1>8. ASSUME NEW x \in net, ReceivePacket(x) PROVE TypeOK'
    <2>1. x.number \in Nat /\ x.packet \in Packets BY Types
    <2>2. net' \subseteq net /\ acks' = acks \cup {x.number} /\ UNCHANGED <<senderVars, pathMax, faults>>
      BY <1>8 DEF ReceivePacket
    <2>3. /\ base' \in Nat /\ got' \in SUBSET Nat /\ channels' \subseteq Channels
          /\ delivered' \in [Messages -> Nat] /\ garbled' \in BOOLEAN
      <3>1. CASE UNCHANGED receiverVars BY <1>0, <3>1
      <3>2. CASE /\ base' \in Nat /\ got' \in SUBSET Nat
                 /\ delivered' = [delivered EXCEPT ![x.packet.message] = @ + 1]
                 /\ UNCHANGED <<channels, garbled>>
        BY <1>0, <2>1, <3>2 DEF Packets
      <3>3. CASE /\ base' \in Nat /\ got' \in SUBSET Nat /\ Insert(x.packet)
        BY <2>1, <3>3, InsertTypes
      <3> QED BY <1>8, <3>1, <3>2, <3>3, AcceptEffect
    <2> QED BY <1>0, <2>1, <2>2, <2>3, TypesNext
  <1>9. ASSUME Lose PROVE TypeOK'
    <2>1. net' \subseteq net /\ acks' \subseteq acks /\ faults' = faults + 1
          /\ UNCHANGED <<senderVars, receiverVars, pathMax>>
      BY <1>9 DEF Lose
    <2> QED BY <1>0, <2>1, TypesNext
  <1>10. ASSUME UNCHANGED vars PROVE TypeOK'
    BY <1>0, <1>10, TypesNext DEF vars
  <1> QED BY <1>1, <1>2, <1>3, <1>4, <1>5, <1>6, <1>7, <1>8, <1>9, <1>10 DEF Next, SenderLoop

(* Numbers that stay numbers of the same packets.                          *)
LEMMA NumbersShrink ==
  ASSUME NumberInv, Numbered' \subseteq Numbered, UNCHANGED <<sendIndex, base, got>>
  PROVE  NumberInv'
  BY DEF NumberInv

(* What carries a number is in Numbered.                                   *)
LEMMA NumberedIn ==
  /\ \A r \in Elements(resendList) : <<r.number, r.packet>> \in Numbered
  /\ \A x \in net : <<x.number, x.packet>> \in Numbered
  BY DEF Numbered

(* Numbered' is made of the next resend list and the next net.             *)
LEMMA NumberedNext ==
  ASSUME NEW S,
         \A r \in Elements(resendList') : <<r.number, r.packet>> \in S,
         \A x \in net' : <<x.number, x.packet>> \in S
  PROVE  Numbered' \subseteq S
  BY DEF Numbered

(* Every step keeps the numbers apart: only Transmit gives a new one.      *)
LEMMA NumberStep ==
  ASSUME TypeOK, NumberInv, [Next]_vars PROVE NumberInv'
  <1> USE DEF queueVars, senderVars, receiverVars
  <1>0. sendIndex \in Nat /\ base \in Nat /\ got \in SUBSET Nat BY Types
  <1>1. ASSUME UNCHANGED <<sendIndex, base, got>>, net' \subseteq net,
               Elements(resendList') \subseteq Elements(resendList)
        PROVE  NumberInv'
    <2>1. Numbered' \subseteq Numbered BY <1>1, NumberedIn, NumberedNext
    <2> QED BY <1>1, <2>1, NumbersShrink
  <1>2. ASSUME UNCHANGED <<sendIndex, base, got, net, resendList>> PROVE NumberInv'
    BY <1>1, <1>2
  <1>3. ASSUME NEW m \in Messages, Send(m) PROVE NumberInv' BY <1>2, <1>3 DEF Send
  <1>4. ASSUME UpdateBegin PROVE NumberInv'
    <2>1. UNCHANGED <<sendIndex, base, got, net>> BY <1>4 DEF UpdateBegin
    <2>2. CASE StepDownMtuAfterBlackHole /\ mtu < Len(Ladder)
      <3>1. Elements(resendList') = {r \in Elements(resendList) : ~Stale(r.packet, mtu + 1)}
        BY <2>2, StepDownEffect
      <3>2. Elements(resendList') \subseteq Elements(resendList) BY <3>1
      <3> QED BY <1>1, <2>1, <3>2
    <2>3. CASE UNCHANGED resendList BY <1>2, <2>1, <2>3
    <2> QED BY <1>4, <2>2, <2>3 DEF UpdateBegin, ShouldStepDownMtu
  <1>5. ASSUME Resend PROVE NumberInv'
    <2>1. PICK r \in Elements(resendList), s \in Resends :
            /\ s.number = r.number /\ s.packet = r.packet
            /\ Elements(resendList') \subseteq Elements(resendList) \cup {s}
            /\ net' \subseteq net \cup {[number |-> r.number, packet |-> r.packet]}
      BY <1>5, ResendEffect
    <2>2. UNCHANGED <<sendIndex, base, got>> BY <1>5 DEF Resend
    <2>3. <<r.number, r.packet>> \in Numbered BY NumberedIn
    <2>4. \A x \in net' : <<x.number, x.packet>> \in Numbered
      <3> DEFINE y == [number |-> r.number, packet |-> r.packet]
      <3>1. y.number = r.number /\ y.packet = r.packet OBVIOUS
      <3>2. <<y.number, y.packet>> \in Numbered BY <2>3, <3>1
      <3>3. \A x \in net' : x \in net \/ x = y BY <2>1
      <3> HIDE DEF y
      <3> QED BY <3>2, <3>3, NumberedIn
    <2>5. \A x \in Elements(resendList') : <<x.number, x.packet>> \in Numbered BY <2>1, <2>3, NumberedIn
    <2>6. Numbered' \subseteq Numbered BY <2>4, <2>5, NumberedNext
    <2> QED BY <2>2, <2>6, NumbersShrink
  <1>6. ASSUME Transmit PROVE NumberInv'
    <2>1. PICK p \in Packets, r \in Resends :
            /\ r.number = sendIndex /\ r.packet = p
            /\ Elements(resendList') = Elements(resendList) \cup {r}
            /\ net' \subseteq net \cup {[number |-> sendIndex, packet |-> p]}
            /\ sendIndex' = sendIndex + 1
      BY <1>6, TransmitEffect
    <2>2. UNCHANGED <<base, got>> BY <1>6 DEF Transmit
    <2> DEFINE S == Numbered \cup {<<sendIndex, p>>}
    <2>3. Numbered' \subseteq S
      <3>1. \A x \in net' : <<x.number, x.packet>> \in S
        <4> DEFINE y == [number |-> sendIndex, packet |-> p]
        <4>1. y.number = sendIndex /\ y.packet = p OBVIOUS
        <4>2. <<y.number, y.packet>> \in S BY <4>1
        <4>3. \A x \in net' : x \in net \/ x = y BY <2>1
        <4> HIDE DEF y
        <4> QED BY <4>2, <4>3, NumberedIn
      <3>2. \A x \in Elements(resendList') : <<x.number, x.packet>> \in S BY <2>1, NumberedIn
      <3> HIDE DEF S
      <3> QED BY <3>1, <3>2, NumberedNext
    <2>4. \A a \in Numbered : a[1] \in Nat
      BY Types DEF Numbered
    <2>5. \A a \in Numbered : a[1] < sendIndex BY DEF NumberInv
    <2>6. \A a, b \in Numbered : a[1] = b[1] => a[2] = b[2] BY DEF NumberInv
    <2>7. \A a \in S : a[1] < sendIndex + 1 BY <1>0, <2>4, <2>5
    <2>8. \A a, b \in S : a[1] = b[1] => a[2] = b[2]
      <3> SUFFICES ASSUME NEW a \in S, NEW b \in S, a[1] = b[1] PROVE a[2] = b[2] OBVIOUS
      <3>1. CASE a \in Numbered /\ b \in Numbered BY <2>6, <3>1
      <3>2. CASE a \in Numbered /\ b = <<sendIndex, p>>
        <4>1. a[1] = sendIndex BY <3>2
        <4> QED BY <1>0, <2>5, <3>2, <4>1
      <3>3. CASE a = <<sendIndex, p>> /\ b \in Numbered
        <4>1. b[1] = sendIndex BY <3>3
        <4> QED BY <1>0, <2>5, <3>3, <4>1
      <3>4. CASE a = <<sendIndex, p>> /\ b = <<sendIndex, p>> BY <3>4
      <3> QED BY <3>1, <3>2, <3>3, <3>4
    <2>9. base' <= sendIndex' /\ \A n \in got' : n < sendIndex'
      <3>1. base <= sendIndex /\ \A n \in got : n < sendIndex BY DEF NumberInv
      <3> QED BY <1>0, <2>1, <2>2, <3>1
    <2> HIDE DEF S
    <2> QED BY <2>1, <2>3, <2>7, <2>8, <2>9 DEF NumberInv
  <1>7. ASSUME UpdateEnd PROVE NumberInv' BY <1>2, <1>7 DEF UpdateEnd
  <1>8. ASSUME NEW r \in Elements(resendList), Timeout(r) PROVE NumberInv' BY <1>2, <1>8 DEF Timeout
  <1>9. ASSUME NEW n \in acks, ReceiveAck(n) PROVE NumberInv'
    <2>1. Elements(resendList') \subseteq Elements(resendList) BY <1>9, AckEffect
    <2>2. UNCHANGED <<sendIndex, base, got, net>> BY <1>9 DEF ReceiveAck
    <2> QED BY <1>1, <2>1, <2>2
  <1>10. ASSUME NEW x \in net, ReceivePacket(x) PROVE NumberInv'
    <2>1. net' \subseteq net /\ UNCHANGED <<resendList, sendIndex>> BY <1>10 DEF ReceivePacket
    <2>2. base' <= sendIndex /\ \A i \in got' : i < sendIndex
      <3>1. CASE UNCHANGED receiverVars BY <3>1 DEF NumberInv
      <3> QED BY <1>10, <3>1, AcceptEffect
    <2>3. Numbered' \subseteq Numbered
      <3>1. Elements(resendList') = Elements(resendList) BY <2>1
      <3> QED BY <2>1, <3>1, NumberedIn, NumberedNext
    <2> QED BY <2>1, <2>2, <2>3 DEF NumberInv
  <1>11. ASSUME Lose PROVE NumberInv'
    <2>1. net' \subseteq net /\ UNCHANGED <<sendIndex, base, got, resendList>> BY <1>11 DEF Lose
    <2>2. Elements(resendList') = Elements(resendList) BY <2>1
    <2> QED BY <1>1, <2>1, <2>2
  <1>12. ASSUME UNCHANGED vars PROVE NumberInv' BY <1>2, <1>12 DEF vars
  <1> QED BY <1>3, <1>4, <1>5, <1>6, <1>7, <1>8, <1>9, <1>10, <1>11, <1>12 DEF Next, SenderLoop

(* The queues are empty at first.                                          *)
LEMMA InitElements ==
  ASSUME Init
  PROVE  Elements(resendList) = {} /\ Elements(outgoing) = {}
  BY DEF Init, Elements

(* The initial state has its types.                                        *)
LEMMA TypeInit == ASSUME Init PROVE TypeOK /\ NumberInv
  <1>1. TypeOK
    <2>1. mtu \in DOMAIN Ladder BY ConstantTypes DEF Init
    <2>2. <<>> \in Seq(Packets) /\ <<>> \in Seq(Resends) OBVIOUS
    <2>3. outgoing \in Seq(Packets) /\ resendList \in Seq(Resends) BY <2>2 DEF Init
    <2>4. /\ sent \subseteq Messages /\ due \subseteq Nat /\ sendIndex \in Nat /\ splitPacketId \in Nat
          /\ sending \in BOOLEAN /\ base \in Nat /\ got \subseteq Nat /\ channels \subseteq Channels
          /\ garbled \in BOOLEAN /\ net \subseteq Datagrams /\ acks \subseteq Nat /\ faults \in Nat
      BY ConstantTypes DEF Init
    <2>5. receipts \in [Messages -> Nat] /\ delivered \in [Messages -> Nat] BY DEF Init
    <2> QED BY <2>1, <2>3, <2>4, <2>5, Zenon DEF TypeOK, Resends, Channels, Datagrams
  <1>2. Numbered = {} BY InitElements DEF Init, Numbered
  <1>3. NumberInv BY <1>2 DEF NumberInv, Init
  <1> QED BY <1>1, <1>3

(* Every variable keeps its type: the step-down leaves well-formed queues, *)
(* MarkReceived finds a next receivedPacketsBaseIndex, and a channel's id  *)
(* fits SplitPacketIdType.  Rests on NumberInv, without which the receiver *)
(* might mark a number that bounds no queue.                               *)
THEOREM TypeCorrect == Spec => []TypeOK
  <1>1. Init => TypeOK /\ NumberInv BY TypeInit
  <1>2. TypeOK /\ NumberInv /\ [Next]_vars => (TypeOK /\ NumberInv)' BY TypeStep, NumberStep
  <1> QED BY <1>1, <1>2, PTL DEF Spec

-----------------------------------------------------------------------------
(* Splittings stay apart.                                                  *)

(* What is in play, piece by piece.                                        *)
LEMMA InPlayPieces ==
  TypeOK =>
    /\ Elements(Queued) = {r.packet : r \in Elements(resendList)} \cup Elements(outgoing)
    /\ InPlay = {r.packet : r \in Elements(resendList)} \cup Elements(outgoing)
                \cup {x.packet : x \in net} \cup Held
    /\ \A p \in InPlay : p \in Packets
  <1> SUFFICES ASSUME TypeOK
      PROVE  /\ Elements(Queued) = {r.packet : r \in Elements(resendList)} \cup Elements(outgoing)
             /\ InPlay = {r.packet : r \in Elements(resendList)} \cup Elements(outgoing)
                         \cup {x.packet : x \in net} \cup Held
             /\ \A p \in InPlay : p \in Packets
    OBVIOUS
  <1>1. Elements(Queued) = {r.packet : r \in Elements(resendList)} \cup Elements(outgoing)
    BY QueuedElements
  <1>2. InPlay = {r.packet : r \in Elements(resendList)} \cup Elements(outgoing)
                 \cup {x.packet : x \in net} \cup Held
    BY <1>1 DEF InPlay
  <1>3. \A p \in Held : p \in Packets
    <2>1. \A c \in channels : c.fragments \in SUBSET Packets BY Types DEF Channels
    <2> QED BY <2>1 DEF Held
  <1>4. \A r \in Elements(resendList) : r.packet \in Packets BY Types
  <1>5. \A p \in Elements(outgoing) : p \in Packets BY Types
  <1>6. \A x \in net : x.packet \in Packets BY Types
  <1>7. \A p \in InPlay : p \in Packets BY <1>2, <1>3, <1>4, <1>5, <1>6, Zenon
  <1> QED BY <1>1, <1>2, <1>7

(* The same in the next state.                                             *)
LEMMA InPlayPiecesNext ==
  TypeOK' =>
    /\ Elements(Queued)' = {r.packet : r \in Elements(resendList')} \cup Elements(outgoing')
    /\ InPlay' = {r.packet : r \in Elements(resendList')} \cup Elements(outgoing')
                 \cup {x.packet : x \in net'} \cup Held'
    /\ \A p \in InPlay' : p \in Packets
  <1> DEFINE E == Elements(Queued)
             A == Elements(Queued) = {r.packet : r \in Elements(resendList)} \cup Elements(outgoing)
             B == InPlay = {r.packet : r \in Elements(resendList)} \cup Elements(outgoing)
                           \cup {x.packet : x \in net} \cup Held
             C == \A p \in InPlay : p \in Packets
  <1>1. TypeOK => A /\ B /\ C BY InPlayPieces
  <1>2. TypeOK' => A' /\ B' /\ C'
    <2> HIDE DEF A, B, C
    <2> QED BY <1>1, PTL
  <1>3. A' => Elements(Queued)' = {r.packet : r \in Elements(resendList')} \cup Elements(outgoing')
    BY DEF Elements
  <1>4. B' => InPlay' = {r.packet : r \in Elements(resendList')} \cup Elements(outgoing')
                        \cup {x.packet : x \in net'} \cup Held'
    BY DEF Elements
  <1>5. C' => \A p \in InPlay' : p \in Packets BY DEF Packets
  <1> QED BY <1>2, <1>3, <1>4, <1>5

(* A set that holds every piece of the next state.                         *)
LEMMA InPlayNext ==
  ASSUME TypeOK', NEW S,
         \A r \in Elements(resendList') : r.packet \in S,
         \A p \in Elements(outgoing') : p \in S,
         \A x \in net' : x.packet \in S,
         Held' \subseteq S
  PROVE  InPlay' \subseteq S
  BY InPlayPiecesNext

(* Every piece is in play.                                                 *)
LEMMA InPlayIn ==
  ASSUME TypeOK
  PROVE  /\ \A r \in Elements(resendList) : r.packet \in InPlay
         /\ \A p \in Elements(outgoing) : p \in InPlay
         /\ \A x \in net : x.packet \in InPlay
         /\ \A c \in channels : \A q \in c.fragments : q \in InPlay /\ q \in Held
         /\ Held \subseteq InPlay
  BY InPlayPieces DEF Held

(* New splittings under fresh ids keep the splittings apart.               *)
LEMMA SplitGrows ==
  ASSUME TypeOK, TypeOK', SplitInv, NEW N, InPlay' \subseteq InPlay \cup N,
         splitPacketId' >= splitPacketId,
         \A p \in N : p.count > 0 => p.id >= splitPacketId /\ p.id < splitPacketId',
         \A p \in N : p.count > 0 =>
           \E rung \in DOMAIN Ladder : \A q \in N :
             q.count > 0 /\ q.id = p.id => q \in Elements(SplitPacket(p.message, p.id, rung))
  PROVE  SplitInv'
  <1>1. splitPacketId \in Nat /\ splitPacketId' \in Nat BY DEF TypeOK
  <1>2. \A p \in InPlay : p \in Packets BY InPlayPieces
  <1>3. \A p \in InPlay : p.id \in Nat BY <1>2 DEF Packets
  <1>4. \A p \in InPlay' : p.id \in Nat
    <2>1. \A p \in InPlay' : p \in Packets BY InPlayPiecesNext
    <2> QED BY <2>1 DEF Packets
  <1>7. StartId \in Nat /\ splitPacketId >= StartId BY ConstantTypes DEF SplitInv
  <1>8. splitPacketId' >= StartId BY <1>1, <1>7
  <1>5. \A p \in InPlay' : p.count > 0 => p.id >= StartId /\ p.id < splitPacketId'
    <2> SUFFICES ASSUME NEW p \in InPlay', p.count > 0 PROVE p.id >= StartId /\ p.id < splitPacketId'
      OBVIOUS
    <2>1. CASE p \in InPlay
      <3>1. p.id >= StartId /\ p.id < splitPacketId BY <2>1 DEF SplitInv
      <3> QED BY <1>1, <1>4, <3>1
    <2>2. CASE p \in N
      <3>1. p.id >= splitPacketId /\ p.id < splitPacketId' BY <2>2
      <3> QED BY <1>1, <1>4, <1>7, <3>1
    <2> QED BY <2>1, <2>2
  <1>6. \A p \in InPlay' : p.count > 0 =>
          \E rung \in DOMAIN Ladder : \A q \in InPlay' :
            q.count > 0 /\ q.id = p.id => q \in Elements(SplitPacket(p.message, p.id, rung))
    <2> SUFFICES ASSUME NEW p \in InPlay', p.count > 0
                 PROVE  \E rung \in DOMAIN Ladder : \A q \in InPlay' :
                          q.count > 0 /\ q.id = p.id => q \in Elements(SplitPacket(p.message, p.id, rung))
      OBVIOUS
    <2>1. CASE p \in InPlay
      <3>1. PICK rung \in DOMAIN Ladder : \A q \in InPlay :
              q.count > 0 /\ q.id = p.id => q \in Elements(SplitPacket(p.message, p.id, rung))
        BY <2>1 DEF SplitInv
      <3>2. p.id < splitPacketId /\ p.id \in Nat BY <1>3, <2>1 DEF SplitInv
      <3>3. ASSUME NEW q \in InPlay', q.count > 0, q.id = p.id
            PROVE  q \in Elements(SplitPacket(p.message, p.id, rung))
        <4>1. q \in N => q.id >= splitPacketId BY <3>3
        <4>2. q \notin N BY <1>1, <3>2, <3>3, <4>1
        <4> QED BY <3>1, <3>3, <4>2
      <3> QED BY <3>3
    <2>2. CASE p \in N
      <3>1. PICK rung \in DOMAIN Ladder : \A q \in N :
              q.count > 0 /\ q.id = p.id => q \in Elements(SplitPacket(p.message, p.id, rung))
        BY <2>2
      <3>2. p.id >= splitPacketId /\ p.id \in Nat BY <1>4, <2>2
      <3>3. ASSUME NEW q \in InPlay', q.count > 0, q.id = p.id
            PROVE  q \in Elements(SplitPacket(p.message, p.id, rung))
        <4>1. q \in InPlay => q.id < splitPacketId BY <3>3 DEF SplitInv
        <4>2. q \notin InPlay BY <1>1, <3>2, <3>3, <4>1
        <4> QED BY <3>1, <3>3, <4>2
      <3> QED BY <3>3
    <2> QED BY <2>1, <2>2
  <1> QED BY <1>5, <1>6, <1>8 DEF SplitInv

(* Without a new splitting nothing can mix.                                *)
LEMMA SplitShrinks ==
  ASSUME TypeOK, TypeOK', SplitInv, InPlay' \subseteq InPlay, splitPacketId' = splitPacketId
  PROVE  SplitInv'
  <1>1. splitPacketId' >= splitPacketId BY DEF TypeOK
  <1> DEFINE N == {}
  <1>2. InPlay' \subseteq InPlay \cup N /\ \A p \in N : FALSE OBVIOUS
  <1> HIDE DEF N
  <1>3. (\A p \in N : p.count > 0 => p.id >= splitPacketId /\ p.id < splitPacketId')
        /\ \A p \in N : p.count > 0 =>
             \E rung \in DOMAIN Ladder : \A q \in N :
               q.count > 0 /\ q.id = p.id => q \in Elements(SplitPacket(p.message, p.id, rung))
    BY <1>2
  <1> QED BY <1>1, <1>2, <1>3, SplitGrows

(* The fragments of a step-down are new splittings under fresh ids.        *)
LEMMA ReSplitFresh ==
  ASSUME TypeOK, NEW rung \in DOMAIN Ladder, NEW p \in ReSplit(rung)
  PROVE  /\ p.id >= splitPacketId /\ p.id < splitPacketId + Len(Rebuilt(rung))
         /\ \A q \in ReSplit(rung) : q.id = p.id => q \in Elements(SplitPacket(p.message, p.id, rung))
  <1>1. Rebuilt(rung) \in Seq(Messages) BY RebuiltMessages
  <1>2. Len(Rebuilt(rung)) \in Nat /\ DOMAIN Rebuilt(rung) = 1 .. Len(Rebuilt(rung))
        /\ \A i \in DOMAIN Rebuilt(rung) : Rebuilt(rung)[i] \in Messages
    BY <1>1
  <1>3. splitPacketId \in Nat BY DEF TypeOK
  <1>4. \A i \in DOMAIN Rebuilt(rung) : FreshId(i) \in Nat /\ FreshId(i) = splitPacketId + i - 1
    BY <1>2, <1>3 DEF FreshId
  <1>5. \A i \in DOMAIN Rebuilt(rung) : \A q \in Elements(SplitPacket(Rebuilt(rung)[i], FreshId(i), rung)) :
          q.message = Rebuilt(rung)[i] /\ q.id = FreshId(i)
    <2> TAKE i \in DOMAIN Rebuilt(rung)
    <2> DEFINE m == Rebuilt(rung)[i]
               id == FreshId(i)
    <2>1. m \in Messages /\ id \in Nat BY <1>2, <1>4
    <2> HIDE DEF m, id
    <2>2. \A q \in Elements(SplitPacket(m, id, rung)) : q.message = m /\ q.id = id BY <2>1, SplitParts
    <2> QED BY <2>2 DEF m, id
  <1>6. PICK i \in DOMAIN Rebuilt(rung) : p \in Elements(SplitPacket(Rebuilt(rung)[i], FreshId(i), rung))
    BY DEF ReSplit
  <1>7. p.message = Rebuilt(rung)[i] /\ p.id = FreshId(i) BY <1>5, <1>6
  <1>8. p.id >= splitPacketId /\ p.id < splitPacketId + Len(Rebuilt(rung)) BY <1>2, <1>3, <1>4, <1>7
  <1>9. ASSUME NEW q \in ReSplit(rung), q.id = p.id
        PROVE  q \in Elements(SplitPacket(p.message, p.id, rung))
    <2>1. PICK j \in DOMAIN Rebuilt(rung) : q \in Elements(SplitPacket(Rebuilt(rung)[j], FreshId(j), rung))
      BY DEF ReSplit
    <2>2. q.id = FreshId(j) BY <1>5, <2>1
    <2>3. i = j
      <3>1. FreshId(i) = FreshId(j) BY <1>7, <1>9, <2>2
      <3>2. splitPacketId + i - 1 = splitPacketId + j - 1 BY <1>4, <3>1
      <3>3. i \in Nat /\ j \in Nat BY <1>2
      <3> QED BY <1>3, <3>2, <3>3
    <2> QED BY <1>7, <2>1, <2>3
  <1> QED BY <1>8, <1>9

(* A fragment that arrives is the only thing a channel gains.              *)
LEMMA InsertHeld ==
  ASSUME TypeOK, NEW p \in Packets, Insert(p)
  PROVE  Held' \subseteq Held \cup {p}
  <1>1. channels \subseteq Channels BY Types
  <1>0. PICK old \in Channels, new \in Channels : Inserted(p, old, new) BY <1>1, InsertEffect
  <1>2.
           /\ old \in channels \/ old = [id |-> WireId(p.id), count |-> p.count, fragments |-> {}]
           /\ new = [old EXCEPT !.fragments = @ \cup {p}]
           /\ \/ channels' = channels
              \/ channels' = {c \in channels : c.id # WireId(p.id)} \cup {new}
              \/ channels' = {c \in channels : c.id # WireId(p.id)}
    BY <1>0 DEF Inserted
  <1>3. new.fragments = old.fragments \cup {p} BY <1>2 DEF Channels
  <1>4. old.fragments \subseteq Held
    <2>1. CASE old \in channels BY <2>1 DEF Held
    <2>2. CASE old = [id |-> WireId(p.id), count |-> p.count, fragments |-> {}] BY <2>2
    <2> QED BY <1>2, <2>1, <2>2
  <1>5. \A c \in channels' : c \in channels \/ c = new BY <1>2
  <1>6. \A c \in channels' : c.fragments \subseteq Held \cup {p} BY <1>3, <1>4, <1>5 DEF Held
  <1> QED BY <1>6 DEF Held

(* The same for a whole ReceivePacket.                                     *)
LEMMA ReceiveHeld ==
  ASSUME TypeOK, NumberInv, NEW x \in net, ReceivePacket(x)
  PROVE  Held' \subseteq Held \cup {x.packet}
  <1>1. x.packet \in Packets BY Types
  <1>2. CASE UNCHANGED channels BY <1>2 DEF Held
  <1>3. CASE Insert(x.packet) BY <1>1, <1>3, InsertHeld
  <1> QED BY <1>2, <1>3, AcceptEffect DEF receiverVars

(* Every step keeps the splittings apart.                                  *)
LEMMA SplitStep ==
  ASSUME TypeOK, TypeOK', NumberInv, SplitInv, [Next]_vars PROVE SplitInv'
  <1> USE DEF queueVars, senderVars, receiverVars
  <1>0. /\ \A r \in Elements(resendList) : r.packet \in InPlay
        /\ \A p \in Elements(outgoing) : p \in InPlay
        /\ \A x \in net : x.packet \in InPlay
        /\ Held \subseteq InPlay
        /\ splitPacketId \in Nat /\ mtu \in DOMAIN Ladder
    BY InPlayIn DEF TypeOK
  <1>1. ASSUME UNCHANGED <<channels, splitPacketId>>, net' \subseteq net,
               Elements(resendList') \subseteq Elements(resendList),
               Elements(outgoing') \subseteq Elements(outgoing)
        PROVE  SplitInv'
    <2>1. Held' = Held BY <1>1 DEF Held
    <2>2. InPlay' \subseteq InPlay BY <1>0, <1>1, <2>1, InPlayNext
    <2> QED BY <1>1, <2>2, SplitShrinks
  <1>2. ASSUME UNCHANGED <<channels, splitPacketId, net, resendList, outgoing>> PROVE SplitInv'
    BY <1>1, <1>2
  <1>3. ASSUME NEW m \in Messages, Send(m) PROVE SplitInv'
    <2>1. PICK new \in Seq(Packets) :
            /\ Elements(outgoing') = Elements(outgoing) \cup Elements(new)
            /\ \/ new = SplitPacket(m, splitPacketId, mtu) /\ splitPacketId' = splitPacketId + 1
               \/ new = Whole(m) /\ splitPacketId' = splitPacketId
      BY <1>3, SendEffect
    <2>2. UNCHANGED <<channels, net, resendList>> BY <1>3 DEF Send
    <2>3. Held' = Held /\ Elements(resendList') = Elements(resendList) BY <2>2 DEF Held
    <2> DEFINE N == Elements(new)
    <2>4. InPlay' \subseteq InPlay \cup N BY <1>0, <2>1, <2>2, <2>3, InPlayNext
    <2>5. CASE new = SplitPacket(m, splitPacketId, mtu) /\ splitPacketId' = splitPacketId + 1
      <3>1. \A p \in N : p.message = m /\ p.id = splitPacketId BY <1>0, <2>5, SplitParts
      <3>2. N = Elements(SplitPacket(m, splitPacketId, mtu)) BY <2>5
      <3> HIDE DEF N
      <3>3. \A p \in N : p.count > 0 => p.id >= splitPacketId /\ p.id < splitPacketId'
        BY <1>0, <2>5, <3>1
      <3>4. \A p \in N : p.count > 0 =>
              \E rung \in DOMAIN Ladder : \A q \in N :
                q.count > 0 /\ q.id = p.id => q \in Elements(SplitPacket(p.message, p.id, rung))
        BY <1>0, <3>1, <3>2
      <3>5. splitPacketId' >= splitPacketId BY <1>0, <2>5
      <3> QED BY <2>4, <3>3, <3>4, <3>5, SplitGrows
    <2>6. CASE new = Whole(m) /\ splitPacketId' = splitPacketId
      <3>1. \A p \in N : p.count = 0 BY <2>6, WholePart
      <3> HIDE DEF N
      <3>2. \A p \in N : ~(p.count > 0) BY <3>1
      <3>3. splitPacketId' >= splitPacketId BY <1>0, <2>6
      <3> QED BY <2>4, <3>2, <3>3, SplitGrows
    <2> QED BY <2>1, <2>5, <2>6
  <1>4. ASSUME UpdateBegin PROVE SplitInv'
    <2>1. UNCHANGED <<channels, net>> BY <1>4 DEF UpdateBegin
    <2>2. CASE StepDownMtuAfterBlackHole /\ mtu < Len(Ladder)
      <3>1. mtu + 1 \in DOMAIN Ladder BY <2>2, RungBelow
      <3>2. /\ Elements(resendList') = {r \in Elements(resendList) : ~Stale(r.packet, mtu + 1)}
            /\ Elements(outgoing') = {p \in Elements(outgoing) : ~Stale(p, mtu + 1)} \cup ReSplit(mtu + 1)
            /\ splitPacketId' = splitPacketId + Len(Rebuilt(mtu + 1))
            /\ splitPacketId' \in Nat
        BY <2>2, StepDownEffect
      <3> DEFINE N == ReSplit(mtu + 1)
      <3>3. \A p \in N : /\ p.id >= splitPacketId /\ p.id < splitPacketId'
                         /\ \A q \in N : q.id = p.id => q \in Elements(SplitPacket(p.message, p.id, mtu + 1))
        BY <3>1, <3>2, ReSplitFresh
      <3> HIDE DEF N
      <3>4. \A p \in N : p.count > 0 =>
              \E rung \in DOMAIN Ladder : \A q \in N :
                q.count > 0 /\ q.id = p.id => q \in Elements(SplitPacket(p.message, p.id, rung))
        BY <3>1, <3>3, Zenon
      <3>5. Held' = Held BY <2>1 DEF Held
      <3>6. InPlay' \subseteq InPlay \cup N
        <4>1. \A r \in Elements(resendList') : r.packet \in InPlay \cup N BY <1>0, <3>2
        <4>2. \A p \in Elements(outgoing') : p \in InPlay \cup N BY <1>0, <3>2 DEF N
        <4>3. \A x \in net' : x.packet \in InPlay \cup N BY <1>0, <2>1
        <4>4. Held' \subseteq InPlay \cup N BY <1>0, <3>5
        <4> QED BY <4>1, <4>2, <4>3, <4>4, InPlayNext
      <3>7. splitPacketId' >= splitPacketId
        <4>1. Len(Rebuilt(mtu + 1)) \in Nat BY <3>1, RebuiltMessages
        <4> QED BY <1>0, <3>2, <4>1
      <3> QED BY <3>3, <3>4, <3>6, <3>7, SplitGrows
    <2>3. CASE UNCHANGED <<resendList, outgoing, splitPacketId>> BY <1>2, <2>1, <2>3
    <2> QED BY <1>4, <2>2, <2>3 DEF UpdateBegin, ShouldStepDownMtu
  <1>5. ASSUME Resend PROVE SplitInv'
    <2>1. PICK r \in Elements(resendList), s \in Resends :
            /\ s.number = r.number /\ s.packet = r.packet
            /\ Elements(resendList') \subseteq Elements(resendList) \cup {s}
            /\ net' \subseteq net \cup {[number |-> r.number, packet |-> r.packet]}
      BY <1>5, ResendEffect
    <2>2. UNCHANGED <<channels, outgoing, splitPacketId>> BY <1>5 DEF Resend
    <2>3. Held' = Held /\ Elements(outgoing') = Elements(outgoing) BY <2>2 DEF Held
    <2>4. \A x \in net' : x.packet \in InPlay
      <3> DEFINE y == [number |-> r.number, packet |-> r.packet]
      <3>1. y.packet \in InPlay BY <1>0
      <3>2. \A x \in net' : x \in net \/ x = y BY <2>1
      <3> HIDE DEF y
      <3> QED BY <1>0, <3>1, <3>2
    <2>5. \A x \in Elements(resendList') : x.packet \in InPlay BY <1>0, <2>1
    <2>6. InPlay' \subseteq InPlay BY <1>0, <2>3, <2>4, <2>5, InPlayNext
    <2> QED BY <2>2, <2>6, SplitShrinks
  <1>6. ASSUME Transmit PROVE SplitInv'
    <2>1. PICK p \in Packets, r \in Resends :
            /\ r.packet = p
            /\ Elements(outgoing) = {p} \cup Elements(outgoing')
            /\ Elements(resendList') = Elements(resendList) \cup {r}
            /\ net' \subseteq net \cup {[number |-> sendIndex, packet |-> p]}
      BY <1>6, TransmitEffect
    <2>2. UNCHANGED <<channels, splitPacketId>> BY <1>6 DEF Transmit
    <2>3. Held' = Held BY <2>2 DEF Held
    <2>4. p \in InPlay BY <1>0, <2>1
    <2>5. \A x \in net' : x.packet \in InPlay
      <3> DEFINE y == [number |-> sendIndex, packet |-> p]
      <3>1. y.packet \in InPlay BY <2>4
      <3>2. \A x \in net' : x \in net \/ x = y BY <2>1
      <3> HIDE DEF y
      <3> QED BY <1>0, <3>1, <3>2
    <2>6. \A x \in Elements(resendList') : x.packet \in InPlay BY <1>0, <2>1, <2>4
    <2>7. \A q \in Elements(outgoing') : q \in InPlay BY <1>0, <2>1
    <2>8. InPlay' \subseteq InPlay BY <1>0, <2>3, <2>5, <2>6, <2>7, InPlayNext
    <2> QED BY <2>2, <2>8, SplitShrinks
  <1>7. ASSUME UpdateEnd PROVE SplitInv' BY <1>2, <1>7 DEF UpdateEnd
  <1>8. ASSUME NEW r \in Elements(resendList), Timeout(r) PROVE SplitInv' BY <1>2, <1>8 DEF Timeout
  <1>9. ASSUME NEW n \in acks, ReceiveAck(n) PROVE SplitInv'
    <2>1. Elements(resendList') \subseteq Elements(resendList) BY <1>9, AckEffect
    <2>2. UNCHANGED <<channels, splitPacketId, net, outgoing>> BY <1>9 DEF ReceiveAck
    <2> QED BY <1>1, <2>1, <2>2
  <1>10. ASSUME NEW x \in net, ReceivePacket(x) PROVE SplitInv'
    <2>1. net' \subseteq net /\ UNCHANGED <<resendList, outgoing, splitPacketId>> BY <1>10 DEF ReceivePacket
    <2>2. Held' \subseteq Held \cup {x.packet} BY <1>10, ReceiveHeld
    <2>3. Held' \subseteq InPlay BY <1>0, <2>2
    <2>4. Elements(resendList') = Elements(resendList) /\ Elements(outgoing') = Elements(outgoing) BY <2>1
    <2>5. InPlay' \subseteq InPlay BY <1>0, <2>1, <2>3, <2>4, InPlayNext
    <2> QED BY <2>1, <2>5, SplitShrinks
  <1>11. ASSUME Lose PROVE SplitInv'
    <2>1. net' \subseteq net /\ UNCHANGED <<channels, splitPacketId, resendList, outgoing>> BY <1>11 DEF Lose
    <2>2. Elements(resendList') = Elements(resendList) /\ Elements(outgoing') = Elements(outgoing) BY <2>1
    <2> QED BY <1>1, <2>1, <2>2
  <1>12. ASSUME UNCHANGED vars PROVE SplitInv' BY <1>2, <1>12 DEF vars
  <1> QED BY <1>3, <1>4, <1>5, <1>6, <1>7, <1>8, <1>9, <1>10, <1>11, <1>12 DEF Next, SenderLoop

-----------------------------------------------------------------------------
(* The receiver's channels.                                                *)

(* Insert keeps its channel incomplete or closes it.                       *)
LEMMA ChannelInsert ==
  ASSUME TypeOK, ChannelInv, NEW p \in Packets, p.count > 0, Insert(p)
  PROVE  ChannelInv'
  <1>1. channels \subseteq Channels BY Types
  <1>0. PICK old \in Channels, new \in Channels : Inserted(p, old, new) BY <1>1, InsertEffect
  <1>2.
           /\ \/ /\ old \in channels /\ old.id = WireId(p.id)
              \/ old = [id |-> WireId(p.id), count |-> p.count, fragments |-> {}]
           /\ new = [old EXCEPT !.fragments = @ \cup {p}]
           /\ \/ channels' = channels
              \/ /\ Fits(old, p)
                 /\ \E i \in 0 .. new.count - 1 : \A q \in new.fragments : q.index # i
                 /\ channels' = {c \in channels : c.id # WireId(p.id)} \cup {new}
              \/ channels' = {c \in channels : c.id # WireId(p.id)}
    BY <1>0 DEF Inserted
  <1>3. new.fragments = old.fragments \cup {p} /\ new.id = WireId(p.id) /\ new.count = old.count
        /\ old.id = WireId(p.id)
    BY <1>2 DEF Channels
  <1>4. \A q \in old.fragments : q.count > 0 /\ q.count = old.count /\ WireId(q.id) = old.id
    <2>1. CASE old \in channels BY <2>1 DEF ChannelInv
    <2>2. CASE old = [id |-> WireId(p.id), count |-> p.count, fragments |-> {}] BY <2>2
    <2> QED BY <1>2, <2>1, <2>2
  <1>5. CASE channels' \subseteq channels BY <1>5 DEF ChannelInv
  <1>6. CASE /\ Fits(old, p)
             /\ \E i \in 0 .. new.count - 1 : \A q \in new.fragments : q.index # i
             /\ channels' = {c \in channels : c.id # WireId(p.id)} \cup {new}
    <2>1. p.count = new.count BY <1>3, <1>6 DEF Fits
    <2>2. \A q \in new.fragments : q.count > 0 /\ q.count = new.count /\ WireId(q.id) = new.id
      BY <1>3, <1>4, <2>1
    <2>3. new.fragments # {} BY <1>3
    <2>4. \A c \in channels' : c = new \/ (c \in channels /\ c.id # new.id) BY <1>3, <1>6
    <2>5. \A c \in channels' :
             /\ c.fragments # {}
             /\ \A q \in c.fragments : q.count > 0 /\ q.count = c.count /\ WireId(q.id) = c.id
             /\ \E i \in 0 .. c.count - 1 : \A q \in c.fragments : q.index # i
      <3> TAKE c \in channels'
      <3>1. CASE c = new BY <1>6, <2>2, <2>3, <3>1
      <3>2. CASE c \in channels BY <3>2 DEF ChannelInv
      <3> QED BY <2>4, <3>1, <3>2
    <2>6. \A c, d \in channels' : c.id = d.id => c = d BY <2>4 DEF ChannelInv
    <2> QED BY <2>5, <2>6 DEF ChannelInv
  <1>7. channels' \subseteq channels
        \/ (/\ Fits(old, p)
            /\ \E i \in 0 .. new.count - 1 : \A q \in new.fragments : q.index # i
            /\ channels' = {c \in channels : c.id # WireId(p.id)} \cup {new})
    BY <1>2
  <1> QED BY <1>5, <1>6, <1>7

(* Only ReceivePacket touches the channels.                                *)
LEMMA ChannelStep ==
  ASSUME TypeOK, NumberInv, ChannelInv, [Next]_vars PROVE ChannelInv'
  <1> USE DEF queueVars, senderVars, receiverVars
  <1>1. CASE UNCHANGED channels BY <1>1 DEF ChannelInv
  <1>2. ASSUME NEW x \in net, ReceivePacket(x) PROVE ChannelInv'
    <2>1. x.packet \in Packets BY Types
    <2>2. CASE x.packet.count > 0 /\ Insert(x.packet) BY <2>1, <2>2, ChannelInsert
    <2> QED BY <1>1, <1>2, <2>2, AcceptEffect
  <1>3. ASSUME NEW m \in Messages, Send(m) PROVE UNCHANGED channels BY <1>3 DEF Send
  <1>4. UpdateBegin => UNCHANGED channels BY DEF UpdateBegin
  <1>5. SenderLoop => UNCHANGED channels BY DEF SenderLoop, Resend, Transmit, UpdateEnd
  <1>6. ASSUME NEW r \in Elements(resendList), Timeout(r) PROVE UNCHANGED channels BY <1>6 DEF Timeout
  <1>7. ASSUME NEW n \in acks, ReceiveAck(n) PROVE UNCHANGED channels BY <1>7 DEF ReceiveAck
  <1>8. Lose => UNCHANGED channels BY DEF Lose
  <1>9. UNCHANGED vars => UNCHANGED channels BY DEF vars
  <1> QED BY <1>1, <1>2, <1>3, <1>4, <1>5, <1>6, <1>7, <1>8, <1>9 DEF Next

(* The fragments a packet meets in its channel are of its own splitting.   *)
LEMMA SameSplitting ==
  ASSUME TypeOK, SplitInv, ChannelInv, IdsApart,
         NEW p \in InPlay, p.count > 0, NEW c \in channels, c.id = WireId(p.id)
  PROVE  \E rung \in DOMAIN Ladder :
           /\ p \in Elements(SplitPacket(p.message, p.id, rung))
           /\ \A q \in c.fragments : q.id = p.id /\ q \in Elements(SplitPacket(p.message, p.id, rung))
  <1>1. PICK rung \in DOMAIN Ladder : \A q \in InPlay :
          q.count > 0 /\ q.id = p.id => q \in Elements(SplitPacket(p.message, p.id, rung))
    BY DEF SplitInv
  <1>2. \A q \in c.fragments : q \in InPlay /\ q.count > 0 /\ WireId(q.id) = WireId(p.id)
    BY InPlayIn DEF ChannelInv
  <1>3. \A q \in c.fragments : q.id = p.id BY <1>2 DEF IdsApart
  <1> QED BY <1>1, <1>2, <1>3

(* A complete channel is one whole splitting.                              *)
LEMMA CompleteIsWhole ==
  ASSUME NEW m \in Messages, NEW id \in Nat, NEW rung \in DOMAIN Ladder,
         NEW F, F \subseteq Elements(SplitPacket(m, id, rung)),
         \A i \in 0 .. SplitPacketCount(m, rung) - 1 : \E q \in F : q.index = i
  PROVE  F = Elements(SplitPacket(m, id, rung))
  <1> SUFFICES ASSUME NEW p \in Elements(SplitPacket(m, id, rung)) PROVE p \in F OBVIOUS
  <1>1. p.index \in 0 .. SplitPacketCount(m, rung) - 1 BY SplitParts
  <1>2. PICK q \in F : q.index = p.index BY <1>1
  <1>3. q = p BY <1>2, SplitParts
  <1> QED BY <1>3

(* Under IdsApart a channel that completes holds one whole splitting.      *)
LEMMA InsertWhole ==
  ASSUME TypeOK, SplitInv, ChannelInv, IdsApart, NEW p \in InPlay, p.count > 0, Insert(p)
  PROVE  UNCHANGED garbled
  <1>1. channels \subseteq Channels /\ p \in Packets BY Types, InPlayPieces
  <1>0. PICK old \in Channels, new \in Channels : Inserted(p, old, new) BY <1>1, InsertEffect
  <1>2.
           /\ \/ /\ old \in channels /\ old.id = WireId(p.id)
              \/ old = [id |-> WireId(p.id), count |-> p.count, fragments |-> {}]
           /\ new = [old EXCEPT !.fragments = @ \cup {p}]
           /\ \/ UNCHANGED garbled
              \/ /\ Fits(old, p)
                 /\ \A i \in 0 .. new.count - 1 : \E q \in new.fragments : q.index = i
                 /\ \A rung \in DOMAIN Ladder :
                      new.fragments # Elements(SplitPacket(p.message, p.id, rung))
    BY <1>0 DEF Inserted
  <1> SUFFICES ASSUME Fits(old, p),
                      \A i \in 0 .. new.count - 1 : \E q \in new.fragments : q.index = i
               PROVE  \E rung \in DOMAIN Ladder :
                        new.fragments = Elements(SplitPacket(p.message, p.id, rung))
    BY <1>2
  <1>3. new.fragments = old.fragments \cup {p} /\ new.count = p.count BY <1>2 DEF Channels, Fits
  <1>4. PICK rung \in DOMAIN Ladder :
           /\ p \in Elements(SplitPacket(p.message, p.id, rung))
           /\ \A q \in old.fragments : q \in Elements(SplitPacket(p.message, p.id, rung))
    <2>1. CASE old \in channels /\ old.id = WireId(p.id) BY <2>1, SameSplitting
    <2>2. CASE old = [id |-> WireId(p.id), count |-> p.count, fragments |-> {}]
      <3>1. PICK rung \in DOMAIN Ladder : p \in Elements(SplitPacket(p.message, p.id, rung))
        BY DEF SplitInv
      <3>2. old.fragments = {} BY <2>2
      <3> QED BY <3>1, <3>2
    <2> QED BY <1>2, <2>1, <2>2
  <1>5. p.message \in Messages /\ p.id \in Nat BY <1>1 DEF Packets
  <1>6. p.count = SplitPacketCount(p.message, rung) BY <1>4, <1>5, SplitParts
  <1>7. new.fragments \subseteq Elements(SplitPacket(p.message, p.id, rung)) BY <1>3, <1>4
  <1>8. \A i \in 0 .. SplitPacketCount(p.message, rung) - 1 : \E q \in new.fragments : q.index = i
    BY <1>3, <1>6
  <1> QED BY <1>5, <1>7, <1>8, CompleteIsWhole

(* No step garbles a message.                                              *)
LEMMA GarbledStep ==
  ASSUME TypeOK, NumberInv, SplitInv, ChannelInv, IdsApart, NeverGarbled, [Next]_vars
  PROVE  NeverGarbled'
  <1> USE DEF queueVars, senderVars, receiverVars
  <1>1. CASE UNCHANGED garbled BY <1>1 DEF NeverGarbled
  <1>2. ASSUME NEW x \in net, ReceivePacket(x) PROVE UNCHANGED garbled
    <2>1. x.packet \in InPlay BY InPlayIn
    <2>2. CASE x.packet.count > 0 /\ Insert(x.packet) BY <2>1, <2>2, InsertWhole
    <2> QED BY <1>2, <2>2, AcceptEffect
  <1>3. ASSUME NEW m \in Messages, Send(m) PROVE UNCHANGED garbled BY <1>3 DEF Send
  <1>4. UpdateBegin => UNCHANGED garbled BY DEF UpdateBegin
  <1>5. SenderLoop => UNCHANGED garbled BY DEF SenderLoop, Resend, Transmit, UpdateEnd
  <1>6. ASSUME NEW r \in Elements(resendList), Timeout(r) PROVE UNCHANGED garbled BY <1>6 DEF Timeout
  <1>7. ASSUME NEW n \in acks, ReceiveAck(n) PROVE UNCHANGED garbled BY <1>7 DEF ReceiveAck
  <1>8. Lose => UNCHANGED garbled BY DEF Lose
  <1>9. UNCHANGED vars => UNCHANGED garbled BY DEF vars
  <1> QED BY <1>1, <1>2, <1>3, <1>4, <1>5, <1>6, <1>7, <1>8, <1>9 DEF Next

(* What holds of every path and every run, without a condition.            *)
StructureInv == TypeOK /\ NumberInv /\ SplitInv /\ ChannelInv

(* It holds at first.                                                      *)
LEMMA StructureInit == ASSUME Init PROVE StructureInv /\ NeverGarbled
  <1>1. TypeOK /\ NumberInv BY TypeInit
  <1>2. Held = {} /\ ChannelInv BY DEF Init, Held, ChannelInv
  <1>3. InPlay = {}
    <2>1. net = {} BY DEF Init
    <2> QED BY <1>1, <1>2, <2>1, InitElements, InPlayPieces
  <1>4. splitPacketId >= StartId BY ConstantTypes DEF Init
  <1> QED BY <1>1, <1>2, <1>3, <1>4 DEF StructureInv, SplitInv, NeverGarbled, Init

(* Every step keeps it.                                                    *)
LEMMA StructureStep == ASSUME StructureInv, [Next]_vars PROVE StructureInv'
  <1>1. TypeOK /\ NumberInv /\ SplitInv /\ ChannelInv BY DEF StructureInv
  <1>2. TypeOK' BY <1>1, TypeStep
  <1>3. NumberInv' BY <1>1, NumberStep
  <1>4. SplitInv' BY <1>1, <1>2, SplitStep
  <1>5. ChannelInv' BY <1>1, ChannelStep
  <1> QED BY <1>2, <1>3, <1>4, <1>5 DEF StructureInv

(* One id stands for one splitting, and a channel of the receiver lacks a  *)
(* fragment as long as it is open: nothing stays in                        *)
(* splitPacketChannelList after its last fragment.                         *)
THEOREM StructureCorrect == Spec => [](SplitInv /\ ChannelInv)
  <1>1. Init => StructureInv BY StructureInit
  <1>2. StructureInv /\ [Next]_vars => StructureInv' BY StructureStep
  <1>3. StructureInv => SplitInv /\ ChannelInv BY DEF StructureInv
  <1> QED BY <1>1, <1>2, <1>3, PTL DEF Spec

(* No reassembled message mixes two splittings, as long as two that are in *)
(* play at the same time never share a 16-bit id.                          *)
THEOREM NeverGarbledAlways == Spec /\ []IdsApart => []NeverGarbled
  <1>1. Init => StructureInv /\ NeverGarbled BY StructureInit
  <1>2. StructureInv /\ NeverGarbled /\ IdsApart /\ [Next]_vars => (StructureInv /\ NeverGarbled)'
    BY StructureStep, GarbledStep DEF StructureInv
  <1> QED BY <1>1, <1>2, PTL DEF Spec

(* Ids of at most IdSpan splittings differ on the wire.                    *)
LEMMA FewSplitsApart == ASSUME StructureInv, FewSplits PROVE IdsApart
  <1> SUFFICES ASSUME NEW p \in InPlay, NEW q \in InPlay, p.count > 0, q.count > 0,
                      WireId(p.id) = WireId(q.id)
               PROVE  p.id = q.id
    BY DEF IdsApart
  <1>1. p \in Packets /\ q \in Packets BY InPlayPieces DEF StructureInv
  <1>2. p.id \in Nat /\ q.id \in Nat BY <1>1 DEF Packets
  <1>3. splitPacketId \in Nat /\ IdSpan \in Nat \ {0} /\ StartId \in Nat
    BY ConstantTypes DEF StructureInv, TypeOK
  <1>4. p.id >= StartId /\ p.id < splitPacketId /\ q.id >= StartId /\ q.id < splitPacketId
    BY DEF StructureInv, SplitInv
  <1>5. p.id - q.id > -IdSpan /\ p.id - q.id < IdSpan BY <1>2, <1>3, <1>4 DEF FewSplits
  <1>6. p.id % IdSpan = q.id % IdSpan BY DEF WireId
  <1>7. /\ p.id = (p.id \div IdSpan) * IdSpan + (p.id % IdSpan) /\ p.id \div IdSpan \in Int
        /\ q.id = (q.id \div IdSpan) * IdSpan + (q.id % IdSpan) /\ q.id \div IdSpan \in Int
    <2>1. p.id \in Int /\ q.id \in Int BY <1>2
    <2> QED BY <1>3, <2>1, ModDivision
  <1> DEFINE a == p.id \div IdSpan
             b == q.id \div IdSpan
  <1>8. p.id - q.id = (a - b) * IdSpan
    <2>1. p.id % IdSpan \in Int BY <1>2, <1>3
    <2> HIDE DEF a, b
    <2>2. p.id = a * IdSpan + (p.id % IdSpan) /\ q.id = b * IdSpan + (p.id % IdSpan) /\ a \in Int /\ b \in Int
      BY <1>6, <1>7 DEF a, b
    <2>3. (a - b) * IdSpan = a * IdSpan - b * IdSpan BY <1>3, <2>2
    <2>4. a * IdSpan \in Int /\ b * IdSpan \in Int BY <1>3, <2>2
    <2> QED BY <1>2, <2>1, <2>2, <2>3, <2>4
  <1>9. a \in Int /\ b \in Int BY <1>7
  <1> HIDE DEF a, b
  <1>10. a - b >= 1 => (a - b) * IdSpan >= IdSpan BY <1>3, <1>9
  <1>11. a - b <= -1 => (a - b) * IdSpan <= -IdSpan BY <1>3, <1>9
  <1>12. a = b BY <1>2, <1>3, <1>5, <1>8, <1>9, <1>10, <1>11
  <1>13. (a - b) * IdSpan = 0 BY <1>3, <1>9, <1>12
  <1> QED BY <1>2, <1>8, <1>13

(* The condition is met while at most 2^16 splittings were made.           *)
THEOREM NeverGarbledFewSplits == Spec /\ []FewSplits => []NeverGarbled
  <1>1. Init => StructureInv BY StructureInit
  <1>2. StructureInv /\ [Next]_vars => StructureInv' BY StructureStep
  <1>3. StructureInv /\ FewSplits => IdsApart BY FewSplitsApart
  <1> QED BY <1>1, <1>2, <1>3, NeverGarbledAlways, PTL DEF Spec

-----------------------------------------------------------------------------
(* What is acknowledged is not lost.                                       *)

(* A fragment that goes in is held or its message is delivered, and what   *)
(* was held stays so.                                                      *)
LEMMA InsertKeeps ==
  ASSUME TypeOK, SplitInv, ChannelInv, IdsApart, NeverGarbled,
         NEW p \in InPlay, p.count > 0, Insert(p)
  PROVE  /\ \A m \in Messages : delivered'[m] >= delivered[m]
         /\ \A q \in Held \cup {p} : q \in Held' \/ delivered'[q.message] > 0
  <1>1. channels \subseteq Channels /\ p \in Packets /\ delivered \in [Messages -> Nat]
    BY Types, InPlayPieces
  <1>2. UNCHANGED garbled BY InsertWhole
  <1>0. PICK old \in Channels, new \in Channels : Inserted(p, old, new) BY <1>1, InsertEffect
  <1>3.
           /\ \/ /\ old \in channels /\ old.id = WireId(p.id)
              \/ /\ \A c \in channels : c.id # WireId(p.id)
                 /\ old = [id |-> WireId(p.id), count |-> p.count, fragments |-> {}]
           /\ new = [old EXCEPT !.fragments = @ \cup {p}]
           /\ \/ /\ ~Fits(old, p)
                 /\ UNCHANGED <<channels, delivered, garbled>>
              \/ /\ Fits(old, p)
                 /\ \E i \in 0 .. new.count - 1 : \A q \in new.fragments : q.index # i
                 /\ channels' = {c \in channels : c.id # WireId(p.id)} \cup {new}
                 /\ UNCHANGED <<delivered, garbled>>
              \/ /\ Fits(old, p)
                 /\ \A i \in 0 .. new.count - 1 : \E q \in new.fragments : q.index = i
                 /\ channels' = {c \in channels : c.id # WireId(p.id)}
                 /\ \/ delivered' = [delivered EXCEPT ![p.message] = @ + 1] /\ UNCHANGED garbled
                    \/ /\ garbled' = TRUE /\ UNCHANGED delivered
                       /\ \A rung \in DOMAIN Ladder :
                            new.fragments # Elements(SplitPacket(p.message, p.id, rung))
    BY <1>0 DEF Inserted
  <1>4. new.fragments = old.fragments \cup {p} BY <1>3 DEF Channels
  <1>5. p.message \in Messages /\ p.id \in Nat /\ p.count \in Nat /\ p.index \in Nat BY <1>1 DEF Packets
  <1>6. CASE ~Fits(old, p) /\ UNCHANGED <<channels, delivered, garbled>>
    <2>1. old \in channels /\ old.id = WireId(p.id)
      <3>1. old = [id |-> WireId(p.id), count |-> p.count, fragments |-> {}] => Fits(old, p) BY DEF Fits
      <3> QED BY <1>3, <1>6, <3>1
    <2>2. PICK rung \in DOMAIN Ladder :
            /\ p \in Elements(SplitPacket(p.message, p.id, rung))
            /\ \A q \in old.fragments : q.id = p.id /\ q \in Elements(SplitPacket(p.message, p.id, rung))
      BY <2>1, SameSplitting
    <2>3. PICK h \in old.fragments : h.count = old.count
      BY <2>1 DEF ChannelInv
    <2>4. p.count = old.count BY <1>5, <2>2, <2>3, SplitParts
    <2>5. PICK q \in old.fragments : q.index = p.index BY <1>6, <2>4 DEF Fits
    <2>6. q = p BY <1>5, <2>2, <2>5, SplitParts
    <2>7. p \in Held BY <2>1, <2>5, <2>6 DEF Held
    <2>8. Held' = Held BY <1>6 DEF Held
    <2>9. \A m \in Messages : delivered'[m] >= delivered[m] BY <1>1, <1>6
    <2> QED BY <2>7, <2>8, <2>9
  <1>7. CASE /\ channels' = {c \in channels : c.id # WireId(p.id)} \cup {new}
             /\ UNCHANGED <<delivered, garbled>>
    <2>1. \A m \in Messages : delivered'[m] >= delivered[m] BY <1>1, <1>7
    <2>2. new \in channels' BY <1>7
    <2>3. p \in Held' BY <1>4, <2>2 DEF Held
    <2>4. ASSUME NEW c \in channels, NEW q \in c.fragments PROVE q \in Held'
      <3>1. CASE c.id # WireId(p.id)
        <4>1. c \in channels' BY <1>7, <3>1
        <4> QED BY <4>1 DEF Held
      <3>2. CASE c.id = WireId(p.id)
        <4>1. old \in channels /\ old.id = c.id BY <1>3, <3>2
        <4>2. c = old BY <4>1 DEF ChannelInv
        <4>3. q \in new.fragments BY <1>4, <4>2
        <4> QED BY <2>2, <4>3 DEF Held
      <3> QED BY <3>1, <3>2
    <2>5. \A q \in Held : q \in Held' BY <2>4 DEF Held
    <2> QED BY <2>1, <2>3, <2>5
  <1>8. CASE /\ channels' = {c \in channels : c.id # WireId(p.id)}
             /\ delivered' = [delivered EXCEPT ![p.message] = @ + 1]
    <2>1. \A m \in Messages : delivered'[m] >= delivered[m] BY <1>1, <1>5, <1>8
    <2>2. delivered'[p.message] > 0 BY <1>1, <1>5, <1>8
    <2>3. ASSUME NEW c \in channels, NEW q \in c.fragments PROVE q \in Held' \/ delivered'[q.message] > 0
      <3>1. CASE c.id # WireId(p.id)
        <4>1. c \in channels' BY <1>8, <3>1
        <4> QED BY <4>1 DEF Held
      <3>2. CASE c.id = WireId(p.id)
        <4>1. PICK rung \in DOMAIN Ladder : q \in Elements(SplitPacket(p.message, p.id, rung))
          BY <3>2, SameSplitting
        <4>2. q.message = p.message BY <1>5, <4>1, SplitParts
        <4> QED BY <2>2, <4>2
      <3> QED BY <3>1, <3>2
    <2>4. \A q \in Held : q \in Held' \/ delivered'[q.message] > 0 BY <2>3 DEF Held
    <2> QED BY <2>1, <2>2, <2>4
  <1>9. ~(garbled' = TRUE) BY <1>2 DEF NeverGarbled
  <1> QED BY <1>3, <1>6, <1>7, <1>8, <1>9

(* ReceivePacket keeps what it accepts and what was held.                  *)
LEMMA ReceiveKeeps ==
  ASSUME StructureInv, IdsApart, NeverGarbled, NEW x \in net, ReceivePacket(x)
  PROVE  /\ \A m \in Messages : delivered'[m] >= delivered[m]
         /\ \A q \in Held : q \in Held' \/ delivered'[q.message] > 0
         /\ \/ ~Accepted(x.number) /\ UNCHANGED receiverVars
            \/ /\ \A i \in Nat : Received(i)' <=> Received(i) \/ i = x.number
               /\ delivered'[x.packet.message] > 0 \/ (x.packet.count > 0 /\ x.packet \in Held')
  <1>1. TypeOK /\ NumberInv /\ SplitInv /\ ChannelInv BY DEF StructureInv
  <1>2. x.packet \in Packets /\ x.packet \in InPlay /\ delivered \in [Messages -> Nat]
    BY <1>1, Types, InPlayIn
  <1>3. CASE ~Accepted(x.number) /\ UNCHANGED receiverVars
    <2>1. UNCHANGED <<delivered, channels>> BY <1>3 DEF receiverVars
    <2>2. Held' = Held BY <2>1 DEF Held
    <2>3. \A m \in Messages : delivered'[m] >= delivered[m] BY <1>2, <2>1
    <2> QED BY <1>3, <2>2, <2>3
  <1>4. CASE /\ \A i \in Nat : Received(i)' <=> Received(i) \/ i = x.number
             /\ delivered' = [delivered EXCEPT ![x.packet.message] = @ + 1]
             /\ UNCHANGED <<channels, garbled>>
    <2>1. Held' = Held BY <1>4 DEF Held
    <2>2. x.packet.message \in Messages BY <1>2 DEF Packets
    <2>3. \A m \in Messages : delivered'[m] >= delivered[m] BY <1>2, <1>4, <2>2
    <2>4. delivered'[x.packet.message] > 0 BY <1>2, <1>4, <2>2
    <2> QED BY <1>4, <2>1, <2>3, <2>4
  <1>5. CASE /\ \A i \in Nat : Received(i)' <=> Received(i) \/ i = x.number
             /\ x.packet.count > 0 /\ Insert(x.packet)
    <2>1. /\ \A m \in Messages : delivered'[m] >= delivered[m]
          /\ \A q \in Held \cup {x.packet} : q \in Held' \/ delivered'[q.message] > 0
      BY <1>1, <1>2, <1>5, InsertKeeps
    <2> QED BY <1>5, <2>1
  <1> QED BY <1>1, <1>3, <1>4, <1>5, AcceptEffect

(* AckInv while the receiver does nothing and the resend list only loses.  *)
LEMMA AckShrinks ==
  ASSUME AckInv, UNCHANGED receiverVars, acks' \subseteq acks,
         \A s \in Elements(resendList') : \E r \in Elements(resendList) :
           s.number = r.number /\ s.packet = r.packet
  PROVE  AckInv'
  <1>1. UNCHANGED <<base, got, channels, delivered>> BY DEF receiverVars
  <1>2. Held' = Held /\ delivered' = delivered BY <1>1 DEF Held
  <1>3. \A n : Received(n)' <=> Received(n) BY <1>1 DEF Received
  <1>4. \A n \in acks' : Received(n)' BY <1>3 DEF AckInv
  <1>5. ASSUME NEW s \in Elements(resendList'), Received(s.number)'
        PROVE  delivered'[s.packet.message] > 0 \/ (s.packet.count > 0 /\ s.packet \in Held')
    <2>1. PICK r \in Elements(resendList) : s.number = r.number /\ s.packet = r.packet OBVIOUS
    <2>2. Received(r.number) BY <1>3, <1>5, <2>1
    <2>3. delivered[r.packet.message] > 0 \/ (r.packet.count > 0 /\ r.packet \in Held)
      BY <2>2 DEF AckInv
    <2> QED BY <1>2, <2>1, <2>3
  <1>6. Elements(resendList)' = Elements(resendList') BY DEF Elements
  <1> QED BY <1>4, <1>5, <1>6 DEF AckInv

(* Every step keeps AckInv.  HolesFew excludes the packet that is          *)
(* acknowledged and dropped.                                               *)
LEMMA AckStep ==
  ASSUME StructureInv, NeverGarbled, AckInv, IdsApart, HolesFew, [Next]_vars PROVE AckInv'
  <1> USE DEF queueVars, senderVars
  <1>0. TypeOK /\ NumberInv /\ SplitInv /\ ChannelInv BY DEF StructureInv
  <1>1. ASSUME UNCHANGED receiverVars, acks' \subseteq acks,
               Elements(resendList') \subseteq Elements(resendList)
        PROVE  AckInv'
    BY <1>1, AckShrinks
  <1>2. ASSUME UNCHANGED <<receiverVars, acks, resendList>> PROVE AckInv' BY <1>1, <1>2
  <1>3. ASSUME NEW m \in Messages, Send(m) PROVE AckInv' BY <1>2, <1>3 DEF Send
  <1>4. ASSUME UpdateBegin PROVE AckInv'
    <2>1. UNCHANGED <<receiverVars, acks>> BY <1>4 DEF UpdateBegin
    <2>2. CASE StepDownMtuAfterBlackHole /\ mtu < Len(Ladder)
      <3>1. Elements(resendList') = {r \in Elements(resendList) : ~Stale(r.packet, mtu + 1)}
        BY <1>0, <2>2, StepDownEffect
      <3>2. Elements(resendList') \subseteq Elements(resendList) BY <3>1
      <3> QED BY <1>1, <2>1, <3>2
    <2>3. CASE UNCHANGED resendList BY <1>2, <2>1, <2>3
    <2> QED BY <1>4, <2>2, <2>3 DEF UpdateBegin, ShouldStepDownMtu
  <1>5. ASSUME Resend PROVE AckInv'
    <2>1. PICK r \in Elements(resendList), s \in Resends :
            /\ s.number = r.number /\ s.packet = r.packet
            /\ Elements(resendList') \subseteq Elements(resendList) \cup {s}
      BY <1>0, <1>5, ResendEffect
    <2>2. UNCHANGED <<receiverVars, acks>> BY <1>5 DEF Resend
    <2> QED BY <2>1, <2>2, AckShrinks
  <1>6. ASSUME Transmit PROVE AckInv'
    <2>1. PICK r \in Resends :
            r.number = sendIndex /\ Elements(resendList') = Elements(resendList) \cup {r}
      BY <1>0, <1>6, TransmitEffect
    <2>2. UNCHANGED <<receiverVars, acks>> BY <1>6 DEF Transmit
    <2>3. UNCHANGED <<base, got, channels, delivered>> BY <2>2 DEF receiverVars
    <2>4. Held' = Held /\ delivered' = delivered BY <2>3 DEF Held
    <2>5. \A n : Received(n)' <=> Received(n) BY <2>3 DEF Received
    <2>6. ~Received(sendIndex)
      <3>1. base \in Nat /\ got \in SUBSET Nat /\ sendIndex \in Nat BY <1>0, Types
      <3>2. base <= sendIndex /\ \A n \in got : n < sendIndex BY <1>0 DEF NumberInv
      <3> QED BY <3>1, <3>2 DEF Received
    <2>7. \A n \in acks' : Received(n)' BY <2>2, <2>5 DEF AckInv
    <2>8. \A s \in Elements(resendList') : Received(s.number)' =>
            delivered'[s.packet.message] > 0 \/ (s.packet.count > 0 /\ s.packet \in Held')
      BY <2>1, <2>4, <2>5, <2>6 DEF AckInv
    <2>9. Elements(resendList)' = Elements(resendList') BY DEF Elements
    <2> QED BY <2>7, <2>8, <2>9 DEF AckInv
  <1>7. ASSUME UpdateEnd PROVE AckInv' BY <1>2, <1>7 DEF UpdateEnd
  <1>8. ASSUME NEW r \in Elements(resendList), Timeout(r) PROVE AckInv' BY <1>2, <1>8 DEF Timeout
  <1>9. ASSUME NEW n \in acks, ReceiveAck(n) PROVE AckInv'
    <2>1. Elements(resendList') \subseteq Elements(resendList) BY <1>0, <1>9, AckEffect
    <2>2. UNCHANGED receiverVars /\ acks' \subseteq acks BY <1>9 DEF ReceiveAck
    <2> QED BY <1>1, <2>1, <2>2
  <1>10. ASSUME NEW x \in net, ReceivePacket(x) PROVE AckInv'
    <2>1. acks' = acks \cup {x.number} /\ UNCHANGED resendList BY <1>10 DEF ReceivePacket
    <2>2. x.number \in Nat /\ acks \subseteq Nat /\ (\A r \in Elements(resendList) : r.number \in Nat)
      BY <1>0, Types
    <2>3. Elements(resendList)' = Elements(resendList) BY <2>1 DEF Elements
    <2>4. CASE ~Accepted(x.number) /\ UNCHANGED receiverVars
      <3>1. UNCHANGED <<base, got, channels, delivered>> BY <2>4 DEF receiverVars
      <3>2. Held' = Held /\ delivered' = delivered BY <3>1 DEF Held
      <3>3. \A n : Received(n)' <=> Received(n) BY <3>1 DEF Received
      <3>4. Received(x.number)
        <4>1. base \in Nat /\ sendIndex \in Nat /\ HoleLimit \in Nat BY <1>0, Types, ConstantTypes
        <4>2. <<x.number, x.packet>> \in Numbered BY NumberedIn
        <4>3. <<x.number, x.packet>>[1] < sendIndex BY <1>0, <4>2 DEF NumberInv
        <4>4. x.number < sendIndex BY <4>3
        <4>5. x.number - base <= HoleLimit BY <2>2, <4>1, <4>4 DEF HolesFew
        <4>6. ~(x.number >= base /\ x.number \notin got) BY <2>4, <4>5 DEF Accepted
        <4> QED BY <2>2, <4>1, <4>6 DEF Received
      <3> QED BY <2>1, <2>3, <3>2, <3>3, <3>4 DEF AckInv
    <2>5. CASE /\ \A i \in Nat : Received(i)' <=> Received(i) \/ i = x.number
               /\ delivered'[x.packet.message] > 0 \/ (x.packet.count > 0 /\ x.packet \in Held')
      <3>1. /\ \A m \in Messages : delivered'[m] >= delivered[m]
            /\ \A q \in Held : q \in Held' \/ delivered'[q.message] > 0
        BY <1>10, ReceiveKeeps
      <3>2. \A n \in acks' : Received(n)' BY <2>1, <2>2, <2>5 DEF AckInv
      <3>3. ASSUME NEW r \in Elements(resendList), Received(r.number)'
            PROVE  delivered'[r.packet.message] > 0 \/ (r.packet.count > 0 /\ r.packet \in Held')
        <4>1. CASE r.number = x.number
          <5>1. <<r.number, r.packet>> \in Numbered /\ <<x.number, x.packet>> \in Numbered BY NumberedIn
          <5>2. <<r.number, r.packet>>[1] = <<x.number, x.packet>>[1] BY <4>1
          <5>3. <<r.number, r.packet>>[2] = <<x.number, x.packet>>[2]
            BY <1>0, <5>1, <5>2 DEF NumberInv
          <5>4. r.packet = x.packet BY <5>3
          <5> QED BY <2>5, <5>4
        <4>2. CASE r.number # x.number
          <5>1. Received(r.number) BY <2>2, <2>5, <3>3, <4>2
          <5>2. delivered[r.packet.message] > 0 \/ (r.packet.count > 0 /\ r.packet \in Held)
            BY <5>1 DEF AckInv
          <5>3. r.packet.message \in Messages /\ delivered \in [Messages -> Nat]
            <6>1. r.packet \in Packets /\ delivered \in [Messages -> Nat] BY <1>0, Types
            <6> QED BY <6>1 DEF Packets
          <5>4. delivered' \in [Messages -> Nat]
            <6>1. TypeOK' BY <1>0, TypeStep
            <6> QED BY <6>1 DEF TypeOK
          <5>5. delivered[r.packet.message] > 0 => delivered'[r.packet.message] > 0
            BY <3>1, <5>3, <5>4
          <5> QED BY <3>1, <5>2, <5>5
        <4> QED BY <4>1, <4>2
      <3> QED BY <2>3, <3>2, <3>3 DEF AckInv
    <2> QED BY <1>10, <2>4, <2>5, ReceiveKeeps
  <1>11. ASSUME Lose PROVE AckInv'
    <2>1. acks' \subseteq acks /\ UNCHANGED receiverVars /\ UNCHANGED resendList BY <1>11 DEF Lose
    <2>2. Elements(resendList') = Elements(resendList) BY <2>1
    <2> QED BY <1>1, <2>1, <2>2
  <1>12. ASSUME UNCHANGED vars PROVE AckInv'
    <2>1. UNCHANGED <<receiverVars, acks, resendList>> BY <1>12 DEF vars
    <2> QED BY <1>2, <2>1
  <1> QED BY <1>3, <1>4, <1>5, <1>6, <1>7, <1>8, <1>9, <1>10, <1>11, <1>12 DEF Next, SenderLoop

-----------------------------------------------------------------------------
(* Every part the receiver lacks is still queued.                          *)

(* Two packets in play under one id are of one message and one count.      *)
LEMMA SameId ==
  ASSUME TypeOK, SplitInv, NEW p \in InPlay, NEW q \in InPlay,
         p.count > 0, q.count > 0, p.id = q.id
  PROVE  p.message = q.message /\ p.count = q.count
  <1>1. PICK rung \in DOMAIN Ladder : \A u \in InPlay :
          u.count > 0 /\ u.id = p.id => u \in Elements(SplitPacket(p.message, p.id, rung))
    BY DEF SplitInv
  <1>2. p \in Elements(SplitPacket(p.message, p.id, rung)) /\ q \in Elements(SplitPacket(p.message, p.id, rung))
    BY <1>1
  <1>3. p \in Packets BY InPlayPieces
  <1>4. p.message \in Messages /\ p.id \in Nat BY <1>3 DEF Packets
  <1> QED BY <1>2, <1>4, SplitParts

(* A complete splitting has a part the receiver does not hold: otherwise   *)
(* its channel would have been closed.                                     *)
LEMMA SomePartMissing ==
  ASSUME TypeOK, SplitInv, ChannelInv, NEW p \in Elements(Queued), p.count > 0, PartsKept(p)
  PROVE  \E q \in Elements(Queued) :
           q \notin Held /\ q.message = p.message /\ q.id = p.id /\ q.count = p.count
  <1>1. p \in InPlay /\ Elements(Queued) \subseteq InPlay /\ Held \subseteq InPlay BY DEF InPlay
  <1>2. CASE p \notin Held BY <1>2
  <1>3. CASE p \in Held
    <2>1. PICK c \in channels : p \in c.fragments BY <1>3 DEF Held
    <2>2. c.count = p.count /\ c.id = WireId(p.id) BY <2>1 DEF ChannelInv
    <2>3. PICK i \in 0 .. c.count - 1 : \A q \in c.fragments : q.index # i BY DEF ChannelInv
    <2>4. PICK q \in Elements(Queued) \cup Held :
            q.message = p.message /\ q.id = p.id /\ q.count = p.count /\ q.index = i
      BY <2>2, <2>3 DEF PartsKept
    <2>5. q \notin Held
      <3> SUFFICES ASSUME q \in Held PROVE FALSE OBVIOUS
      <3>1. PICK d \in channels : q \in d.fragments BY DEF Held
      <3>2. d.id = WireId(q.id) BY <3>1 DEF ChannelInv
      <3>3. d.id = c.id BY <2>2, <2>4, <3>2
      <3>4. d = c BY <3>3 DEF ChannelInv
      <3> QED BY <2>3, <2>4, <3>1, <3>4
    <2> QED BY <2>4, <2>5
  <1> QED BY <1>2, <1>3

(* Parts that stay queued or held.                                         *)
LEMMA PartsStay ==
  ASSUME NEW p, PartsKept(p), NEW u, u.message = p.message, u.id = p.id, u.count = p.count,
         \A q \in Elements(Queued) \cup Held :
           q.message = p.message /\ q.id = p.id /\ q.count = p.count => q \in (Elements(Queued) \cup Held)'
  PROVE  PartsKept(u)'
  BY DEF PartsKept

(* Nothing leaves the queues or the channels.                              *)
LEMMA CompleteGrows ==
  ASSUME CompleteInv, UNCHANGED <<sent, delivered>>,
         Elements(Queued) \subseteq Elements(Queued)', Held \subseteq Held'
  PROVE  CompleteInv'
  <1> SUFFICES ASSUME NEW m \in sent, delivered[m] = 0
               PROVE  \E p \in Elements(Queued)' : p.message = m /\ PartsKept(p)'
    BY DEF CompleteInv
  <1>1. PICK p \in Elements(Queued) : p.message = m /\ PartsKept(p) BY DEF CompleteInv
  <1>2. PartsKept(p)' BY <1>1, PartsStay
  <1> QED BY <1>1, <1>2

(* A splitting that is in the queue in one piece.                          *)
LEMMA WholeSplitting ==
  ASSUME NEW m \in Messages, NEW id \in Nat, NEW rung \in DOMAIN Ladder,
         Elements(SplitPacket(m, id, rung)) \subseteq Elements(Queued)'
  PROVE  \E p \in Elements(Queued)' : p.message = m /\ PartsKept(p)'
  <1> DEFINE S == Elements(SplitPacket(m, id, rung))
             n == SplitPacketCount(m, rung)
  <1>1. n \in Nat \ {0}
        /\ (\A q \in S : q.message = m /\ q.id = id /\ q.count = n)
        /\ \A i \in 0 .. n - 1 : \E q \in S : q.index = i
    BY SplitParts
  <1> HIDE DEF S, n
  <1>2. S \subseteq Elements(Queued)' BY DEF S
  <1>3. PICK p \in S : p.index = 0
    <2>1. 0 \in 0 .. n - 1 BY <1>1
    <2> QED BY <1>1, <2>1
  <1>4. ASSUME NEW i \in 0 .. p.count - 1
        PROVE  \E q \in (Elements(Queued) \cup Held)' :
                 q.message = p.message /\ q.id = p.id /\ q.count = p.count /\ q.index = i
    <2>1. i \in 0 .. n - 1 BY <1>1
    <2>2. PICK q \in S : q.index = i BY <1>1, <2>1
    <2>3. q.message = p.message /\ q.id = p.id /\ q.count = p.count BY <1>1
    <2>4. q \in (Elements(Queued) \cup Held)' BY <1>2
    <2> QED BY <2>2, <2>3, <2>4
  <1>5. PartsKept(p)' BY <1>4 DEF PartsKept
  <1> QED BY <1>1, <1>2, <1>5

(* A new message is queued with all its parts.                             *)
LEMMA CompleteSend ==
  ASSUME TypeOK, TypeOK', CompleteInv, NEW m \in Messages, Send(m) PROVE CompleteInv'
  <1>1. UNCHANGED <<channels, delivered, resendList>> /\ sent' = sent \cup {m}
    BY DEF Send, receiverVars
  <1>2. PICK new \in Seq(Packets) :
          /\ Elements(outgoing') = Elements(outgoing) \cup Elements(new)
          /\ \/ new = SplitPacket(m, splitPacketId, mtu)
             \/ new = Whole(m)
    BY SendEffect
  <1>3. Elements(Queued)' = Elements(Queued) \cup Elements(new)
    <2>1. Elements(resendList') = Elements(resendList) BY <1>1
    <2> QED BY <1>2, <2>1, InPlayPieces, InPlayPiecesNext
  <1>4. Held' = Held BY <1>1 DEF Held
  <1>5. ASSUME NEW u \in sent, delivered[u] = 0
        PROVE  \E p \in Elements(Queued)' : p.message = u /\ PartsKept(p)'
    <2>1. PICK p \in Elements(Queued) : p.message = u /\ PartsKept(p) BY <1>5 DEF CompleteInv
    <2>2. PartsKept(p)' BY <1>3, <1>4, <2>1, PartsStay
    <2> QED BY <1>3, <2>1, <2>2
  <1>6. \E p \in Elements(Queued)' : p.message = m /\ PartsKept(p)'
    <2>1. CASE new = SplitPacket(m, splitPacketId, mtu)
      <3>1. splitPacketId \in Nat /\ mtu \in DOMAIN Ladder BY Types
      <3>2. Elements(SplitPacket(m, splitPacketId, mtu)) \subseteq Elements(Queued)' BY <1>3, <2>1
      <3> QED BY <3>1, <3>2, WholeSplitting
    <2>2. CASE new = Whole(m)
      <3>1. PICK p \in Elements(new) : p.message = m /\ p.count = 0 BY <2>2, WholePart
      <3>2. 0 .. p.count - 1 = {} BY <3>1
      <3>3. PartsKept(p)' BY <3>2 DEF PartsKept
      <3> QED BY <1>3, <3>1, <3>3
    <2> QED BY <1>2, <2>1, <2>2
  <1> QED BY <1>1, <1>5, <1>6 DEF CompleteInv

(* A step-down removes either no part of a splitting or all of them, and   *)
(* then queues the message again.                                          *)
LEMMA CompleteStepDown ==
  ASSUME TypeOK, TypeOK', SplitInv, IdsApart, CompleteInv, mtu < Len(Ladder), StepDownMtuAfterBlackHole,
         UNCHANGED <<sent, delivered, channels>>
  PROVE  CompleteInv'
  <1>1. mtu + 1 \in DOMAIN Ladder BY RungBelow
  <1>2. /\ Elements(resendList') = {r \in Elements(resendList) : ~Stale(r.packet, mtu + 1)}
        /\ Elements(outgoing') = {p \in Elements(outgoing) : ~Stale(p, mtu + 1)} \cup ReSplit(mtu + 1)
    BY StepDownEffect
  <1>3. Held' = Held BY DEF Held
  <1>4. \A q \in Elements(Queued) : ~Stale(q, mtu + 1) => q \in Elements(Queued)'
    BY <1>2, InPlayPieces, InPlayPiecesNext
  <1>5. ReSplit(mtu + 1) \subseteq Elements(Queued)' BY <1>2, InPlayPiecesNext
  <1> SUFFICES ASSUME NEW m \in sent, delivered[m] = 0
               PROVE  \E p \in Elements(Queued)' : p.message = m /\ PartsKept(p)'
    BY DEF CompleteInv
  <1>6. PICK p \in Elements(Queued) : p.message = m /\ PartsKept(p) BY DEF CompleteInv
  <1>7. p \in InPlay /\ Elements(Queued) \subseteq InPlay BY DEF InPlay
  <1>8. CASE Stale(p, mtu + 1)
    <2>1. PICK o \in Elements(Queued), i \in DOMAIN Rebuilt(mtu + 1) :
            SameMessage(o, p) /\ Rebuilt(mtu + 1)[i] = o.message
      BY <1>1, <1>8, RebuiltMessages
    <2>2. o.message = m
      <3>1. CASE o.count > 0 /\ p.count > 0
        <4>1. WireId(o.id) = WireId(p.id) BY <2>1, <3>1 DEF SameMessage
        <4>2. o.id = p.id BY <1>7, <3>1, <4>1 DEF IdsApart
        <4> QED BY <1>6, <1>7, <3>1, <4>2, SameId
      <3>2. CASE ~(o.count > 0 /\ p.count > 0) BY <1>6, <2>1, <3>2 DEF SameMessage
      <3> QED BY <3>1, <3>2
    <2>3. Elements(SplitPacket(m, FreshId(i), mtu + 1)) \subseteq Elements(Queued)'
      <3>1. Rebuilt(mtu + 1)[i] = m BY <2>1, <2>2
      <3>2. Elements(SplitPacket(Rebuilt(mtu + 1)[i], FreshId(i), mtu + 1)) \subseteq ReSplit(mtu + 1)
        BY DEF ReSplit
      <3> QED BY <1>5, <3>1, <3>2
    <2>4. m \in Messages BY DEF TypeOK
    <2>5. FreshId(i) \in Nat
      <3>1. Rebuilt(mtu + 1) \in Seq(Messages) BY <1>1, RebuiltMessages
      <3>2. i \in Nat \ {0} BY <3>1
      <3>3. splitPacketId \in Nat BY Types
      <3> QED BY <3>2, <3>3 DEF FreshId
    <2> QED BY <1>1, <2>3, <2>4, <2>5, WholeSplitting
  <1>9. CASE ~Stale(p, mtu + 1)
    <2>1. ASSUME NEW q \in Elements(Queued), q.id = p.id, q.count = p.count, p.count > 0
          PROVE  q \in Elements(Queued)'
      <3>1. SameMessage(q, p) BY <2>1 DEF SameMessage
      <3>2. Stale(q, mtu + 1) => Stale(p, mtu + 1)
        BY <3>1, SameMessageTransitive DEF Stale
      <3> QED BY <1>4, <1>9, <3>2
    <2>2. p.count \in Nat
      <3>1. p \in Packets BY <1>7, InPlayPieces
      <3> QED BY <3>1 DEF Packets
    <2>3. CASE p.count = 0
      <3>1. 0 .. p.count - 1 = {} BY <2>3
      <3>2. PartsKept(p)' BY <3>1 DEF PartsKept
      <3> QED BY <1>4, <1>6, <1>9, <3>2
    <2>4. CASE p.count > 0
      <3>1. \A q \in Elements(Queued) \cup Held :
              q.message = p.message /\ q.id = p.id /\ q.count = p.count => q \in (Elements(Queued) \cup Held)'
        BY <1>3, <2>1, <2>4
      <3>2. PartsKept(p)' BY <1>6, <3>1, PartsStay
      <3> QED BY <1>4, <1>6, <1>9, <3>2
    <2> QED BY <2>2, <2>3, <2>4
  <1> QED BY <1>8, <1>9

(* An acknowledged part is held by the receiver.                           *)
LEMMA CompleteAck ==
  ASSUME TypeOK, TypeOK', SplitInv, ChannelInv, AckInv, CompleteInv, NEW n \in acks, ReceiveAck(n)
  PROVE  CompleteInv'
  <1>1. UNCHANGED <<sent, outgoing, channels, delivered>> BY DEF ReceiveAck, queueVars, receiverVars
  <1>2. Held' = Held BY <1>1 DEF Held
  <1>3. Elements(resendList') = {r \in Elements(resendList) : r.number # n} BY AckEffect
  <1>4. Received(n) BY DEF AckInv
  <1>5. ASSUME NEW q \in Elements(Queued), delivered[q.message] = 0, q.count = 0 \/ q \notin Held
        PROVE  q \in Elements(Queued)'
    <2>1. CASE q \in Elements(outgoing)
      <3>1. Elements(outgoing') = Elements(outgoing) BY <1>1
      <3> QED BY <2>1, <3>1, InPlayPiecesNext
    <2>2. CASE \E r \in Elements(resendList) : q = r.packet
      <3>1. PICK r \in Elements(resendList) : q = r.packet BY <2>2
      <3>2. r.number # n
        <4> SUFFICES ASSUME r.number = n PROVE FALSE OBVIOUS
        <4>1. delivered[q.message] > 0 \/ (q.count > 0 /\ q \in Held) BY <1>4, <3>1 DEF AckInv
        <4> QED BY <1>5, <4>1
      <3>3. r \in Elements(resendList') BY <1>3, <3>2
      <3> QED BY <3>1, <3>3, InPlayPiecesNext
    <2> QED BY <2>1, <2>2, InPlayPieces
  <1> SUFFICES ASSUME NEW m \in sent, delivered[m] = 0
               PROVE  \E p \in Elements(Queued)' : p.message = m /\ PartsKept(p)'
    BY <1>1 DEF CompleteInv
  <1>6. PICK p \in Elements(Queued) : p.message = m /\ PartsKept(p) BY DEF CompleteInv
  <1>7. p.count \in Nat
    <2>1. p \in InPlay BY DEF InPlay
    <2>2. p \in Packets BY <2>1, InPlayPieces
    <2> QED BY <2>2 DEF Packets
  <1>8. CASE p.count = 0
    <2>1. 0 .. p.count - 1 = {} BY <1>8
    <2>2. PartsKept(p)' BY <2>1 DEF PartsKept
    <2> QED BY <1>5, <1>6, <1>8, <2>2
  <1>9. CASE p.count > 0
    <2>1. PICK u \in Elements(Queued) :
            u \notin Held /\ u.message = p.message /\ u.id = p.id /\ u.count = p.count
      BY <1>6, <1>9, SomePartMissing
    <2>2. \A q \in Elements(Queued) \cup Held :
            q.message = p.message /\ q.id = p.id /\ q.count = p.count => q \in (Elements(Queued) \cup Held)'
      BY <1>2, <1>5, <1>6
    <2>3. PartsKept(u)' BY <1>6, <2>1, <2>2, PartsStay
    <2>4. u \in Elements(Queued)' BY <1>5, <1>6, <2>1
    <2> QED BY <1>6, <2>1, <2>3, <2>4
  <1> QED BY <1>7, <1>8, <1>9

(* A part that arrives stays queued until it is acknowledged.              *)
LEMMA CompleteReceive ==
  ASSUME StructureInv, TypeOK', IdsApart, NeverGarbled, CompleteInv, NEW x \in net, ReceivePacket(x)
  PROVE  CompleteInv'
  <1>1. UNCHANGED <<sent, outgoing, resendList>> BY DEF ReceivePacket, senderVars, queueVars
  <1>2. Elements(Queued)' = Elements(Queued)
    <2>1. UNCHANGED Queued BY <1>1 DEF Queued
    <2> QED BY <2>1 DEF Elements
  <1>3. /\ \A m \in Messages : delivered'[m] >= delivered[m]
        /\ \A q \in Held : q \in Held' \/ delivered'[q.message] > 0
    BY ReceiveKeeps
  <1>4. sent \subseteq Messages /\ delivered \in [Messages -> Nat] /\ delivered' \in [Messages -> Nat]
    BY DEF StructureInv, TypeOK
  <1> SUFFICES ASSUME NEW m \in sent, delivered'[m] = 0
               PROVE  \E p \in Elements(Queued)' : p.message = m /\ PartsKept(p)'
    BY <1>1 DEF CompleteInv
  <1>5. delivered[m] = 0 BY <1>3, <1>4
  <1>6. PICK p \in Elements(Queued) : p.message = m /\ PartsKept(p) BY <1>5 DEF CompleteInv
  <1>7. \A q \in Elements(Queued) \cup Held :
          q.message = p.message /\ q.id = p.id /\ q.count = p.count => q \in (Elements(Queued) \cup Held)'
    BY <1>2, <1>3, <1>6
  <1>8. PartsKept(p)' BY <1>6, <1>7, PartsStay
  <1> QED BY <1>2, <1>6, <1>8

(* Every step keeps CompleteInv.                                           *)
LEMMA CompleteStep ==
  ASSUME StructureInv, TypeOK', NeverGarbled, AckInv, CompleteInv, IdsApart, [Next]_vars
  PROVE  CompleteInv'
  <1> USE DEF queueVars, senderVars, receiverVars
  <1>0. TypeOK /\ NumberInv /\ SplitInv /\ ChannelInv BY DEF StructureInv
  <1>1. ASSUME UNCHANGED <<sent, delivered, channels>>,
               \A p \in Elements(outgoing) : p \in Elements(Queued)',
               \A r \in Elements(resendList) : r.packet \in Elements(Queued)'
        PROVE  CompleteInv'
    <2>1. Held \subseteq Held' BY <1>1 DEF Held
    <2>2. Elements(Queued) \subseteq Elements(Queued)' BY <1>0, <1>1, InPlayPieces
    <2> QED BY <1>1, <2>1, <2>2, CompleteGrows
  <1>2. ASSUME UNCHANGED <<sent, delivered, channels, outgoing, resendList>> PROVE CompleteInv'
    <2>1. Elements(Queued)' = Elements(Queued)
      <3>1. UNCHANGED Queued BY <1>2 DEF Queued
      <3> QED BY <3>1 DEF Elements
    <2>2. Held \subseteq Held' BY <1>2 DEF Held
    <2> QED BY <1>2, <2>1, <2>2, CompleteGrows
  <1>3. ASSUME NEW m \in Messages, Send(m) PROVE CompleteInv' BY <1>0, <1>3, CompleteSend
  <1>4. ASSUME UpdateBegin PROVE CompleteInv'
    <2>1. UNCHANGED <<sent, delivered, channels>> BY <1>4 DEF UpdateBegin
    <2>2. CASE StepDownMtuAfterBlackHole /\ mtu < Len(Ladder)
      BY <1>0, <2>1, <2>2, CompleteStepDown
    <2>3. CASE UNCHANGED <<outgoing, resendList>> BY <1>2, <2>1, <2>3
    <2> QED BY <1>4, <2>2, <2>3 DEF UpdateBegin, ShouldStepDownMtu
  <1>5. ASSUME Resend PROVE CompleteInv'
    <2>1. PICK r \in Elements(resendList), s \in Resends :
            /\ s.packet = r.packet
            /\ Elements(resendList) \subseteq Elements(resendList') \cup {r}
            /\ s \in Elements(resendList')
      BY <1>0, <1>5, ResendEffect
    <2>2. UNCHANGED <<sent, delivered, channels, outgoing>> BY <1>5 DEF Resend
    <2>3. \A p \in Elements(outgoing) : p \in Elements(Queued)'
      <3>1. Elements(outgoing') = Elements(outgoing) BY <2>2
      <3> QED BY <3>1, InPlayPiecesNext
    <2>4. \A t \in Elements(resendList) : t.packet \in Elements(Queued)'
      <3>1. \A t \in Elements(resendList') : t.packet \in Elements(Queued)' BY InPlayPiecesNext
      <3>2. r.packet \in Elements(Queued)' BY <2>1, <3>1
      <3> QED BY <2>1, <3>1, <3>2
    <2> QED BY <1>1, <2>2, <2>3, <2>4
  <1>6. ASSUME Transmit PROVE CompleteInv'
    <2>1. PICK p \in Packets, r \in Resends :
            /\ r.packet = p
            /\ Elements(outgoing) = {p} \cup Elements(outgoing')
            /\ Elements(resendList') = Elements(resendList) \cup {r}
      BY <1>0, <1>6, TransmitEffect
    <2>2. UNCHANGED <<sent, delivered, channels>> BY <1>6 DEF Transmit
    <2>3. \A t \in Elements(resendList') : t.packet \in Elements(Queued)' BY InPlayPiecesNext
    <2>4. p \in Elements(Queued)' BY <2>1, <2>3
    <2>5. \A q \in Elements(outgoing') : q \in Elements(Queued)' BY InPlayPiecesNext
    <2>6. \A q \in Elements(outgoing) : q \in Elements(Queued)' BY <2>1, <2>4, <2>5
    <2>7. \A t \in Elements(resendList) : t.packet \in Elements(Queued)' BY <2>1, <2>3
    <2> QED BY <1>1, <2>2, <2>6, <2>7
  <1>7. ASSUME UpdateEnd PROVE CompleteInv' BY <1>2, <1>7 DEF UpdateEnd
  <1>8. ASSUME NEW r \in Elements(resendList), Timeout(r) PROVE CompleteInv' BY <1>2, <1>8 DEF Timeout
  <1>9. ASSUME NEW n \in acks, ReceiveAck(n) PROVE CompleteInv' BY <1>0, <1>9, CompleteAck
  <1>10. ASSUME NEW x \in net, ReceivePacket(x) PROVE CompleteInv' BY <1>10, CompleteReceive
  <1>11. ASSUME Lose PROVE CompleteInv' BY <1>2, <1>11 DEF Lose
  <1>12. ASSUME UNCHANGED vars PROVE CompleteInv' BY <1>2, <1>12 DEF vars
  <1> QED BY <1>3, <1>4, <1>5, <1>6, <1>7, <1>8, <1>9, <1>10, <1>11, <1>12 DEF Next, SenderLoop

(* CompleteInv says more than NothingMissing.                              *)
LEMMA CompleteIsNothingMissing == ASSUME CompleteInv PROVE NothingMissing
  <1> SUFFICES ASSUME NEW m \in sent, delivered[m] = 0
               PROVE  \E p \in Elements(Queued) :
                        /\ p.message = m
                        /\ \A i \in 0 .. p.count - 1 :
                             \/ \E q \in Elements(Queued) : q.message = m /\ q.id = p.id /\ q.index = i
                             \/ \E c \in channels : \E q \in c.fragments :
                                  q.message = m /\ q.id = p.id /\ q.index = i
    BY DEF NothingMissing
  <1>1. PICK p \in Elements(Queued) : p.message = m /\ PartsKept(p) BY DEF CompleteInv
  <1>2. ASSUME NEW i \in 0 .. p.count - 1
        PROVE  \/ \E q \in Elements(Queued) : q.message = m /\ q.id = p.id /\ q.index = i
               \/ \E c \in channels : \E q \in c.fragments : q.message = m /\ q.id = p.id /\ q.index = i
    <2>1. PICK q \in Elements(Queued) \cup Held : q.message = m /\ q.id = p.id /\ q.index = i
      BY <1>1 DEF PartsKept
    <2> QED BY <2>1 DEF Held
  <1> QED BY <1>1, <1>2

(* Everything the proof of NothingMissing carries along.                   *)
TransferInv == StructureInv /\ NeverGarbled /\ AckInv /\ CompleteInv

(* It holds at first.                                                      *)
LEMMA TransferInit == ASSUME Init PROVE TransferInv
  <1>1. StructureInv /\ NeverGarbled BY StructureInit
  <1>2. AckInv BY InitElements DEF AckInv, Init
  <1>3. CompleteInv BY DEF CompleteInv, Init
  <1> QED BY <1>1, <1>2, <1>3 DEF TransferInv

(* Every step keeps it under the two conditions.                           *)
LEMMA TransferStep ==
  ASSUME TransferInv, IdsApart, HolesFew, [Next]_vars PROVE TransferInv'
  <1>1. StructureInv /\ NeverGarbled /\ AckInv /\ CompleteInv BY DEF TransferInv
  <1>2. StructureInv' /\ TypeOK' BY <1>1, StructureStep DEF StructureInv
  <1>3. NeverGarbled' BY <1>1, GarbledStep DEF StructureInv
  <1>4. AckInv' BY <1>1, AckStep
  <1>5. CompleteInv' BY <1>1, <1>2, CompleteStep
  <1> QED BY <1>2, <1>3, <1>4, <1>5 DEF TransferInv

(* No part of an undelivered message is lost: across losses, resends,      *)
(* acknowledgements and step-downs the sender keeps what the receiver      *)
(* lacks.  The conditions are the two the code does not enforce itself:    *)
(* the ids in play differ on the wire, and no number lies more than        *)
(* HoleLimit ahead of base, where the receiver acknowledges and drops it.  *)
THEOREM NothingMissingAlways == Spec /\ []IdsApart /\ []HolesFew => []NothingMissing
  <1>1. Init => TransferInv BY TransferInit
  <1>2. TransferInv /\ IdsApart /\ HolesFew /\ [Next]_vars => TransferInv' BY TransferStep
  <1>3. TransferInv => NothingMissing BY CompleteIsNothingMissing DEF TransferInv
  <1> QED BY <1>1, <1>2, <1>3, PTL DEF Spec

-----------------------------------------------------------------------------
(* Queues without repetition.                                              *)

Distinct(s) == \A i, j \in DOMAIN s : s[i] = s[j] => i = j

(* Two such queues that share nothing, one after the other.                *)
LEMMA ConcatDistinct ==
  ASSUME NEW T, NEW s \in Seq(T), NEW t \in Seq(T), Distinct(s), Distinct(t),
         Elements(s) \cap Elements(t) = {}
  PROVE  Distinct(s \o t)
  <1>1. Len(s) \in Nat /\ Len(t) \in Nat /\ DOMAIN s = 1 .. Len(s) /\ DOMAIN t = 1 .. Len(t)
        /\ DOMAIN (s \o t) = 1 .. Len(s) + Len(t)
    OBVIOUS
  <1> DEFINE n == Len(s)
             c == s \o t
  <1>2. \A i \in DOMAIN c : IF i <= n THEN i \in DOMAIN s /\ c[i] = s[i]
                            ELSE i - n \in DOMAIN t /\ c[i] = t[i - n]
    BY <1>1
  <1>3. DOMAIN c \in SUBSET Nat /\ n \in Nat BY <1>1
  <1> HIDE DEF n, c
  <1>4. \A i \in DOMAIN s : s[i] \in Elements(s) BY DEF Elements
  <1>5. \A i \in DOMAIN t : t[i] \in Elements(t) BY DEF Elements
  <1>6. ASSUME NEW i \in DOMAIN c, NEW j \in DOMAIN c, c[i] = c[j] PROVE i = j
    <2>1. i \in Nat /\ j \in Nat BY <1>3
    <2>2. CASE i <= n /\ j <= n BY <1>2, <1>6, <2>2 DEF Distinct
    <2>3. CASE ~(i <= n) /\ ~(j <= n)
      <3>1. i - n = j - n BY <1>2, <1>6, <2>3 DEF Distinct
      <3> QED BY <1>3, <2>1, <3>1
    <2>4. CASE i <= n /\ ~(j <= n) BY <1>2, <1>4, <1>5, <1>6, <2>4
    <2>5. CASE ~(i <= n) /\ j <= n BY <1>2, <1>4, <1>5, <1>6, <2>5
    <2> QED BY <2>2, <2>3, <2>4, <2>5
  <1> QED BY <1>6 DEF Distinct, c

(* What is left of such a queue does not hold its head.                    *)
LEMMA TailDistinct ==
  ASSUME NEW T, NEW s \in Seq(T), s # <<>>, Distinct(s)
  PROVE  Distinct(Tail(s)) /\ Head(s) \notin Elements(Tail(s))
  <1>1. Len(s) \in Nat \ {0} /\ DOMAIN s = 1 .. Len(s) /\ DOMAIN Tail(s) = 1 .. Len(s) - 1
        /\ Head(s) = s[1]
    OBVIOUS
  <1>2. \A i \in DOMAIN Tail(s) : i + 1 \in DOMAIN s /\ Tail(s)[i] = s[i + 1] BY <1>1
  <1>3. 1 \in DOMAIN s /\ DOMAIN Tail(s) \in SUBSET (Nat \ {0}) BY <1>1
  <1> DEFINE t == Tail(s)
  <1> HIDE DEF t
  <1>4. ASSUME NEW i \in DOMAIN t, NEW j \in DOMAIN t, t[i] = t[j] PROVE i = j
    <2>1. i + 1 = j + 1 BY <1>2, <1>4 DEF Distinct, t
    <2>2. i \in Nat /\ j \in Nat BY <1>3 DEF t
    <2> QED BY <2>1, <2>2
  <1>5. ASSUME NEW i \in DOMAIN t, t[i] = s[1] PROVE FALSE
    <2>1. i + 1 = 1 BY <1>2, <1>3, <1>5 DEF Distinct, t
    <2>2. i \in Nat \ {0} BY <1>3 DEF t
    <2> QED BY <2>1, <2>2
  <1>6. s[1] \notin Elements(t) BY <1>5 DEF Elements
  <1> QED BY <1>1, <1>4, <1>6 DEF Distinct, t

(* Sequences without repetition that share nothing, strung together.       *)
LEMMA FlattenDistinct ==
  ASSUME NEW T, NEW ss \in Seq(Seq(T)), \A i \in DOMAIN ss : Distinct(ss[i]),
         \A i, j \in DOMAIN ss : i # j => Elements(ss[i]) \cap Elements(ss[j]) = {}
  PROVE  Distinct(FlattenSeq(ss))
  <1>0. Len(ss) \in Nat /\ DOMAIN ss = 1 .. Len(ss) /\ \A i \in 1 .. Len(ss) : ss[i] \in Seq(T)
    OBVIOUS
  <1>1. CASE Len(ss) = 0
    <2>1. ss = <<>> /\ DOMAIN ss = {} BY <1>1
    <2>2. FlattenSeq(ss) = ss BY <1>1 DEF FlattenSeq
    <2> QED BY <2>1, <2>2 DEF Distinct
  <1>2. CASE Len(ss) # 0
    <2> DEFINE fl == CHOOSE f : f = [i \in 1 .. Len(ss) |-> IF i = 1 THEN ss[i] ELSE f[i - 1] \o ss[i]]
    <2>1. FlattenSeq(ss) = fl[Len(ss)] BY <1>2 DEF FlattenSeq
    <2>2. Flattens(fl, ss, Len(ss)) BY <1>0, FlattensExists, Zenon DEF Flattens
    <2> HIDE DEF fl
    <2>3. \A n \in 1 .. Len(ss) :
            fl[n] \in Seq(T) /\ Elements(fl[n]) = UNION {Elements(ss[i]) : i \in 1 .. n}
      <3>1. \A f : Flattens(f, ss, Len(ss)) => \A n \in 1 .. Len(ss) :
              f[n] \in Seq(T) /\ Elements(f[n]) = UNION {Elements(ss[i]) : i \in 1 .. n}
        BY FlattensElements, Zenon
      <3> QED BY <2>2, <3>1, Zenon
    <2>4. \A n \in 1 .. Len(ss) : fl[n] = IF n = 1 THEN ss[n] ELSE fl[n - 1] \o ss[n]
      BY <2>2, Zenon DEF Flattens
    <2> DEFINE S == {n \in Nat : n + 1 \in 1 .. Len(ss) => Distinct(fl[n + 1])}
    <2>5. 0 \in S
      <3>1. 1 \in 1 .. Len(ss) BY <1>0, <1>2
      <3>2. fl[1] = ss[1] /\ Distinct(ss[1]) BY <1>0, <2>4, <3>1
      <3>3. Distinct(fl[1]) BY <3>2
      <3>4. 0 + 1 = 1 OBVIOUS
      <3> QED BY <3>3, <3>4
    <2>6. ASSUME NEW n \in Nat, n \in S PROVE n + 1 \in S
      <3> DEFINE k == n + 1
      <3> SUFFICES ASSUME k + 1 \in 1 .. Len(ss) PROVE Distinct(fl[k + 1]) OBVIOUS
      <3>1. k \in 1 .. Len(ss) /\ k \in Nat BY <1>0
      <3>2. Distinct(fl[k]) BY <2>6, <3>1
      <3> HIDE DEF k
      <3>3. (k + 1) - 1 = k /\ k + 1 # 1 BY <3>1
      <3>4. fl[k + 1] = fl[k] \o ss[k + 1] BY <2>4, <3>3
      <3>5. fl[k] \in Seq(T) /\ ss[k + 1] \in Seq(T) /\ Distinct(ss[k + 1])
        BY <1>0, <2>3, <3>1
      <3>6. Elements(fl[k]) \cap Elements(ss[k + 1]) = {}
        <4>1. \A i \in 1 .. k : i \in DOMAIN ss /\ i # k + 1 BY <1>0, <3>1
        <4>2. \A i \in 1 .. k : Elements(ss[i]) \cap Elements(ss[k + 1]) = {}
          BY <1>0, <4>1, Zenon
        <4>3. Elements(fl[k]) = UNION {Elements(ss[i]) : i \in 1 .. k} BY <2>3, <3>1
        <4> QED BY <4>2, <4>3
      <3>7. Distinct(fl[k] \o ss[k + 1]) BY <3>2, <3>5, <3>6, ConcatDistinct
      <3> QED BY <3>4, <3>7
    <2> HIDE DEF S
    <2>7. Nat \subseteq S BY <2>5, <2>6, Induction, Zenon
    <2>8. Len(ss) - 1 \in S /\ (Len(ss) - 1) + 1 = Len(ss) /\ Len(ss) \in 1 .. Len(ss)
      BY <1>0, <1>2, <2>7
    <2>9. Distinct(fl[Len(ss)]) BY <2>8, Zenon DEF S
    <2> QED BY <2>1, <2>9
  <1> QED BY <1>1, <1>2

(* Only takes no place twice.                                              *)
LEMMA OnlyDistinct ==
  ASSUME NEW T, NEW s \in Seq(T), NEW S \in SUBSET (DOMAIN s), \A i, j \in S : s[i] = s[j] => i = j
  PROVE  Distinct(Only(s, S))
  <1> DEFINE ss == [i \in DOMAIN s |-> IF i \in S THEN <<s[i]>> ELSE <<>>]
  <1>0. Len(s) \in Nat /\ DOMAIN s = 1 .. Len(s) /\ \A i \in DOMAIN s : s[i] \in T OBVIOUS
  <1>1. \A i \in DOMAIN s : ss[i] \in Seq(T) BY <1>0
  <1>2. ss \in Seq(Seq(T)) /\ DOMAIN ss = DOMAIN s BY <1>0, <1>1
  <1>3. \A i \in DOMAIN s : Distinct(ss[i])
    <2> TAKE i \in DOMAIN s
    <2>1. ss[i] = <<s[i]>> \/ ss[i] = <<>> OBVIOUS
    <2>2. DOMAIN <<s[i]>> = {1} /\ DOMAIN <<>> = {} OBVIOUS
    <2> QED BY <2>1, <2>2 DEF Distinct
  <1>4. \A i \in DOMAIN s : \A v \in Elements(ss[i]) : i \in S /\ v = s[i]
    <2> TAKE i \in DOMAIN s
    <2>1. (i \in S /\ ss[i] = <<s[i]>>) \/ ss[i] = <<>> OBVIOUS
    <2>2. DOMAIN <<s[i]>> = {1} /\ <<s[i]>>[1] = s[i] /\ DOMAIN <<>> = {} OBVIOUS
    <2> HIDE DEF ss
    <2> QED BY <2>1, <2>2 DEF Elements
  <1>5. Only(s, S) = FlattenSeq(ss) BY DEF Only
  <1> HIDE DEF ss
  <1>6. ASSUME NEW i \in DOMAIN ss, NEW j \in DOMAIN ss, i # j
        PROVE  Elements(ss[i]) \cap Elements(ss[j]) = {}
    BY <1>2, <1>4, <1>6
  <1>7. \A i \in DOMAIN ss : Distinct(ss[i]) BY <1>2, <1>3
  <1> QED BY <1>2, <1>5, <1>6, <1>7, FlattenDistinct
-----------------------------------------------------------------------------
(* How often a message comes out.                                          *)

(* The packets the receiver has yet to accept, and the splittings of m     *)
(* they belong to: each may still come out once.                           *)
Awaited == Elements(outgoing) \cup {a[2] : a \in {b \in Numbered : ~Received(b[1])}}
Copies(m) == {<<p.id, p.count>> : p \in {q \in Awaited : q.message = m}}

(* A packet is queued once or has one number, and what the receiver holds  *)
(* will not be accepted again.                                             *)
OnceInv ==
  /\ Distinct(outgoing)
  /\ \A a, b \in Numbered : a[2] = b[2] => a[1] = b[1]
  /\ \A a \in Numbered : a[2] \notin Elements(outgoing)
  /\ \A p \in Held : p \notin Awaited

(* The queues hold one splitting of a message at a time.                   *)
StageInv ==
  /\ \A p \in InPlay : p.message \in sent
  /\ \A p \in InPlay : p.count = 0 => p \in Elements(Whole(p.message))
  /\ \A p, q \in Elements(Queued) : p.message = q.message => p.id = q.id /\ p.count = q.count

(* A message came out, and may still come out, at most once for each rung  *)
(* of the ladder used so far; the same for its receipts.                   *)
CountInv ==
  \A m \in Messages :
    /\ IsFiniteSet(Copies(m)) /\ delivered[m] + Cardinality(Copies(m)) <= mtu
    /\ receipts[m] <= mtu
    /\ (\E p \in Elements(Queued) : p.message = m /\ EarnsReceipt(p)) => receipts[m] + 1 <= mtu
    /\ m \notin sent => delivered[m] = 0 /\ receipts[m] = 0

(* A splitting has no fragment twice, nor has an unsplit message.          *)
LEMMA NewDistinct ==
  ASSUME NEW m \in Messages, NEW id \in Nat, NEW rung \in DOMAIN Ladder
  PROVE  Distinct(SplitPacket(m, id, rung)) /\ Distinct(Whole(m))
  <1> DEFINE n == SplitPacketCount(m, rung)
             b == Ladder[rung]
             P(i) == [message |-> m, id |-> id, index |-> i - 1, count |-> n,
                      size |-> IF i < n THEN b ELSE Size[m] - (n - 1) * b]
  <1>1. n \in Nat \ {0} BY SplitParts
  <1>2. SplitPacket(m, id, rung) = [i \in 1 .. n |-> P(i)] BY DEF SplitPacket
  <1> HIDE DEF n
  <1>3. \A i, j \in 1 .. n : P(i) = P(j) => i = j
    <2> SUFFICES ASSUME NEW i \in 1 .. n, NEW j \in 1 .. n, P(i) = P(j) PROVE i = j OBVIOUS
    <2>1. P(i).index = i - 1 /\ P(j).index = j - 1 OBVIOUS
    <2> HIDE DEF P
    <2> QED BY <1>1, <2>1
  <1>4. Distinct(SplitPacket(m, id, rung)) BY <1>2, <1>3 DEF Distinct
  <1>5. DOMAIN Whole(m) = {1} BY DEF Whole
  <1> QED BY <1>4, <1>5 DEF Distinct

(* Two unsplit packets of a message are the same.                          *)
LEMMA WholeUnique ==
  ASSUME NEW m \in Messages, NEW p \in Elements(Whole(m)), NEW q \in Elements(Whole(m))
  PROVE  p = q /\ p.id = 0
  <1>1. DOMAIN Whole(m) = {1} /\ Whole(m)[1].id = 0 BY DEF Whole
  <1> QED BY <1>1 DEF Elements

(* Queued packets of one message are of one kind for the step-down.        *)
LEMMA SameStage ==
  ASSUME TypeOK, StageInv, NEW p \in Elements(Queued), NEW q \in Elements(Queued),
         p.message = q.message
  PROVE  SameMessage(p, q)
  <1>1. p \in InPlay /\ q \in InPlay BY DEF InPlay
  <1>2. p \in Packets /\ q \in Packets BY <1>1, InPlayPieces
  <1>3. p.id = q.id /\ p.count = q.count BY DEF StageInv
  <1>4. p.count \in Nat /\ p.message \in Messages BY <1>2 DEF Packets
  <1>5. CASE p.count > 0 BY <1>3, <1>5 DEF SameMessage
  <1>6. CASE p.count = 0
    <2>1. p \in Elements(Whole(p.message)) /\ q \in Elements(Whole(p.message))
      BY <1>1, <1>3, <1>6 DEF StageInv
    <2>2. p = q BY <1>4, <2>1, WholeUnique
    <2>3. ~(p.count > 0) BY <1>6
    <2> QED BY <2>2, <2>3 DEF SameMessage
  <1> QED BY <1>4, <1>5, <1>6

(* The step-down rebuilds a message once, and only one with a packet in    *)
(* the queues that is taken out.                                           *)
LEMMA RebuiltOnce ==
  ASSUME TypeOK, StageInv, NEW rung \in DOMAIN Ladder
  PROVE  /\ \A i, j \in DOMAIN Rebuilt(rung) : Rebuilt(rung)[i] = Rebuilt(rung)[j] => i = j
         /\ \A i \in DOMAIN Rebuilt(rung) : \E p \in Elements(Queued) :
              p.message = Rebuilt(rung)[i] /\ Oversized(p, rung)
  <1> DEFINE S == FirstOversized(rung)
             marked == Only(Queued, S)
  <1>1. Queued \in Seq(Packets) BY QueuedElements
  <1>2. S \in SUBSET (DOMAIN Queued) /\ DOMAIN Queued \in SUBSET Nat
    BY <1>1 DEF FirstOversized
  <1>3. \A i \in S : Queued[i] \in Elements(Queued) /\ Oversized(Queued[i], rung)
    BY DEF FirstOversized, Elements
  <1>4. ASSUME NEW i \in S, NEW j \in S, Queued[i].message = Queued[j].message PROVE i = j
    <2>1. SameMessage(Queued[i], Queued[j]) /\ SameMessage(Queued[j], Queued[i])
      BY <1>3, <1>4, SameStage
    <2>2. i \in Nat /\ j \in Nat /\ i \in DOMAIN Queued /\ j \in DOMAIN Queued BY <1>2
    <2>3. DOMAIN Queued = 1 .. Len(Queued) BY <1>1
    <2>4. ~(i < j)
      <3>1. i < j => i \in 1 .. j - 1 BY <2>2, <2>3
      <3> QED BY <1>3, <2>1, <3>1 DEF FirstOversized
    <2>5. ~(j < i)
      <3>1. j < i => j \in 1 .. i - 1 BY <2>2, <2>3
      <3> QED BY <1>3, <2>1, <3>1 DEF FirstOversized
    <2> QED BY <2>2, <2>4, <2>5
  <1>5. marked \in Seq(Packets) /\ Elements(marked) = {Queued[i] : i \in S}
    <2> HIDE DEF S
    <2> QED BY <1>1, <1>2, OnlyElements
  <1>6. Distinct(marked)
    <2>1. \A i, j \in S : Queued[i] = Queued[j] => i = j BY <1>4
    <2> HIDE DEF S
    <2> QED BY <1>1, <1>2, <2>1, OnlyDistinct
  <1>7. Rebuilt(rung) = [i \in DOMAIN marked |-> marked[i].message] BY DEF Rebuilt
  <1> HIDE DEF marked, S
  <1>8. \A i \in DOMAIN marked : \E k \in S : marked[i] = Queued[k] BY <1>5, Zenon DEF Elements
  <1>9. ASSUME NEW i \in DOMAIN marked, NEW j \in DOMAIN marked,
               marked[i].message = marked[j].message
        PROVE  i = j
    <2>1. PICK k \in S : marked[i] = Queued[k] BY <1>8
    <2>2. PICK l \in S : marked[j] = Queued[l] BY <1>8
    <2>3. k = l BY <1>4, <1>9, <2>1, <2>2
    <2> QED BY <1>6, <2>1, <2>2, <2>3 DEF Distinct
  <1>10. ASSUME NEW i \in DOMAIN marked
         PROVE  \E p \in Elements(Queued) : p.message = marked[i].message /\ Oversized(p, rung)
    BY <1>3, <1>8
  <1> QED BY <1>7, <1>9, <1>10

(* What is awaited in the next state.                                      *)
LEMMA AwaitedNext ==
  ASSUME NEW S, \A p \in Elements(outgoing') : p \in S,
         \A a \in Numbered' : ~Received(a[1])' => a[2] \in S
  PROVE  Awaited' \subseteq S
  <1>1. Elements(outgoing)' = Elements(outgoing') BY DEF Elements
  <1>2. Awaited' = Elements(outgoing)' \cup {a[2] : a \in {b \in Numbered' : ~Received(b[1])'}}
    BY DEF Awaited
  <1>3. {a[2] : a \in {b \in Numbered' : ~Received(b[1])'}} \subseteq S OBVIOUS
  <1> QED BY <1>1, <1>2, <1>3

(* Awaited packets are in play.                                            *)
LEMMA AwaitedInPlay ==
  ASSUME TypeOK
  PROVE  /\ Awaited \subseteq InPlay
         /\ \A a \in Numbered : a[1] \in Nat /\ a[2] \in InPlay
         /\ \A a \in Numbered : ~Received(a[1]) => a[2] \in Awaited
         /\ Elements(outgoing) \subseteq Awaited
  <1>1. \A r \in Elements(resendList) : r.packet \in InPlay BY InPlayIn
  <1>2. \A x \in net : x.packet \in InPlay BY InPlayIn
  <1>3. \A p \in Elements(outgoing) : p \in InPlay BY InPlayIn
  <1>4. \A a \in Numbered : a[1] \in Nat /\ a[2] \in InPlay BY <1>1, <1>2, Types DEF Numbered
  <1> QED BY <1>3, <1>4 DEF Awaited

(* Fewer splittings are awaited.                                           *)
LEMMA CopiesFewer ==
  ASSUME NEW m, IsFiniteSet(Copies(m)), Awaited' \subseteq Awaited
  PROVE  /\ IsFiniteSet(Copies(m)') /\ Copies(m)' \subseteq Copies(m)
         /\ Cardinality(Copies(m)') <= Cardinality(Copies(m))
         /\ Cardinality(Copies(m)) \in Nat /\ Cardinality(Copies(m)') \in Nat
  <1>1. Copies(m)' = {<<p.id, p.count>> : p \in {q \in Awaited' : q.message = m}} BY DEF Copies
  <1>2. Copies(m)' \subseteq Copies(m) BY <1>1 DEF Copies
  <1>3. IsFiniteSet(Copies(m)') /\ Cardinality(Copies(m)') <= Cardinality(Copies(m))
    BY <1>2, FS_Subset
  <1> QED BY <1>2, <1>3, FS_CardinalityType

(* Nothing is queued, numbered or held anew.                               *)
LEMMA OnceKept ==
  ASSUME OnceInv, UNCHANGED <<outgoing, base, got>>, Numbered' \subseteq Numbered, Held' \subseteq Held
  PROVE  OnceInv' /\ Awaited' \subseteq Awaited
  <1>1. \A n : Received(n)' <=> Received(n) BY DEF Received
  <1>2. Elements(outgoing') = Elements(outgoing) /\ Elements(outgoing)' = Elements(outgoing)
    BY DEF Elements
  <1>3. Awaited' \subseteq Awaited
    <2>1. \A p \in Elements(outgoing') : p \in Awaited BY <1>2 DEF Awaited
    <2>2. \A a \in Numbered' : ~Received(a[1])' => a[2] \in Awaited BY <1>1 DEF Awaited
    <2> QED BY <2>1, <2>2, AwaitedNext
  <1>4. Distinct(outgoing)' BY DEF OnceInv, Distinct
  <1>5. /\ \A a, b \in Numbered' : a[2] = b[2] => a[1] = b[1]
        /\ \A a \in Numbered' : a[2] \notin Elements(outgoing)'
        /\ \A p \in Held' : p \notin Awaited'
    BY <1>2, <1>3 DEF OnceInv
  <1> QED BY <1>3, <1>4, <1>5 DEF OnceInv

(* Nothing comes into play.                                                *)
LEMMA StageKept ==
  ASSUME StageInv, sent \subseteq sent', InPlay' \subseteq InPlay,
         Elements(Queued)' \subseteq Elements(Queued)
  PROVE  StageInv'
  <1>1. \A m : Elements(Whole(m))' = Elements(Whole(m)) BY DEF Elements, Whole
  <1>2. /\ \A p \in InPlay' : p.message \in sent'
        /\ \A p \in InPlay' : p.count = 0 => p \in Elements(Whole(p.message))
        /\ \A p, q \in Elements(Queued)' : p.message = q.message => p.id = q.id /\ p.count = q.count
    BY DEF StageInv
  <1> QED BY <1>1, <1>2 DEF StageInv

(* Nothing comes out.                                                      *)
LEMMA CountKept ==
  ASSUME TypeOK, CountInv, UNCHANGED <<sent, delivered, receipts, mtu>>, Awaited' \subseteq Awaited,
         Elements(Queued)' \subseteq Elements(Queued)
  PROVE  CountInv'
  <1>1. delivered \in [Messages -> Nat] /\ mtu \in Nat BY ConstantTypes DEF TypeOK
  <1> SUFFICES ASSUME NEW m \in Messages
               PROVE  /\ IsFiniteSet(Copies(m)') /\ delivered'[m] + Cardinality(Copies(m)') <= mtu'
                      /\ receipts'[m] <= mtu'
                      /\ (\E p \in Elements(Queued)' : p.message = m /\ EarnsReceipt(p))
                           => receipts'[m] + 1 <= mtu'
                      /\ m \notin sent' => delivered'[m] = 0 /\ receipts'[m] = 0
    BY DEF CountInv, EarnsReceipt
  <1>2. /\ IsFiniteSet(Copies(m)) /\ delivered[m] + Cardinality(Copies(m)) <= mtu
        /\ receipts[m] <= mtu
        /\ (\E p \in Elements(Queued) : p.message = m /\ EarnsReceipt(p)) => receipts[m] + 1 <= mtu
        /\ m \notin sent => delivered[m] = 0 /\ receipts[m] = 0
    BY DEF CountInv
  <1>3. /\ IsFiniteSet(Copies(m)') /\ Cardinality(Copies(m)') <= Cardinality(Copies(m))
        /\ Cardinality(Copies(m)) \in Nat /\ Cardinality(Copies(m)') \in Nat
    BY <1>2, CopiesFewer
  <1>4. delivered[m] \in Nat BY <1>1
  <1>5. delivered[m] + Cardinality(Copies(m)') <= mtu BY <1>1, <1>2, <1>3, <1>4
  <1> QED BY <1>2, <1>3, <1>5

(* A set of splittings with at most one more.                              *)
LEMMA OneMoreCopy ==
  ASSUME NEW A, NEW B, NEW k, IsFiniteSet(A), B \subseteq A \cup {k}
  PROVE  /\ IsFiniteSet(B) /\ Cardinality(B) <= Cardinality(A) + 1
         /\ Cardinality(A) \in Nat /\ Cardinality(B) \in Nat
  <1>1. IsFiniteSet(A \cup {k}) /\ Cardinality(A \cup {k}) <= Cardinality(A) + 1
    <2>1. Cardinality(A) \in Nat BY FS_CardinalityType
    <2> QED BY <2>1, FS_AddElement
  <1>2. IsFiniteSet(B) /\ Cardinality(B) <= Cardinality(A \cup {k}) BY <1>1, FS_Subset
  <1>3. Cardinality(A) \in Nat /\ Cardinality(B) \in Nat /\ Cardinality(A \cup {k}) \in Nat
    BY <1>1, <1>2, FS_CardinalityType
  <1> QED BY <1>1, <1>2, <1>3

(* CountInv of the next state, message by message.                         *)
LEMMA CountNext ==
  ASSUME \A m \in Messages :
           /\ IsFiniteSet(Copies(m)') /\ delivered'[m] + Cardinality(Copies(m)') <= mtu'
           /\ receipts'[m] <= mtu'
           /\ (\E p \in Elements(Queued)' : p.message = m /\ EarnsReceipt(p))
                => receipts'[m] + 1 <= mtu'
           /\ m \notin sent' => delivered'[m] = 0 /\ receipts'[m] = 0
  PROVE  CountInv'
  BY DEF CountInv, EarnsReceipt

(* Send puts one splitting of a message that was nowhere yet.              *)
LEMMA OnceSend ==
  ASSUME TypeOK, TypeOK', OnceInv, StageInv, CountInv, NEW m \in Messages, Send(m)
  PROVE  OnceInv' /\ StageInv' /\ CountInv'
  <1>1. m \notin sent /\ sent' = sent \cup {m}
        /\ UNCHANGED <<resendList, net, channels, base, got, delivered, receipts, mtu>>
    BY DEF Send, receiverVars
  <1>2. PICK new : /\ outgoing' = outgoing \o new
                   /\ new = SplitPacket(m, splitPacketId, mtu) \/ new = Whole(m)
    <2>1. CASE Size[m] > Ladder[mtu] BY <2>1 DEF Send
    <2>2. CASE ~(Size[m] > Ladder[mtu]) BY <2>2 DEF Send
    <2> QED BY <2>1, <2>2
  <1>3. /\ new \in Seq(Packets) /\ Distinct(new)
        /\ \A p \in Elements(new) : p.message = m /\ (p.count = 0 => p \in Elements(Whole(m)))
        /\ \A p, q \in Elements(new) : p.id = q.id /\ p.count = q.count
    <2>1. splitPacketId \in Nat /\ mtu \in DOMAIN Ladder BY Types
    <2>2. CASE new = SplitPacket(m, splitPacketId, mtu)
      <3>1. SplitPacketCount(m, mtu) # 0 BY <2>1, SplitParts
      <3> QED BY <2>1, <2>2, <3>1, SplitParts, NewDistinct
    <2>3. CASE new = Whole(m)
      <3>1. \A p, q \in Elements(new) : p.id = q.id /\ p.count = q.count BY <2>3, WholeUnique
      <3> QED BY <2>1, <2>3, <3>1, WholePart, NewDistinct
    <2> QED BY <1>2, <2>2, <2>3
  <1>4. \A p \in InPlay : p.message # m /\ p \notin Elements(new) BY <1>1, <1>3 DEF StageInv
  <1>5. outgoing \in Seq(Packets) BY Types
  <1>6. Elements(outgoing') = Elements(outgoing) \cup Elements(new)
    BY <1>2, <1>3, <1>5, ConcatElements
  <1>7. Elements(resendList') = Elements(resendList) /\ Held' = Held /\ Numbered' = Numbered
    BY <1>1 DEF Held, Numbered, Elements
  <1>8. \A n : Received(n)' <=> Received(n) BY <1>1 DEF Received
  <1>9. Elements(outgoing)' = Elements(outgoing') BY DEF Elements
  <1>10. Awaited' \subseteq Awaited \cup Elements(new)
    <2>1. \A p \in Elements(outgoing') : p \in Awaited \cup Elements(new)
      BY <1>6, AwaitedInPlay
    <2>2. \A a \in Numbered' : ~Received(a[1])' => a[2] \in Awaited \cup Elements(new)
      BY <1>7, <1>8, AwaitedInPlay
    <2> QED BY <2>1, <2>2, AwaitedNext
  <1>11. InPlay' \subseteq InPlay \cup Elements(new)
    <2>1. \A r \in Elements(resendList') : r.packet \in InPlay \cup Elements(new)
      BY <1>7, InPlayIn
    <2>2. \A p \in Elements(outgoing') : p \in InPlay \cup Elements(new) BY <1>6, InPlayIn
    <2>3. \A x \in net' : x.packet \in InPlay \cup Elements(new) BY <1>1, InPlayIn
    <2>4. Held' \subseteq InPlay \cup Elements(new) BY <1>7, InPlayIn
    <2> QED BY <2>1, <2>2, <2>3, <2>4, InPlayNext
  <1>12. Elements(Queued)' \subseteq Elements(Queued) \cup Elements(new)
    BY <1>6, <1>7, InPlayPieces, InPlayPiecesNext
  <1>13. OnceInv'
    <2>1. Elements(outgoing) \cap Elements(new) = {} BY <1>4, InPlayIn
    <2>2. Distinct(outgoing) BY DEF OnceInv
    <2>3. Distinct(outgoing \o new) BY <1>3, <1>5, <2>1, <2>2, ConcatDistinct
    <2>4. Distinct(outgoing') BY <1>2, <2>3
    <2>5. Distinct(outgoing)' BY <2>4 DEF Distinct
    <2>6. \A a \in Numbered' : a[2] \notin Elements(outgoing)'
      BY <1>4, <1>6, <1>7, <1>9, AwaitedInPlay DEF OnceInv
    <2>7. \A p \in Held' : p \notin Awaited' BY <1>4, <1>7, <1>10, InPlayIn DEF OnceInv
    <2>8. \A a, b \in Numbered' : a[2] = b[2] => a[1] = b[1] BY <1>7 DEF OnceInv
    <2> QED BY <2>5, <2>6, <2>7, <2>8 DEF OnceInv
  <1>14. StageInv'
    <2>1. \A k : Elements(Whole(k))' = Elements(Whole(k)) BY DEF Elements, Whole
    <2>2. \A p \in InPlay' : p.message \in sent' BY <1>1, <1>3, <1>11 DEF StageInv
    <2>3. \A p \in InPlay' : p.count = 0 => p \in Elements(Whole(p.message))
      BY <1>3, <1>11 DEF StageInv
    <2>4. \A p \in Elements(Queued) : p \in InPlay BY DEF InPlay
    <2>5. \A p, q \in Elements(Queued)' : p.message = q.message => p.id = q.id /\ p.count = q.count
      BY <1>3, <1>4, <1>12, <2>4 DEF StageInv
    <2> QED BY <2>1, <2>2, <2>3, <2>5 DEF StageInv
  <1>15. CountInv'
    <2>1. delivered \in [Messages -> Nat] /\ mtu \in Nat \ {0} /\ receipts \in [Messages -> Nat]
      BY ConstantTypes DEF TypeOK
    <2> SUFFICES ASSUME NEW k \in Messages
                 PROVE  /\ IsFiniteSet(Copies(k)') /\ delivered'[k] + Cardinality(Copies(k)') <= mtu'
                        /\ receipts'[k] <= mtu'
                        /\ (\E p \in Elements(Queued)' : p.message = k /\ EarnsReceipt(p))
                             => receipts'[k] + 1 <= mtu'
                        /\ k \notin sent' => delivered'[k] = 0 /\ receipts'[k] = 0
      BY CountNext
    <2>2. /\ IsFiniteSet(Copies(k)) /\ delivered[k] + Cardinality(Copies(k)) <= mtu
          /\ receipts[k] <= mtu
          /\ (\E p \in Elements(Queued) : p.message = k /\ EarnsReceipt(p)) => receipts[k] + 1 <= mtu
          /\ k \notin sent => delivered[k] = 0 /\ receipts[k] = 0
      BY DEF CountInv
    <2>3. Copies(k)' = {<<p.id, p.count>> : p \in {q \in Awaited' : q.message = k}} BY DEF Copies
    <2>4. CASE k # m
      <3>1. Copies(k)' \subseteq Copies(k) BY <1>3, <1>10, <2>3, <2>4 DEF Copies
      <3>2. /\ IsFiniteSet(Copies(k)') /\ Cardinality(Copies(k)') <= Cardinality(Copies(k))
            /\ Cardinality(Copies(k)) \in Nat /\ Cardinality(Copies(k)') \in Nat
        BY <2>2, <3>1, FS_Subset, FS_CardinalityType
      <3>3. delivered[k] \in Nat BY <2>1
      <3>4. delivered[k] + Cardinality(Copies(k)') <= mtu BY <2>1, <2>2, <3>2, <3>3
      <3>5. \A p \in Elements(Queued)' : p.message = k => p \in Elements(Queued)
        BY <1>3, <1>12, <2>4
      <3> QED BY <1>1, <2>2, <3>2, <3>4, <3>5
    <2>5. CASE k = m
      <3>1. delivered[k] = 0 /\ receipts[k] = 0 BY <1>1, <2>2, <2>5
      <3>2. \A p \in Awaited' : p.message = m => p \in Elements(new)
        BY <1>4, <1>10, AwaitedInPlay
      <3>3. \E key : Copies(k)' \subseteq {} \cup {key}
        <4>1. CASE Elements(new) = {} BY <2>3, <2>5, <3>2, <4>1
        <4>2. CASE Elements(new) # {}
          <5>1. PICK u : u \in Elements(new) BY <4>2
          <5>2. Copies(k)' \subseteq {<<u.id, u.count>>} BY <1>3, <2>3, <2>5, <3>2, <5>1
          <5> QED BY <5>2
        <4> QED BY <4>1, <4>2
      <3>4. PICK key : Copies(k)' \subseteq {} \cup {key} BY <3>3
      <3>5. IsFiniteSet({}) /\ Cardinality({}) = 0 BY FS_EmptySet
      <3>6. IsFiniteSet(Copies(k)') /\ Cardinality(Copies(k)') <= 0 + 1 /\ Cardinality(Copies(k)') \in Nat
        BY <3>4, <3>5, OneMoreCopy
      <3> QED BY <1>1, <2>1, <2>5, <3>1, <3>6
    <2> QED BY <2>4, <2>5
  <1> QED BY <1>13, <1>14, <1>15

(* The fragments a step-down adds: each message is split once, under an id *)
(* that was not in use, and nothing else of it stays queued.               *)
LEMMA ReSplitOnce ==
  ASSUME TypeOK, SplitInv, StageInv, NEW rung \in DOMAIN Ladder
  PROVE  /\ \A p \in ReSplit(rung) : p.message \in sent /\ p.count > 0 /\ p \notin InPlay
         /\ \A p, q \in ReSplit(rung) : p.message = q.message => p.id = q.id /\ p.count = q.count
         /\ \A p \in ReSplit(rung), q \in Elements(Queued) : p.message = q.message => Stale(q, rung)
         /\ Distinct(FlattenSeq([i \in DOMAIN Rebuilt(rung) |->
                                   SplitPacket(Rebuilt(rung)[i], FreshId(i), rung)]))
  <1> DEFINE rebuilt == Rebuilt(rung)
             F(i) == SplitPacket(rebuilt[i], FreshId(i), rung)
             ss == [i \in DOMAIN rebuilt |-> F(i)]
  <1>1. rebuilt \in Seq(Messages) BY RebuiltMessages
  <1>2. /\ \A i, j \in DOMAIN rebuilt : rebuilt[i] = rebuilt[j] => i = j
        /\ \A i \in DOMAIN rebuilt : \E p \in Elements(Queued) :
             p.message = rebuilt[i] /\ Oversized(p, rung)
    BY RebuiltOnce
  <1>3. ReSplit(rung) = UNION {Elements(F(i)) : i \in DOMAIN rebuilt} BY DEF ReSplit
  <1> HIDE DEF rebuilt
  <1>4. splitPacketId \in Nat BY Types
  <1>5. \A i \in DOMAIN rebuilt : rebuilt[i] \in Messages /\ FreshId(i) \in Nat /\ FreshId(i) >= splitPacketId
    BY <1>1, <1>4 DEF FreshId
  <1>6. ASSUME NEW i \in DOMAIN rebuilt
        PROVE  /\ F(i) \in Seq(Packets) /\ Distinct(F(i))
               /\ \A p \in Elements(F(i)) :
                    /\ p.message = rebuilt[i] /\ p.id = FreshId(i)
                    /\ p.count = SplitPacketCount(rebuilt[i], rung) /\ p.count > 0
    <2>1. rebuilt[i] \in Messages /\ FreshId(i) \in Nat BY <1>5
    <2>2. SplitPacketCount(rebuilt[i], rung) \in Nat \ {0} BY <2>1, SplitParts
    <2> QED BY <2>1, <2>2, SplitParts, NewDistinct
  <1> HIDE DEF F
  <1>7. \A p \in ReSplit(rung) : \E i \in DOMAIN rebuilt : p \in Elements(F(i)) BY <1>3
  <1>8. ASSUME NEW p \in ReSplit(rung) PROVE p.message \in sent /\ p.count > 0 /\ p \notin InPlay
    <2>1. PICK i \in DOMAIN rebuilt : p \in Elements(F(i)) BY <1>7
    <2>2. p.message = rebuilt[i] /\ p.id = FreshId(i) /\ p.count > 0 BY <1>6, <2>1
    <2>3. PICK u \in Elements(Queued) : u.message = p.message BY <1>2, <2>2
    <2>4. u \in InPlay BY DEF InPlay
    <2>5. p.id >= splitPacketId /\ p.id \in Nat BY <1>5, <2>2
    <2>6. p \notin InPlay BY <1>4, <2>2, <2>5 DEF SplitInv
    <2> QED BY <2>2, <2>3, <2>4, <2>6 DEF StageInv
  <1>9. ASSUME NEW p \in ReSplit(rung), NEW q \in ReSplit(rung), p.message = q.message
        PROVE  p.id = q.id /\ p.count = q.count
    <2>1. PICK i \in DOMAIN rebuilt : p \in Elements(F(i)) BY <1>7
    <2>2. PICK j \in DOMAIN rebuilt : q \in Elements(F(j)) BY <1>7
    <2>3. i = j BY <1>2, <1>6, <1>9, <2>1, <2>2
    <2> QED BY <1>6, <2>1, <2>2, <2>3
  <1>10. ASSUME NEW p \in ReSplit(rung), NEW q \in Elements(Queued), p.message = q.message
         PROVE  Stale(q, rung)
    <2>1. PICK i \in DOMAIN rebuilt : p \in Elements(F(i)) BY <1>7
    <2>2. PICK u \in Elements(Queued) : u.message = rebuilt[i] /\ Oversized(u, rung) BY <1>2
    <2>3. u.message = q.message BY <1>6, <1>10, <2>1, <2>2
    <2>4. SameMessage(u, q) BY <2>3, SameStage
    <2> QED BY <2>2, <2>4 DEF Stale
  <1>11. Distinct(FlattenSeq(ss))
    <2>1. DOMAIN ss = DOMAIN rebuilt /\ \A i \in DOMAIN ss : ss[i] = F(i) OBVIOUS
    <2>2. ss \in Seq(Seq(Packets))
      <3>1. \A i \in DOMAIN rebuilt : F(i) \in Seq(Packets) BY <1>6
      <3>2. DOMAIN rebuilt = 1 .. Len(rebuilt) /\ Len(rebuilt) \in Nat BY <1>1
      <3> QED BY <3>1, <3>2
    <2> HIDE DEF ss
    <2>3. \A i \in DOMAIN ss : Distinct(ss[i]) BY <1>6, <2>1
    <2>4. ASSUME NEW i \in DOMAIN ss, NEW j \in DOMAIN ss, i # j
          PROVE  Elements(ss[i]) \cap Elements(ss[j]) = {}
      <3>1. \A p \in Elements(ss[i]) : p.message = rebuilt[i] BY <1>6, <2>1
      <3>2. \A p \in Elements(ss[j]) : p.message = rebuilt[j] BY <1>6, <2>1
      <3>3. rebuilt[i] # rebuilt[j] BY <1>2, <2>1, <2>4
      <3> QED BY <3>1, <3>2, <3>3
    <2> QED BY <2>2, <2>3, <2>4, FlattenDistinct
  <1>12. ss = [i \in DOMAIN Rebuilt(rung) |-> SplitPacket(Rebuilt(rung)[i], FreshId(i), rung)]
    BY DEF rebuilt, F
  <1> HIDE DEF ss
  <1>13. Distinct(FlattenSeq([i \in DOMAIN Rebuilt(rung) |->
                                SplitPacket(Rebuilt(rung)[i], FreshId(i), rung)]))
    BY <1>11, <1>12
  <1> QED BY <1>8, <1>9, <1>10, <1>13

(* A step-down repeats nothing in the queue.                               *)
LEMMA StepDownDistinct ==
  ASSUME TypeOK, SplitInv, StageInv, Distinct(outgoing), mtu < Len(Ladder), StepDownMtuAfterBlackHole
  PROVE  Distinct(outgoing')
  <1> DEFINE rung == mtu + 1
             B == {i \in DOMAIN outgoing : ~Stale(outgoing[i], rung)}
             ss == [i \in DOMAIN Rebuilt(rung) |-> SplitPacket(Rebuilt(rung)[i], FreshId(i), rung)]
  <1>1. rung \in DOMAIN Ladder BY RungBelow
  <1>2. outgoing \in Seq(Packets) BY Types
  <1>3. outgoing' = Only(outgoing, B) \o FlattenSeq(ss) BY DEF StepDownMtuAfterBlackHole
  <1>4. B \in SUBSET (DOMAIN outgoing) OBVIOUS
  <1>5. \A i, j \in B : outgoing[i] = outgoing[j] => i = j BY DEF Distinct
  <1>6. \A i \in B : outgoing[i] \in InPlay
    <2>1. \A i \in B : outgoing[i] \in Elements(outgoing) BY DEF Elements
    <2> QED BY <2>1, InPlayIn
  <1> HIDE DEF rung
  <1>7. /\ \A p \in ReSplit(rung) : p \notin InPlay
        /\ Distinct(FlattenSeq(ss))
    BY <1>1, ReSplitOnce
  <1>8. FlattenSeq(ss) \in Seq(Packets) /\ Elements(FlattenSeq(ss)) = ReSplit(rung)
    <2> DEFINE rebuilt == Rebuilt(rung)
    <2>1. rebuilt \in Seq(Messages) BY <1>1, RebuiltMessages
    <2>2. splitPacketId \in Nat BY Types
    <2> HIDE DEF rebuilt
    <2>3. \A i \in DOMAIN rebuilt : rebuilt[i] \in Messages /\ FreshId(i) \in Nat
      BY <2>1, <2>2 DEF FreshId
    <2>4. \A i \in DOMAIN rebuilt : SplitPacket(rebuilt[i], FreshId(i), rung) \in Seq(Packets)
      BY <1>1, <2>3, SplitParts
    <2>5. ss = [i \in DOMAIN rebuilt |-> SplitPacket(rebuilt[i], FreshId(i), rung)] BY DEF rebuilt
    <2>6. DOMAIN rebuilt = 1 .. Len(rebuilt) /\ Len(rebuilt) \in Nat BY <2>1
    <2>7. ss \in Seq(Seq(Packets)) BY <2>4, <2>5, <2>6
    <2>8. ReSplit(rung) = UNION {Elements(ss[i]) : i \in DOMAIN ss} BY DEF ReSplit
    <2> HIDE DEF ss
    <2> QED BY <2>7, <2>8, FlattenElements
  <1> HIDE DEF B, ss
  <1>9. Only(outgoing, B) \in Seq(Packets) /\ Elements(Only(outgoing, B)) = {outgoing[i] : i \in B}
    BY <1>2, <1>4, OnlyElements
  <1>10. Distinct(Only(outgoing, B)) BY <1>2, <1>4, <1>5, OnlyDistinct
  <1>11. Elements(Only(outgoing, B)) \cap Elements(FlattenSeq(ss)) = {} BY <1>6, <1>7, <1>8, <1>9
  <1>12. Distinct(Only(outgoing, B) \o FlattenSeq(ss))
    BY <1>7, <1>8, <1>9, <1>10, <1>11, ConcatDistinct
  <1> QED BY <1>3, <1>12

(* A step-down may repeat a message once more, and uses a rung for it.     *)
LEMMA OnceStepDown ==
  ASSUME TypeOK, TypeOK', SplitInv, OnceInv, StageInv, CountInv, mtu < Len(Ladder),
         StepDownMtuAfterBlackHole, UNCHANGED <<sent, net, channels, base, got, delivered, receipts>>
  PROVE  OnceInv' /\ StageInv' /\ CountInv'
  <1> DEFINE N == ReSplit(mtu + 1)
  <1>1. /\ mtu' = mtu + 1 /\ mtu' \in DOMAIN Ladder
        /\ Elements(resendList') = {r \in Elements(resendList) : ~Stale(r.packet, mtu + 1)}
        /\ Elements(outgoing') = {p \in Elements(outgoing) : ~Stale(p, mtu + 1)} \cup N
    BY StepDownEffect
  <1>2. /\ \A p \in N : p.message \in sent /\ p.count > 0 /\ p \notin InPlay
        /\ \A p, q \in N : p.message = q.message => p.id = q.id /\ p.count = q.count
        /\ \A p \in N, q \in Elements(Queued) : p.message = q.message => Stale(q, mtu + 1)
    <2>1. mtu + 1 \in DOMAIN Ladder BY RungBelow
    <2> QED BY <2>1, ReSplitOnce
  <1>3. Distinct(outgoing')
    <2>1. Distinct(outgoing) BY DEF OnceInv
    <2> QED BY <2>1, StepDownDistinct
  <1> HIDE DEF N
  <1>4. Held' = Held BY DEF Held
  <1>5. Numbered' \subseteq Numbered
    <2>1. \A r \in Elements(resendList') : <<r.number, r.packet>> \in Numbered BY <1>1, NumberedIn
    <2>2. \A x \in net' : <<x.number, x.packet>> \in Numbered BY NumberedIn
    <2> QED BY <2>1, <2>2, NumberedNext
  <1>6. \A n : Received(n)' <=> Received(n) BY DEF Received
  <1>7. Elements(outgoing)' = Elements(outgoing') BY DEF Elements
  <1>8. Awaited' \subseteq Awaited \cup N
    <2>1. \A p \in Elements(outgoing') : p \in Awaited \cup N BY <1>1, AwaitedInPlay
    <2>2. \A a \in Numbered' : ~Received(a[1])' => a[2] \in Awaited \cup N
      BY <1>5, <1>6, AwaitedInPlay
    <2> QED BY <2>1, <2>2, AwaitedNext
  <1>9. InPlay' \subseteq InPlay \cup N
    <2>1. \A r \in Elements(resendList') : r.packet \in InPlay \cup N BY <1>1, InPlayIn
    <2>2. \A p \in Elements(outgoing') : p \in InPlay \cup N BY <1>1, InPlayIn
    <2>3. \A x \in net' : x.packet \in InPlay \cup N BY InPlayIn
    <2>4. Held' \subseteq InPlay \cup N BY <1>4, InPlayIn
    <2> QED BY <2>1, <2>2, <2>3, <2>4, InPlayNext
  <1>10. \A p \in Elements(Queued)' : p \in N \/ (p \in Elements(Queued) /\ ~Stale(p, mtu + 1))
    BY <1>1, InPlayPieces, InPlayPiecesNext
  <1>11. OnceInv'
    <2>1. Distinct(outgoing)' BY <1>3 DEF Distinct
    <2>2. \A a \in Numbered' : a[2] \notin Elements(outgoing)'
      BY <1>1, <1>2, <1>5, <1>7, AwaitedInPlay DEF OnceInv
    <2>3. \A p \in Held' : p \notin Awaited' BY <1>2, <1>4, <1>8, InPlayIn DEF OnceInv
    <2>4. \A a, b \in Numbered' : a[2] = b[2] => a[1] = b[1] BY <1>5 DEF OnceInv
    <2> QED BY <2>1, <2>2, <2>3, <2>4 DEF OnceInv
  <1>12. StageInv'
    <2>1. \A k : Elements(Whole(k))' = Elements(Whole(k)) BY DEF Elements, Whole
    <2>2. \A p \in InPlay' : p.message \in sent' BY <1>2, <1>9 DEF StageInv
    <2>3. \A p \in InPlay' : p.count = 0 => p \in Elements(Whole(p.message))
      BY <1>2, <1>9 DEF StageInv
    <2>4. \A p, q \in Elements(Queued)' : p.message = q.message => p.id = q.id /\ p.count = q.count
      BY <1>2, <1>10 DEF StageInv
    <2> QED BY <2>1, <2>2, <2>3, <2>4 DEF StageInv
  <1>13. CountInv'
    <2>1. delivered \in [Messages -> Nat] /\ mtu \in Nat /\ receipts \in [Messages -> Nat]
      BY ConstantTypes DEF TypeOK
    <2> SUFFICES ASSUME NEW k \in Messages
                 PROVE  /\ IsFiniteSet(Copies(k)') /\ delivered'[k] + Cardinality(Copies(k)') <= mtu'
                        /\ receipts'[k] <= mtu'
                        /\ (\E p \in Elements(Queued)' : p.message = k /\ EarnsReceipt(p))
                             => receipts'[k] + 1 <= mtu'
                        /\ k \notin sent' => delivered'[k] = 0 /\ receipts'[k] = 0
      BY CountNext
    <2>2. /\ IsFiniteSet(Copies(k)) /\ delivered[k] + Cardinality(Copies(k)) <= mtu
          /\ receipts[k] <= mtu
          /\ k \notin sent => delivered[k] = 0 /\ receipts[k] = 0
      BY DEF CountInv
    <2>3. Copies(k)' = {<<p.id, p.count>> : p \in {q \in Awaited' : q.message = k}} BY DEF Copies
    <2>4. \E key : Copies(k)' \subseteq Copies(k) \cup {key}
      <3>1. CASE \E u \in N : u.message = k
        <4>1. PICK u \in N : u.message = k BY <3>1
        <4>2. Copies(k)' \subseteq Copies(k) \cup {<<u.id, u.count>>}
          BY <1>2, <1>8, <2>3, <4>1 DEF Copies
        <4> QED BY <4>2
      <3>2. CASE ~\E u \in N : u.message = k
        <4>1. Copies(k)' \subseteq Copies(k) BY <1>8, <2>3, <3>2 DEF Copies
        <4> QED BY <4>1
      <3> QED BY <3>1, <3>2
    <2>5. PICK key : Copies(k)' \subseteq Copies(k) \cup {key} BY <2>4
    <2>6. /\ IsFiniteSet(Copies(k)') /\ Cardinality(Copies(k)') <= Cardinality(Copies(k)) + 1
          /\ Cardinality(Copies(k)) \in Nat /\ Cardinality(Copies(k)') \in Nat
      BY <2>2, <2>5, OneMoreCopy
    <2>7. delivered[k] \in Nat /\ receipts[k] \in Nat BY <2>1
    <2>8. delivered[k] + Cardinality(Copies(k)') <= mtu + 1 BY <2>1, <2>2, <2>6, <2>7
    <2>9. receipts[k] <= mtu + 1 /\ receipts[k] + 1 <= mtu + 1 BY <2>1, <2>2, <2>7
    <2> QED BY <1>1, <2>2, <2>6, <2>8, <2>9
  <1> QED BY <1>11, <1>12, <1>13

(* Transmit gives the first queued packet its only number.                 *)
LEMMA OnceTransmit ==
  ASSUME TypeOK, TypeOK', NumberInv, OnceInv, StageInv, CountInv, Transmit
  PROVE  OnceInv' /\ StageInv' /\ CountInv'
  <1> DEFINE p == Head(outgoing)
  <1>1. outgoing # <<>> /\ outgoing' = Tail(outgoing)
        /\ UNCHANGED <<sent, channels, base, got, delivered, receipts, mtu>>
    BY DEF Transmit, receiverVars
  <1>2. outgoing \in Seq(Packets) BY Types
  <1>3. /\ p \in Elements(outgoing) /\ Elements(outgoing) = {p} \cup Elements(outgoing')
        /\ Distinct(outgoing') /\ p \notin Elements(outgoing')
    BY <1>1, <1>2, TailElements, TailDistinct DEF OnceInv
  <1>4. Elements(resendList') = Elements(resendList)
          \cup {[number |-> sendIndex, packet |-> p, timesSent |-> 1]}
    <2> DEFINE r == [number |-> sendIndex, packet |-> p, timesSent |-> 1]
    <2>1. resendList' = Append(resendList, r) BY DEF Transmit
    <2>2. resendList \in Seq(Resends) /\ p \in Packets /\ sendIndex \in Nat
      BY <1>1, <1>2, Types, TailElements
    <2> HIDE DEF p
    <2>3. r \in Resends BY <2>2, ConstantTypes DEF Resends
    <2> HIDE DEF r
    <2>4. Elements(resendList') = Elements(resendList) \cup {r} BY <2>1, <2>2, <2>3, AppendElements
    <2> QED BY <2>4 DEF r
  <1>5. net' \subseteq net \cup {[number |-> sendIndex, packet |-> p]} BY DEF Transmit, Emit
  <1> HIDE DEF p
  <1>6. \A r \in Elements(resendList') : r \in Elements(resendList) \/ (r.number = sendIndex /\ r.packet = p)
    BY <1>4
  <1>7. \A x \in net' : x \in net \/ (x.number = sendIndex /\ x.packet = p) BY <1>5
  <1>8. Numbered' \subseteq Numbered \cup {<<sendIndex, p>>}
    <2>1. \A r \in Elements(resendList') : <<r.number, r.packet>> \in Numbered \cup {<<sendIndex, p>>}
      BY <1>6, NumberedIn
    <2>2. \A x \in net' : <<x.number, x.packet>> \in Numbered \cup {<<sendIndex, p>>}
      BY <1>7, NumberedIn
    <2> QED BY <2>1, <2>2, NumberedNext
  <1>9. \A a \in Numbered' : a \in Numbered \/ (a[1] = sendIndex /\ a[2] = p) BY <1>8
  <1>10. Held' = Held BY <1>1 DEF Held
  <1>11. \A n : Received(n)' <=> Received(n) BY <1>1 DEF Received
  <1>12. Elements(outgoing)' = Elements(outgoing') BY DEF Elements
  <1>13. p \in Awaited /\ p \in InPlay BY <1>3, AwaitedInPlay
  <1>14. Awaited' \subseteq Awaited
    <2>1. \A q \in Elements(outgoing') : q \in Awaited BY <1>3, AwaitedInPlay
    <2>2. \A a \in Numbered' : ~Received(a[1])' => a[2] \in Awaited
      BY <1>9, <1>11, <1>13, AwaitedInPlay
    <2> QED BY <2>1, <2>2, AwaitedNext
  <1>15. InPlay' \subseteq InPlay
    <2>1. \A r \in Elements(resendList') : r.packet \in InPlay BY <1>6, <1>13, InPlayIn
    <2>2. \A q \in Elements(outgoing') : q \in InPlay BY <1>3, InPlayIn
    <2>3. \A x \in net' : x.packet \in InPlay BY <1>7, <1>13, InPlayIn
    <2>4. Held' \subseteq InPlay BY <1>10, InPlayIn
    <2> QED BY <2>1, <2>2, <2>3, <2>4, InPlayNext
  <1>16. Elements(Queued)' \subseteq Elements(Queued)
    <2>1. p \in Elements(Queued) BY <1>3, InPlayPieces
    <2>2. \A r \in Elements(resendList') : r.packet \in Elements(Queued) BY <1>6, <2>1, InPlayPieces
    <2>3. \A q \in Elements(outgoing') : q \in Elements(Queued) BY <1>3, InPlayPieces
    <2> QED BY <2>2, <2>3, InPlayPiecesNext
  <1>17. OnceInv'
    <2>1. Distinct(outgoing)' BY <1>3 DEF Distinct
    <2>2. \A a \in Numbered : a[2] \notin Elements(outgoing) /\ a[2] # p BY <1>3 DEF OnceInv
    <2>3. \A a \in Numbered' : a[2] \notin Elements(outgoing)' BY <1>3, <1>9, <1>12, <2>2
    <2>4. \A q \in Held' : q \notin Awaited' BY <1>10, <1>14 DEF OnceInv
    <2>5. \A a, b \in Numbered' : a[2] = b[2] => a[1] = b[1] BY <1>9, <2>2 DEF OnceInv
    <2> QED BY <2>1, <2>3, <2>4, <2>5 DEF OnceInv
  <1>18. StageInv' BY <1>1, <1>15, <1>16, StageKept
  <1>19. CountInv' BY <1>1, <1>14, <1>16, CountKept
  <1> QED BY <1>17, <1>18, <1>19

(* Of the queued packets of a message one earns the receipt.               *)
LEMMA OneEarns ==
  ASSUME TypeOK, SplitInv, StageInv, NEW p \in Elements(Queued), NEW q \in Elements(Queued),
         p.message = q.message, EarnsReceipt(p), EarnsReceipt(q)
  PROVE  p = q
  <1>1. p \in InPlay /\ q \in InPlay BY DEF InPlay
  <1>2. p \in Packets /\ q \in Packets BY <1>1, InPlayPieces
  <1>3. p.id = q.id /\ p.count = q.count BY DEF StageInv
  <1>4. p.count \in Nat /\ p.message \in Messages /\ p.id \in Nat /\ p.index \in Nat /\ q.index \in Nat
    BY <1>2 DEF Packets
  <1>5. CASE p.count = 0
    <2>1. p \in Elements(Whole(p.message)) /\ q \in Elements(Whole(p.message))
      BY <1>1, <1>3, <1>5 DEF StageInv
    <2> QED BY <1>4, <2>1, WholeUnique
  <1>6. CASE p.count > 0
    <2>1. PICK rung \in DOMAIN Ladder : \A u \in InPlay :
            u.count > 0 /\ u.id = p.id => u \in Elements(SplitPacket(p.message, p.id, rung))
      BY <1>1, <1>6 DEF SplitInv
    <2>2. p \in Elements(SplitPacket(p.message, p.id, rung)) /\ q \in Elements(SplitPacket(p.message, p.id, rung))
      BY <1>1, <1>3, <1>6, <2>1
    <2>3. p.index + 1 = p.count /\ q.index + 1 = p.count BY <1>3, <1>6 DEF EarnsReceipt
    <2>4. p.index = q.index BY <1>4, <2>3
    <2> QED BY <1>4, <2>2, <2>4, SplitParts
  <1> QED BY <1>4, <1>5, <1>6

(* An acknowledgement that earns a receipt takes the last packet that can. *)
LEMMA OnceAck ==
  ASSUME TypeOK, TypeOK', SplitInv, OnceInv, StageInv, CountInv, NEW n \in acks, ReceiveAck(n)
  PROVE  OnceInv' /\ StageInv' /\ CountInv'
  <1>1. UNCHANGED <<sent, outgoing, net, channels, base, got, delivered, mtu>>
    BY DEF ReceiveAck, queueVars, receiverVars
  <1>2. Elements(resendList') = {r \in Elements(resendList) : r.number # n} BY AckEffect
  <1>3. Elements(outgoing') = Elements(outgoing) BY <1>1
  <1>4. Held' = Held BY <1>1 DEF Held
  <1>5. Numbered' \subseteq Numbered
    <2>1. \A r \in Elements(resendList') : <<r.number, r.packet>> \in Numbered BY <1>2, NumberedIn
    <2>2. \A x \in net' : <<x.number, x.packet>> \in Numbered BY <1>1, NumberedIn
    <2> QED BY <2>1, <2>2, NumberedNext
  <1>6. OnceInv' /\ Awaited' \subseteq Awaited BY <1>1, <1>4, <1>5, OnceKept
  <1>7. InPlay' \subseteq InPlay
    <2>1. \A r \in Elements(resendList') : r.packet \in InPlay BY <1>2, InPlayIn
    <2>2. \A q \in Elements(outgoing') : q \in InPlay BY <1>3, InPlayIn
    <2>3. \A x \in net' : x.packet \in InPlay BY <1>1, InPlayIn
    <2>4. Held' \subseteq InPlay BY <1>4, InPlayIn
    <2> QED BY <2>1, <2>2, <2>3, <2>4, InPlayNext
  <1>8. Elements(Queued)' \subseteq Elements(Queued) BY <1>2, <1>3, InPlayPieces, InPlayPiecesNext
  <1>9. StageInv' BY <1>1, <1>7, <1>8, StageKept
  <1>10. CountInv'
    <2>1. delivered \in [Messages -> Nat] /\ mtu \in Nat /\ receipts \in [Messages -> Nat]
      BY ConstantTypes DEF TypeOK
    <2> SUFFICES ASSUME NEW k \in Messages
                 PROVE  /\ IsFiniteSet(Copies(k)') /\ delivered'[k] + Cardinality(Copies(k)') <= mtu'
                        /\ receipts'[k] <= mtu'
                        /\ (\E p \in Elements(Queued)' : p.message = k /\ EarnsReceipt(p))
                             => receipts'[k] + 1 <= mtu'
                        /\ k \notin sent' => delivered'[k] = 0 /\ receipts'[k] = 0
      BY CountNext
    <2>2. /\ IsFiniteSet(Copies(k)) /\ delivered[k] + Cardinality(Copies(k)) <= mtu
          /\ receipts[k] <= mtu
          /\ (\E p \in Elements(Queued) : p.message = k /\ EarnsReceipt(p)) => receipts[k] + 1 <= mtu
          /\ k \notin sent => delivered[k] = 0 /\ receipts[k] = 0
      BY DEF CountInv
    <2>3. IsFiniteSet(Copies(k)') /\ delivered'[k] + Cardinality(Copies(k)') <= mtu'
      <3>1. /\ IsFiniteSet(Copies(k)') /\ Cardinality(Copies(k)') <= Cardinality(Copies(k))
            /\ Cardinality(Copies(k)) \in Nat /\ Cardinality(Copies(k)') \in Nat
        BY <1>6, <2>2, CopiesFewer
      <3>2. delivered[k] \in Nat BY <2>1
      <3>3. delivered[k] + Cardinality(Copies(k)') <= mtu BY <2>1, <2>2, <3>1, <3>2
      <3> QED BY <1>1, <3>1, <3>3
    <2> DEFINE Earned == \E r \in Elements(resendList) :
                           r.number = n /\ r.packet.message = k /\ EarnsReceipt(r.packet)
    <2>4. receipts'[k] = IF Earned THEN receipts[k] + 1 ELSE receipts[k]
      <3>1. Earned <=> \E r \in {x \in Elements(resendList) : x.number = n} :
                         r.packet.message = k /\ EarnsReceipt(r.packet)
        OBVIOUS
      <3> HIDE DEF Earned
      <3> QED BY <3>1 DEF ReceiveAck
    <2>5. CASE ~Earned
      <3>1. receipts'[k] = receipts[k] BY <2>4, <2>5
      <3> QED BY <1>1, <1>8, <2>2, <2>3, <3>1
    <2>6. CASE Earned
      <3>1. PICK r \in Elements(resendList) :
              r.number = n /\ r.packet.message = k /\ EarnsReceipt(r.packet)
        BY <2>6
      <3>2. receipts'[k] = receipts[k] + 1 BY <2>4, <2>6
      <3>3. r.packet \in Elements(Queued) BY InPlayPieces
      <3>4. receipts[k] + 1 <= mtu BY <2>2, <3>1, <3>3
      <3>5. k \in sent
        <4>1. r.packet \in InPlay BY <3>3 DEF InPlay
        <4> QED BY <3>1, <4>1 DEF StageInv
      <3>6. ASSUME NEW p \in Elements(Queued)', p.message = k, EarnsReceipt(p) PROVE FALSE
        <4>1. p \in Elements(Queued) BY <1>8
        <4>2. p = r.packet BY <3>1, <3>3, <3>6, <4>1, OneEarns
        <4>3. <<r.number, r.packet>> \in Numbered BY NumberedIn
        <4>4. CASE p \in Elements(outgoing')
          <5>1. <<r.number, r.packet>>[2] \in Elements(outgoing) BY <1>3, <4>2, <4>4
          <5> QED BY <4>3, <5>1 DEF OnceInv
        <4>5. CASE \E s \in Elements(resendList') : p = s.packet
          <5>1. PICK s \in Elements(resendList') : p = s.packet BY <4>5
          <5>2. s \in Elements(resendList) /\ s.number # n BY <1>2
          <5>3. <<s.number, s.packet>> \in Numbered BY <5>2, NumberedIn
          <5>4. <<s.number, s.packet>>[2] = <<r.number, r.packet>>[2] BY <4>2, <5>1
          <5>5. <<s.number, s.packet>>[1] = <<r.number, r.packet>>[1] BY <4>3, <5>3, <5>4 DEF OnceInv
          <5> QED BY <3>1, <5>2, <5>5
        <4> QED BY <4>4, <4>5, InPlayPiecesNext
      <3> QED BY <1>1, <2>3, <3>2, <3>4, <3>5, <3>6
    <2> QED BY <2>5, <2>6
  <1> QED BY <1>6, <1>9, <1>10

(* When Insert delivers, the receiver has every part of the splitting that *)
(* is still in play.                                                       *)
LEMMA InsertDelivers ==
  ASSUME TypeOK, SplitInv, ChannelInv, IdsApart, NeverGarbled, NEW p \in InPlay, p.count > 0, Insert(p)
  PROVE  \/ UNCHANGED delivered
         \/ /\ delivered' = [delivered EXCEPT ![p.message] = @ + 1]
            /\ \A q \in InPlay : q.count > 0 /\ q.id = p.id => q \in Held \cup {p}
  <1>1. channels \subseteq Channels /\ p \in Packets BY Types, InPlayPieces
  <1>2. UNCHANGED garbled BY InsertWhole
  <1>3. PICK old \in Channels, new \in Channels : Inserted(p, old, new) BY <1>1, InsertEffect
  <1>4. /\ \/ old \in channels /\ old.id = WireId(p.id)
           \/ old = [id |-> WireId(p.id), count |-> p.count, fragments |-> {}]
        /\ new = [old EXCEPT !.fragments = @ \cup {p}]
        /\ \/ UNCHANGED delivered
           \/ /\ Fits(old, p)
              /\ \A i \in 0 .. new.count - 1 : \E q \in new.fragments : q.index = i
              /\ delivered' = [delivered EXCEPT ![p.message] = @ + 1]
    BY <1>3 DEF Inserted
  <1> SUFFICES ASSUME Fits(old, p),
                      \A i \in 0 .. new.count - 1 : \E q \in new.fragments : q.index = i,
                      NEW q \in InPlay, q.count > 0, q.id = p.id
               PROVE  q \in Held \cup {p}
    BY <1>4
  <1>5. new.fragments = old.fragments \cup {p} /\ new.count = p.count BY <1>4 DEF Channels, Fits
  <1>6. \A u \in old.fragments : u \in Held /\ u.count > 0 /\ u.id = p.id
    <2>1. CASE old \in channels /\ old.id = WireId(p.id)
      <3>1. \A u \in old.fragments : u \in Held /\ u.count > 0 BY <2>1, InPlayIn DEF ChannelInv
      <3>2. \A u \in old.fragments : u.id = p.id BY <2>1, SameSplitting
      <3> QED BY <3>1, <3>2
    <2>2. CASE old = [id |-> WireId(p.id), count |-> p.count, fragments |-> {}]
      <3>1. old.fragments = {} BY <2>2
      <3> QED BY <3>1
    <2> QED BY <1>4, <2>1, <2>2
  <1>7. PICK rung \in DOMAIN Ladder : \A u \in InPlay :
          u.count > 0 /\ u.id = p.id => u \in Elements(SplitPacket(p.message, p.id, rung))
    BY DEF SplitInv
  <1>8. p.message \in Messages /\ p.id \in Nat BY <1>1 DEF Packets
  <1>9. p \in Elements(SplitPacket(p.message, p.id, rung)) BY <1>7
  <1>10. p.count = SplitPacketCount(p.message, rung) BY <1>8, <1>9, SplitParts
  <1>11. new.fragments \subseteq Elements(SplitPacket(p.message, p.id, rung))
    BY <1>5, <1>6, <1>7, <1>9, InPlayIn
  <1>12. new.fragments = Elements(SplitPacket(p.message, p.id, rung))
    <2>1. \A i \in 0 .. SplitPacketCount(p.message, rung) - 1 : \E u \in new.fragments : u.index = i
      BY <1>5, <1>10
    <2> QED BY <1>8, <1>11, <2>1, CompleteIsWhole
  <1>13. q \in new.fragments BY <1>7, <1>12
  <1> QED BY <1>5, <1>6, <1>13

(* What comes out is not awaited any more.                                 *)
LEMMA OnceReceive ==
  ASSUME StructureInv, TypeOK', IdsApart, NeverGarbled, OnceInv, StageInv, CountInv,
         NEW x \in net, ReceivePacket(x)
  PROVE  OnceInv' /\ StageInv' /\ CountInv'
  <1> DEFINE p == x.packet
  <1>1. TypeOK /\ NumberInv /\ SplitInv /\ ChannelInv BY DEF StructureInv
  <1>2. UNCHANGED <<sent, outgoing, resendList, receipts, mtu>> /\ net' \subseteq net
    BY DEF ReceivePacket, senderVars, queueVars
  <1>3. Elements(outgoing') = Elements(outgoing) /\ Elements(resendList') = Elements(resendList)
    BY <1>2
  <1>4. p \in InPlay /\ p \in Packets /\ x.number \in Nat BY <1>1, InPlayIn, Types
  <1>5. <<x.number, p>> \in Numbered BY NumberedIn
  <1>6. Numbered' \subseteq Numbered
    <2>1. \A r \in Elements(resendList') : <<r.number, r.packet>> \in Numbered BY <1>3, NumberedIn
    <2>2. \A y \in net' : <<y.number, y.packet>> \in Numbered BY <1>2, NumberedIn
    <2> QED BY <2>1, <2>2, NumberedNext
  <1>7. Elements(Queued)' = Elements(Queued) BY <1>1, <1>3, InPlayPieces, InPlayPiecesNext
  <1>8. InPlay' \subseteq InPlay
    <2>1. \A r \in Elements(resendList') : r.packet \in InPlay BY <1>1, <1>3, InPlayIn
    <2>2. \A q \in Elements(outgoing') : q \in InPlay BY <1>1, <1>3, InPlayIn
    <2>3. \A y \in net' : y.packet \in InPlay BY <1>1, <1>2, InPlayIn
    <2>4. Held' \subseteq InPlay BY <1>1, <1>4, ReceiveHeld, InPlayIn
    <2> QED BY <2>1, <2>2, <2>3, <2>4, InPlayNext
  <1>9. StageInv' BY <1>2, <1>7, <1>8, StageKept
  <1>10. CASE ~Accepted(x.number) /\ UNCHANGED receiverVars
    <2>1. UNCHANGED <<base, got, channels, delivered>> BY <1>10 DEF receiverVars
    <2>2. Held' = Held BY <2>1 DEF Held
    <2>3. OnceInv' /\ Awaited' \subseteq Awaited BY <1>2, <1>6, <2>1, <2>2, OnceKept
    <2>4. CountInv' BY <1>1, <1>2, <1>7, <2>1, <2>3, CountKept
    <2> QED BY <1>9, <2>3, <2>4
  <1>11. CASE /\ \A i \in Nat : Received(i)' <=> Received(i) \/ i = x.number
              /\ Accepted(x.number)
              /\ \/ p.count = 0 /\ delivered' = [delivered EXCEPT ![p.message] = @ + 1]
                 \/ p.count > 0 /\ Insert(p)
    <2>1. ~Received(x.number)
      <3>1. x.number >= base /\ x.number \notin got BY <1>11 DEF Accepted
      <3>2. base \in Nat BY <1>1, Types
      <3> QED BY <1>4, <3>1, <3>2 DEF Received
    <2>2. p \in Awaited
      <3>1. <<x.number, p>>[1] = x.number /\ <<x.number, p>>[2] = p OBVIOUS
      <3> HIDE DEF p
      <3> QED BY <1>1, <1>5, <2>1, <3>1, AwaitedInPlay
    <2>3. Awaited' \subseteq Awaited \ {p}
      <3>1. \A q \in Elements(outgoing') : q \in Awaited \ {p}
        <4>1. <<x.number, p>>[2] \notin Elements(outgoing) BY <1>5 DEF OnceInv
        <4>2. p \notin Elements(outgoing) BY <4>1
        <4> QED BY <1>1, <1>3, <4>2, AwaitedInPlay
      <3>2. ASSUME NEW a \in Numbered', ~Received(a[1])' PROVE a[2] \in Awaited \ {p}
        <4>1. a \in Numbered /\ a[1] \in Nat BY <1>1, <1>6, AwaitedInPlay
        <4>2. ~Received(a[1]) /\ a[1] # x.number BY <1>11, <3>2, <4>1
        <4>3. a[2] # p
          <5>1. a[2] = <<x.number, p>>[2] => a[1] = <<x.number, p>>[1] BY <1>5, <4>1 DEF OnceInv
          <5> QED BY <4>2, <5>1
        <4>4. a[2] \in Awaited BY <1>1, <4>1, <4>2, AwaitedInPlay
        <4> QED BY <4>3, <4>4
      <3> QED BY <3>1, <3>2, AwaitedNext
    <2>4. Held' \subseteq Held \cup {p} BY <1>1, ReceiveHeld
    <2>5. OnceInv'
      <3>1. Distinct(outgoing)' BY <1>2 DEF OnceInv, Distinct
      <3>2. Elements(outgoing)' = Elements(outgoing) BY <1>2 DEF Elements
      <3>3. \A a, b \in Numbered' : a[2] = b[2] => a[1] = b[1] BY <1>6 DEF OnceInv
      <3>4. \A a \in Numbered' : a[2] \notin Elements(outgoing)' BY <1>6, <3>2 DEF OnceInv
      <3>5. \A q \in Held' : q \notin Awaited' BY <2>3, <2>4 DEF OnceInv
      <3> QED BY <3>1, <3>3, <3>4, <3>5 DEF OnceInv
    <2>6. \/ UNCHANGED delivered
          \/ /\ delivered' = [delivered EXCEPT ![p.message] = @ + 1]
             /\ \A q \in Awaited' : q.message = p.message => ~(q.id = p.id /\ q.count = p.count)
      <3>1. \A q \in Awaited' : q \in Awaited /\ q \in InPlay /\ q # p BY <1>1, <2>3, AwaitedInPlay
      <3>2. CASE p.count = 0 /\ delivered' = [delivered EXCEPT ![p.message] = @ + 1]
        <4>1. ASSUME NEW q \in Awaited', q.message = p.message, q.count = p.count PROVE FALSE
          <5>1. p \in Elements(Whole(p.message)) /\ q \in Elements(Whole(p.message))
            BY <1>4, <3>1, <3>2, <4>1 DEF StageInv
          <5>2. p.message \in Messages BY <1>4 DEF Packets
          <5>3. q = p BY <5>1, <5>2, WholeUnique
          <5> QED BY <3>1, <5>3
        <4> QED BY <3>2, <4>1
      <3>3. CASE p.count > 0 /\ Insert(p)
        <4>1. \/ UNCHANGED delivered
              \/ /\ delivered' = [delivered EXCEPT ![p.message] = @ + 1]
                 /\ \A q \in InPlay : q.count > 0 /\ q.id = p.id => q \in Held \cup {p}
          BY <1>1, <1>4, <3>3, InsertDelivers
        <4>2. \A q \in Held : q \notin Awaited BY DEF OnceInv
        <4> QED BY <3>1, <3>3, <4>1, <4>2
      <3> QED BY <1>11, <3>2, <3>3
    <2>7. Awaited' \subseteq Awaited BY <2>3
    <2>8. CASE UNCHANGED delivered
      <3>1. CountInv' BY <1>1, <1>2, <1>7, <2>7, <2>8, CountKept
      <3> QED BY <1>9, <2>5, <3>1
    <2>9. CASE /\ delivered' = [delivered EXCEPT ![p.message] = @ + 1]
               /\ \A q \in Awaited' : q.message = p.message => ~(q.id = p.id /\ q.count = p.count)
      <3> HIDE DEF p
      <3>1. delivered \in [Messages -> Nat] /\ mtu \in Nat /\ p.message \in Messages
            /\ p.message \in sent
        <4>1. delivered \in [Messages -> Nat] /\ mtu \in Nat BY <1>1, ConstantTypes DEF TypeOK
        <4>2. p.message \in Messages BY <1>4 DEF Packets
        <4>3. p.message \in sent BY <1>4 DEF StageInv
        <4> QED BY <4>1, <4>2, <4>3
      <3>2. ASSUME NEW k \in Messages
            PROVE  /\ IsFiniteSet(Copies(k)') /\ delivered'[k] + Cardinality(Copies(k)') <= mtu'
                   /\ receipts'[k] <= mtu'
                   /\ (\E q \in Elements(Queued)' : q.message = k /\ EarnsReceipt(q))
                        => receipts'[k] + 1 <= mtu'
                   /\ k \notin sent' => delivered'[k] = 0 /\ receipts'[k] = 0
        <4>1. /\ IsFiniteSet(Copies(k)) /\ delivered[k] + Cardinality(Copies(k)) <= mtu
              /\ receipts[k] <= mtu
              /\ (\E q \in Elements(Queued) : q.message = k /\ EarnsReceipt(q)) => receipts[k] + 1 <= mtu
              /\ k \notin sent => delivered[k] = 0 /\ receipts[k] = 0
          BY DEF CountInv
        <4>2. /\ IsFiniteSet(Copies(k)') /\ Cardinality(Copies(k)') <= Cardinality(Copies(k))
              /\ Cardinality(Copies(k)) \in Nat /\ Cardinality(Copies(k)') \in Nat
              /\ Copies(k)' \subseteq Copies(k)
          BY <2>7, <4>1, CopiesFewer
        <4>3. delivered[k] \in Nat BY <3>1
        <4>4. CASE k # p.message
          <5>1. delivered'[k] = delivered[k] BY <2>9, <3>1, <4>4
          <5>2. delivered'[k] + Cardinality(Copies(k)') <= mtu BY <3>1, <4>1, <4>2, <4>3, <5>1
          <5> QED BY <1>2, <1>7, <4>1, <4>2, <5>1, <5>2
        <4>5. CASE k = p.message
          <5> DEFINE key == <<p.id, p.count>>
                     R == Copies(k) \ {key}
          <5>1. delivered'[k] = delivered[k] + 1 BY <2>9, <3>1, <4>5
          <5>2. key \in Copies(k) BY <2>2, <4>5 DEF Copies
          <5>3. Copies(k)' = {<<q.id, q.count>> : q \in {u \in Awaited' : u.message = k}} BY DEF Copies
          <5>4. key \notin Copies(k)' BY <2>9, <4>5, <5>3
          <5>5. Copies(k)' \subseteq R BY <4>2, <5>4
          <5> HIDE DEF key
          <5>6. IsFiniteSet(R) /\ Cardinality(R) = Cardinality(Copies(k)) - 1
            BY <4>1, <5>2, FS_RemoveElement
          <5> HIDE DEF R
          <5>7. Cardinality(Copies(k)') <= Cardinality(R) BY <5>5, <5>6, FS_Subset
          <5>8. delivered'[k] + Cardinality(Copies(k)') <= mtu
            BY <3>1, <4>1, <4>2, <4>3, <5>1, <5>6, <5>7
          <5> QED BY <1>2, <1>7, <3>1, <4>1, <4>2, <4>5, <5>8
        <4> QED BY <4>4, <4>5
      <3>3. CountInv' BY <3>2, CountNext
      <3> QED BY <1>9, <2>5, <3>3
    <2> QED BY <2>6, <2>8, <2>9
  <1>12. Accepted(x.number) \/ (~Accepted(x.number) /\ UNCHANGED receiverVars) BY DEF ReceivePacket
  <1> QED BY <1>1, <1>10, <1>11, <1>12, AcceptEffect

(* Every step keeps the three.                                             *)
LEMMA OnceStep ==
  ASSUME StructureInv, TypeOK', IdsApart, NeverGarbled, OnceInv, StageInv, CountInv, [Next]_vars
  PROVE  OnceInv' /\ StageInv' /\ CountInv'
  <1> USE DEF queueVars, senderVars, receiverVars
  <1>0. TypeOK /\ NumberInv /\ SplitInv /\ ChannelInv BY DEF StructureInv
  <1>1. ASSUME UNCHANGED <<sent, outgoing, receipts, mtu, base, got, channels, delivered>>,
               \A r \in Elements(resendList') : \E s \in Elements(resendList) :
                 r.number = s.number /\ r.packet = s.packet,
               \A x \in net' : x \in net \/ \E s \in Elements(resendList) :
                 x.number = s.number /\ x.packet = s.packet
        PROVE  OnceInv' /\ StageInv' /\ CountInv'
    <2>1. Held' = Held BY <1>1 DEF Held
    <2>2. Elements(outgoing') = Elements(outgoing) BY <1>1
    <2>3. Numbered' \subseteq Numbered
      <3>1. \A r \in Elements(resendList') : <<r.number, r.packet>> \in Numbered BY <1>1, NumberedIn
      <3>2. \A x \in net' : <<x.number, x.packet>> \in Numbered BY <1>1, NumberedIn
      <3> QED BY <3>1, <3>2, NumberedNext
    <2>4. InPlay' \subseteq InPlay
      <3>1. \A r \in Elements(resendList') : r.packet \in InPlay BY <1>0, <1>1, InPlayIn
      <3>2. \A q \in Elements(outgoing') : q \in InPlay BY <1>0, <2>2, InPlayIn
      <3>3. \A x \in net' : x.packet \in InPlay BY <1>0, <1>1, InPlayIn
      <3>4. Held' \subseteq InPlay BY <1>0, <2>1, InPlayIn
      <3> QED BY <3>1, <3>2, <3>3, <3>4, InPlayNext
    <2>5. Elements(Queued)' \subseteq Elements(Queued)
      <3>1. \A r \in Elements(resendList') : r.packet \in Elements(Queued) BY <1>0, <1>1, InPlayPieces
      <3>2. \A q \in Elements(outgoing') : q \in Elements(Queued) BY <1>0, <2>2, InPlayPieces
      <3> QED BY <3>1, <3>2, InPlayPiecesNext
    <2>6. OnceInv' /\ Awaited' \subseteq Awaited BY <1>1, <2>1, <2>3, OnceKept
    <2>7. StageInv' BY <1>1, <2>4, <2>5, StageKept
    <2>8. CountInv' BY <1>0, <1>1, <2>5, <2>6, CountKept
    <2> QED BY <2>6, <2>7, <2>8
  <1>2. ASSUME UNCHANGED <<sent, outgoing, receipts, mtu, base, got, channels, delivered, resendList>>,
               net' \subseteq net
        PROVE  OnceInv' /\ StageInv' /\ CountInv'
    <2>1. Elements(resendList') = Elements(resendList) BY <1>2
    <2> QED BY <1>1, <1>2, <2>1
  <1>3. ASSUME NEW m \in Messages, Send(m) PROVE OnceInv' /\ StageInv' /\ CountInv'
    BY <1>0, <1>3, OnceSend
  <1>4. ASSUME UpdateBegin PROVE OnceInv' /\ StageInv' /\ CountInv'
    <2>1. UNCHANGED <<sent, net, channels, base, got, delivered, receipts>> BY <1>4 DEF UpdateBegin
    <2>2. CASE StepDownMtuAfterBlackHole /\ mtu < Len(Ladder)
      BY <1>0, <2>1, <2>2, OnceStepDown
    <2>3. CASE UNCHANGED <<outgoing, resendList, mtu>> BY <1>2, <2>1, <2>3
    <2> QED BY <1>4, <2>2, <2>3 DEF UpdateBegin, ShouldStepDownMtu
  <1>5. ASSUME Resend PROVE OnceInv' /\ StageInv' /\ CountInv'
    <2> DEFINE h == Head(resendList)
    <2>1. /\ h \in Elements(resendList)
          /\ net' \subseteq net \cup {[number |-> h.number, packet |-> h.packet]}
          /\ \E s \in Resends : /\ s.number = h.number /\ s.packet = h.packet
                                /\ Elements(resendList') \subseteq Elements(resendList) \cup {s}
      BY <1>0, <1>5, ResendEffect
    <2>2. UNCHANGED <<sent, outgoing, receipts, mtu, base, got, channels, delivered>>
      BY <1>5 DEF Resend
    <2> HIDE DEF h
    <2>3. \A r \in Elements(resendList') : \E s \in Elements(resendList) :
            r.number = s.number /\ r.packet = s.packet
      BY <2>1
    <2>4. \A x \in net' : x \in net \/ (x.number = h.number /\ x.packet = h.packet) BY <2>1
    <2>5. \A x \in net' : x \in net \/ \E s \in Elements(resendList) :
            x.number = s.number /\ x.packet = s.packet
      BY <2>1, <2>4
    <2> QED BY <1>1, <2>2, <2>3, <2>5
  <1>6. ASSUME Transmit PROVE OnceInv' /\ StageInv' /\ CountInv' BY <1>0, <1>6, OnceTransmit
  <1>7. ASSUME UpdateEnd PROVE OnceInv' /\ StageInv' /\ CountInv' BY <1>2, <1>7 DEF UpdateEnd
  <1>8. ASSUME NEW r \in Elements(resendList), Timeout(r) PROVE OnceInv' /\ StageInv' /\ CountInv'
    BY <1>2, <1>8 DEF Timeout
  <1>9. ASSUME NEW n \in acks, ReceiveAck(n) PROVE OnceInv' /\ StageInv' /\ CountInv'
    BY <1>0, <1>9, OnceAck
  <1>10. ASSUME NEW x \in net, ReceivePacket(x) PROVE OnceInv' /\ StageInv' /\ CountInv'
    BY <1>10, OnceReceive
  <1>11. ASSUME Lose PROVE OnceInv' /\ StageInv' /\ CountInv' BY <1>2, <1>11 DEF Lose
  <1>12. ASSUME UNCHANGED vars PROVE OnceInv' /\ StageInv' /\ CountInv' BY <1>2, <1>12 DEF vars
  <1> QED BY <1>3, <1>4, <1>5, <1>6, <1>7, <1>8, <1>9, <1>10, <1>11, <1>12 DEF Next, SenderLoop

(* Everything the proof of DeliveredOncePerSplit carries along.            *)
RepeatInv == StructureInv /\ NeverGarbled /\ OnceInv /\ StageInv /\ CountInv

(* It holds at first.                                                      *)
LEMMA RepeatInit == ASSUME Init PROVE RepeatInv
  <1>1. StructureInv /\ NeverGarbled BY StructureInit
  <1>2. TypeOK BY <1>1 DEF StructureInv
  <1>3. Held = {} /\ net = {} /\ outgoing = <<>> /\ sent = {} /\ mtu = 1 BY DEF Init, Held
  <1>4. Elements(resendList) = {} /\ Elements(outgoing) = {} BY InitElements
  <1>5. Numbered = {} BY <1>3, <1>4 DEF Numbered
  <1>6. InPlay = {} /\ Elements(Queued) = {} BY <1>2, <1>3, <1>4, InPlayPieces
  <1>7. OnceInv BY <1>3, <1>5 DEF OnceInv, Distinct
  <1>8. StageInv BY <1>6 DEF StageInv
  <1>9. CountInv
    <2> SUFFICES ASSUME NEW m \in Messages
                 PROVE  /\ IsFiniteSet(Copies(m)) /\ delivered[m] + Cardinality(Copies(m)) <= mtu
                        /\ receipts[m] <= mtu /\ delivered[m] = 0 /\ receipts[m] = 0
      BY <1>6 DEF CountInv
    <2>1. delivered[m] = 0 /\ receipts[m] = 0 BY DEF Init
    <2>2. Awaited = {} BY <1>4, <1>5 DEF Awaited
    <2>3. Copies(m) = {} BY <2>2 DEF Copies
    <2>4. IsFiniteSet({}) /\ Cardinality({}) = 0 BY FS_EmptySet
    <2> QED BY <1>3, <2>1, <2>3, <2>4
  <1> QED BY <1>1, <1>7, <1>8, <1>9 DEF RepeatInv

(* Every step keeps it as long as the ids in play differ on the wire.      *)
LEMMA RepeatStep == ASSUME RepeatInv, IdsApart, [Next]_vars PROVE RepeatInv'
  <1>1. StructureInv /\ NeverGarbled /\ OnceInv /\ StageInv /\ CountInv BY DEF RepeatInv
  <1>2. StructureInv' /\ TypeOK' BY <1>1, StructureStep DEF StructureInv
  <1>3. NeverGarbled' BY <1>1, GarbledStep DEF StructureInv
  <1>4. OnceInv' /\ StageInv' /\ CountInv' BY <1>1, <1>2, OnceStep
  <1> QED BY <1>2, <1>3, <1>4 DEF RepeatInv

(* One delivery and one receipt of a message for each rung of the ladder   *)
(* the sender has used (currentMtuBytes).                                  *)
DeliveredOncePerSplit == \A m \in Messages : delivered[m] <= mtu /\ receipts[m] <= mtu

(* It says that nothing came out more often than there were rungs.         *)
LEMMA RepeatBounds == ASSUME RepeatInv PROVE DeliveredOncePerSplit
  <1> SUFFICES ASSUME NEW m \in Messages PROVE delivered[m] <= mtu /\ receipts[m] <= mtu
    BY DEF DeliveredOncePerSplit
  <1>1. IsFiniteSet(Copies(m)) /\ delivered[m] + Cardinality(Copies(m)) <= mtu /\ receipts[m] <= mtu
    BY DEF RepeatInv, CountInv
  <1>2. Cardinality(Copies(m)) \in Nat BY <1>1, FS_CardinalityType
  <1>3. delivered[m] \in Nat /\ mtu \in Nat BY ConstantTypes DEF RepeatInv, StructureInv, TypeOK
  <1> QED BY <1>1, <1>2, <1>3

(* However often packets are lost, resent or timed out early, a message    *)
(* comes out, and earns a receipt, at most once for each rung the sender   *)
(* has used.  ReSplitOversizedMessages does repeat a delivery (TLC refutes *)
(* DeliveredOnce); nothing else does, also not under one rung.  No limit on*)
(* the holes is needed: a number the receiver drops costs a delivery and   *)
(* never adds one.                                                         *)
THEOREM DeliveredOncePerSplitAlways == Spec /\ []IdsApart => []DeliveredOncePerSplit
  <1>1. Init => RepeatInv BY RepeatInit
  <1>2. RepeatInv /\ IdsApart /\ [Next]_vars => RepeatInv' BY RepeatStep
  <1>3. RepeatInv => DeliveredOncePerSplit BY RepeatBounds
  <1> QED BY <1>1, <1>2, <1>3, PTL DEF Spec

(* When the sender's queues are empty every message it sent was delivered, *)
(* once if the MTU was never stepped down and at most once more for each   *)
(* step: also the ones ReSplitOversizedMessages took apart are not lost.   *)
THEOREM DrainedMeansDelivered ==
  Spec /\ []IdsApart /\ []HolesFew =>
    [](Elements(Queued) = {} => \A m \in sent : delivered[m] \in 1 .. mtu)
  <1>1. TypeOK /\ NothingMissing /\ DeliveredOncePerSplit =>
          (Elements(Queued) = {} => \A m \in sent : delivered[m] \in 1 .. mtu)
    <2> SUFFICES ASSUME TypeOK, NothingMissing, DeliveredOncePerSplit, Elements(Queued) = {},
                        NEW m \in sent
                 PROVE  delivered[m] \in 1 .. mtu
      OBVIOUS
    <2>1. m \in Messages /\ delivered[m] \in Nat /\ mtu \in Nat BY ConstantTypes DEF TypeOK
    <2>2. delivered[m] # 0 BY DEF NothingMissing
    <2>3. delivered[m] <= mtu BY <2>1 DEF DeliveredOncePerSplit
    <2> QED BY <2>1, <2>2, <2>3
  <1> QED BY <1>1, TypeCorrect, NothingMissingAlways, DeliveredOncePerSplitAlways, PTL
=============================================================================
