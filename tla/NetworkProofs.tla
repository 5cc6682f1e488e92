--------------------------- MODULE NetworkProofs ---------------------------
(***************************************************************************)
(* What holds of Network for every size of bytes and buffers, every set of *)
(* packets and any number of them.                                         *)
(***************************************************************************)
EXTENDS Network, SequenceTheorems, TLAPS

-----------------------------------------------------------------------------
(***************************************************************************)
(* The metaserver thread.                                                  *)
(***************************************************************************)

\* Who holds ms2_signal, and what it says about the two threads.
SignalInv ==
    /\ main = "init" => signal = Nobody /\ thread = "none"
    /\ main \in {"loop", "update"} => signal = "main"
    /\ main = "exit" => signal = "main" \/ thread = "none"
    /\ main = "gone" => thread \in {"none", "ended"}
    /\ thread = "cleanup" => main = "join" /\ signal = "thread"
    /\ signal = "thread" => thread = "cleanup"

\* Who holds ms2_info_mutex, and what is known of the figures meanwhile.
InfoInv ==
    /\ main = "update" <=> info = "main"
    /\ thread = "copy" <=> info = "thread"
    /\ info # "main" => figures.players = figures.bytes
    /\ thread = "copy" => report.players = figures.players
    /\ thread = "send" => report.players = report.bytes

LEMMA MetaserverInitially == Init => MetaserverTypeOK /\ SignalInv /\ InfoInv
  BY DEF Init, MetaserverInit, MetaserverTypeOK, SignalInv, InfoInv, Figures, Updates, Nobody

LEMMA FiguresFields ==
  ASSUME NEW f \in Figures
  PROVE  /\ f.players \in Updates /\ f.bytes \in Updates
         /\ \A u \in Updates : /\ [f EXCEPT !.players = u] \in Figures
                               /\ [f EXCEPT !.players = u].players = u
                               /\ [f EXCEPT !.players = u].bytes = f.bytes
                               /\ [f EXCEPT !.bytes = u] \in Figures
                               /\ [f EXCEPT !.bytes = u].bytes = u
                               /\ [f EXCEPT !.bytes = u].players = f.players
         /\ 1 - f.players \in Updates
  BY DEF Figures, Updates

LEMMA MainStepKeeps ==
  ASSUME MetaserverTypeOK, SignalInv, InfoInv, MainStep
  PROVE  (MetaserverTypeOK /\ SignalInv /\ InfoInv)'
<1> USE DEF MetaserverTypeOK, SignalInv, InfoInv, Nobody
<1>1. CASE metaserver2_init
  BY <1>1 DEF metaserver2_init
<1>2. CASE ExitEarly
  BY <1>2 DEF ExitEarly
<1>a. figures \in Figures
  OBVIOUS
<1>b. /\ figures.players \in Updates /\ 1 - figures.players \in Updates
      /\ \A u \in Updates : /\ [figures EXCEPT !.players = u] \in Figures
                            /\ [figures EXCEPT !.bytes = u] \in Figures
                            /\ [figures EXCEPT !.bytes = u].bytes = u
                            /\ [figures EXCEPT !.bytes = u].players = figures.players
  BY <1>a, FiguresFields
<1>3. CASE metaserver_update
  BY <1>3, <1>b DEF metaserver_update
<1>4. CASE UpdateRest
  BY <1>4, <1>b DEF UpdateRest
<1>5. CASE cleanup
  BY <1>5 DEF cleanup
<1>6. CASE metaserver2_exit
  BY <1>6 DEF metaserver2_exit
<1>7. CASE Join
  BY <1>7 DEF Join
<1> QED
  BY <1>1, <1>2, <1>3, <1>4, <1>5, <1>6, <1>7 DEF MainStep

LEMMA ThreadStepKeeps ==
  ASSUME MetaserverTypeOK, SignalInv, InfoInv, ThreadStep
  PROVE  (MetaserverTypeOK /\ SignalInv /\ InfoInv)'
<1> USE DEF MetaserverTypeOK, SignalInv, InfoInv, Nobody, ThreadGoes
<1>1. CASE StartThread
  BY <1>1 DEF StartThread
<1>2. CASE Top
  BY <1>2 DEF Top
<1>3. CASE metaserver2_build_mime
  BY <1>3, FiguresFields DEF metaserver2_build_mime
<1>4. CASE BuildRest
  BY <1>4, FiguresFields DEF BuildRest
<1>5. CASE Perform
  BY <1>5 DEF Perform
<1>6. CASE TryLock
  BY <1>6 DEF TryLock
<1>7. CASE Timeout
  BY <1>7 DEF Timeout
<1>8. CASE EndThread
  BY <1>8 DEF EndThread
<1> QED
  BY <1>1, <1>2, <1>3, <1>4, <1>5, <1>6, <1>7, <1>8 DEF ThreadStep

LEMMA MetaserverNext ==
  ASSUME MetaserverTypeOK, SignalInv, InfoInv, [Next]_vars
  PROVE  (MetaserverTypeOK /\ SignalInv /\ InfoInv)'
<1>1. CASE UNCHANGED metaserver
  BY <1>1 DEF metaserver, MetaserverTypeOK, SignalInv, InfoInv
<1>2. CASE MainStep
  BY <1>2, MainStepKeeps
<1>3. CASE ThreadStep
  BY <1>3, ThreadStepKeeps
<1> QED
  BY <1>1, <1>2, <1>3 DEF Next, MainNext, ThreadNext, ClientNext, vars

LEMMA MetaserverAlways == Spec => [](MetaserverTypeOK /\ SignalInv /\ InfoInv)
  BY MetaserverInitially, MetaserverNext, PTL DEF Spec

\* The figures of a report are all of one update.
THEOREM ReportsWhole == Spec => []FiguresWhole
<1>1. InfoInv => FiguresWhole
  BY DEF InfoInv, FiguresWhole
<1> QED
  BY <1>1, MetaserverAlways, PTL

\* The thread stops only when the main thread joins it, and the mutex it gives
\* up then is its own.
THEOREM ThreadStopsAtExit == Spec => []StopsOnlyAtExit
<1>1. SignalInv => StopsOnlyAtExit
  BY DEF SignalInv, StopsOnlyAtExit
<1> QED
  BY <1>1, MetaserverAlways, PTL

-----------------------------------------------------------------------------
(***************************************************************************)
(* The connection: types.                                                  *)
(***************************************************************************)
Bytes == 0 .. Base - 1

LEMMA DivMod ==
  ASSUME NEW b \in Nat \ {0}, NEW a \in Nat
  PROVE  /\ a \div b \in Nat /\ a % b \in 0 .. b - 1
         /\ a = b * (a \div b) + (a % b)
  BY Z3

LEMMA DivSmall ==
  ASSUME NEW b \in Nat \ {0}, NEW a \in Nat, a < b * b
  PROVE  a \div b < b
<1> DEFINE q == a \div b
           r == a % b
<1>1. q \in Nat /\ r \in 0 .. b - 1 /\ a = b * q + r
  BY DivMod
<1> HIDE DEF q, r
<1>2. ASSUME q >= b PROVE FALSE
  <2>1. b * q >= b * b
    BY <1>1, <1>2, Z3
  <2> QED
    BY <2>1, <1>1
<1> QED
  BY <1>1, <1>2 DEF q

\* The bytes of a packet: its length in two of them, then its content.
LEMMA Encoded ==
  ASSUME NEW p \in Packets
  PROVE  /\ p \in Seq(Bytes)
         /\ Encode(p) \in Seq(Bytes)
         /\ Len(Encode(p)) = Len(p) + 2
         /\ Encode(p)[1] = Len(p) \div Base /\ Encode(p)[2] = Len(p) % Base
         /\ \A j \in 1 .. Len(p) : Encode(p)[2 + j] = p[j]
<1>0. p \in Seq(Bytes)
  BY FramingAssumption DEF Bytes
<1>9. Base \in Nat \ {0}
  BY FramingAssumption
<1>8. Len(p) < Base * Base
  BY FramingAssumption, Zenon
<1>1. p \in Seq(Bytes) /\ Len(p) < Base * Base /\ Base \in Nat \ {0}
  BY <1>0, <1>8, <1>9
<1> DEFINE hi == Len(p) \div Base
           lo == Len(p) % Base
           head == <<hi, lo>>
<1>2. hi \in Bytes /\ lo \in Bytes
  <2>1. Len(p) \in Nat
    BY <1>0
  <2>2. hi \in Nat /\ lo \in 0 .. Base - 1
    BY <2>1, <1>9, DivMod
  <2>3. hi < Base
    BY <2>1, <1>9, <1>8, DivSmall
  <2> HIDE DEF hi, lo
  <2> QED
    BY <2>2, <2>3, <1>9 DEF Bytes
<1> HIDE DEF hi, lo
<1>3. head \in Seq(Bytes) /\ Len(head) = 2 /\ head[1] = hi /\ head[2] = lo
  BY <1>2
<1> HIDE DEF head
<1>4. Encode(p) = head \o p
  BY DEF Encode, head, hi, lo
<1>5. /\ head \o p \in Seq(Bytes)
      /\ Len(head \o p) = 2 + Len(p)
      /\ \A i \in 1 .. 2 + Len(p) : (head \o p)[i] = IF i <= 2 THEN head[i] ELSE p[i - 2]
  <2>1. /\ head \o p \in Seq(Bytes)
        /\ Len(head \o p) = Len(head) + Len(p)
        /\ \A i \in 1 .. Len(head) + Len(p) :
              (head \o p)[i] = IF i <= Len(head) THEN head[i] ELSE p[i - Len(head)]
    BY <1>0, <1>3, ConcatProperties
  <2> QED
    BY <2>1, <1>3
<1>6. Len(p) \in Nat
  BY <1>1
<1>7. \A j \in 1 .. Len(p) : (head \o p)[2 + j] = p[j]
  BY <1>5, <1>6
<1> QED
  BY <1>1, <1>3, <1>4, <1>5, <1>6, <1>7 DEF hi, lo

\* Reading k bytes of those that have arrived.
LEMMA ReadBytes ==
  ASSUME NEW s \in Seq(Bytes), NEW k \in 1 .. Len(s)
  PROVE  /\ SubSeq(s, 1, k) \in Seq(Bytes) /\ Len(SubSeq(s, 1, k)) = k
         /\ \A j \in 1 .. k : SubSeq(s, 1, k)[j] = s[j]
         /\ SubSeq(s, k + 1, Len(s)) \in Seq(Bytes)
         /\ Len(SubSeq(s, k + 1, Len(s))) = Len(s) - k
         /\ \A j \in 1 .. Len(s) - k : SubSeq(s, k + 1, Len(s))[j] = s[k + j]
<1>1. Len(s) \in Nat /\ \A i \in 1 .. Len(s) : s[i] \in Bytes
  OBVIOUS
<1>2. /\ SubSeq(s, 1, k) \in Seq(Bytes)
      /\ Len(SubSeq(s, 1, k)) = IF 1 <= k THEN k - 1 + 1 ELSE 0
      /\ \A i \in 1 .. k - 1 + 1 : SubSeq(s, 1, k)[i] = s[1 + i - 1]
  BY <1>1, SubSeqProperties
<1>3. /\ SubSeq(s, k + 1, Len(s)) \in Seq(Bytes)
      /\ Len(SubSeq(s, k + 1, Len(s))) = IF k + 1 <= Len(s) THEN Len(s) - (k + 1) + 1 ELSE 0
      /\ \A i \in 1 .. Len(s) - (k + 1) + 1 : SubSeq(s, k + 1, Len(s))[i] = s[k + 1 + i - 1]
  <2>1. \A i \in k + 1 .. Len(s) : s[i] \in Bytes
    BY <1>1
  <2> QED
    BY <1>1, <2>1, SubSeqProperties
<1> QED
  BY <1>1, <1>2, <1>3

-----------------------------------------------------------------------------
(***************************************************************************)
(* The connection: what is read is what was sent.                          *)
(***************************************************************************)

\* The bytes all are those of the packets of s, packet i after the first o[i].
Cuts(all, o, s) ==
    /\ o[Len(s) + 1] = Len(all)
    /\ \A i \in 1 .. Len(s) :
          /\ o[i + 1] = o[i] + 2 + Len(s[i]) /\ o[i + 1] <= Len(all)
          /\ all[o[i] + 1] = Len(s[i]) \div Base
          /\ all[o[i] + 2] = Len(s[i]) % Base
          /\ \A j \in 1 .. Len(s[i]) : all[o[i] + 2 + j] = s[i][j]

\* After b of them, buf was read and w not yet, unless the client reset.
Position(all, b, buf, w, c) ==
    /\ b + Len(buf) <= Len(all)
    /\ \A j \in 1 .. Len(buf) : buf[j] = all[b + j]
    /\ IF c = "reset"
       THEN w = <<>>
       ELSE /\ Len(w) = Len(all) - (b + Len(buf))
            /\ \A j \in 1 .. Len(w) : w[j] = all[b + Len(buf) + j]

StreamInv ==
    \E all \in Seq(Bytes) : \E o \in [1 .. Len(sent) + 1 -> Nat] :
        /\ Cuts(all, o, sent)
        /\ Position(all, o[Len(done) + 1], inbuf, wire, closed)

HandlerInv ==
    /\ Len(done) <= Len(sent)
    /\ serving => up
    /\ Len(inbuf) > 2 => Len(inbuf) < Declared
    /\ handler = Queue!Handler

FramingInv == FramingTypeOK /\ StreamInv /\ HandlerInv

\* One sequence after another, position by position.
LEMMA Joined ==
  ASSUME NEW g \in Seq(Bytes), NEW h \in Seq(Bytes)
  PROVE  /\ g \o h \in Seq(Bytes) /\ Len(g \o h) = Len(g) + Len(h)
         /\ \A k \in 1 .. Len(g) : (g \o h)[k] = g[k]
         /\ \A k \in 1 .. Len(h) : (g \o h)[Len(g) + k] = h[k]
<1>1. /\ g \o h \in Seq(Bytes) /\ Len(g \o h) = Len(g) + Len(h)
      /\ \A i \in 1 .. Len(g) + Len(h) :
            (g \o h)[i] = IF i <= Len(g) THEN g[i] ELSE h[i - Len(g)]
  BY ConcatProperties
<1>2. Len(g) \in Nat /\ Len(h) \in Nat
  OBVIOUS
<1>3. ASSUME NEW k \in 1 .. Len(h) PROVE (g \o h)[Len(g) + k] = h[k]
  <2>1. /\ Len(g) + k \in 1 .. Len(g) + Len(h) /\ ~(Len(g) + k <= Len(g))
        /\ (Len(g) + k) - Len(g) = k
    BY <1>2
  <2> QED
    BY <1>1, <2>1
<1>4. ASSUME NEW k \in 1 .. Len(g) PROVE (g \o h)[k] = g[k]
  <2>1. k \in 1 .. Len(g) + Len(h) /\ k <= Len(g)
    BY <1>2
  <2> QED
    BY <1>1, <2>1
<1> QED
  BY <1>1, <1>3, <1>4

\* A packet of l bytes after the first x of g is there in a continuation of g.
LEMMA SamePacket ==
  ASSUME NEW f \in Seq(Bytes), NEW g \in Seq(Bytes), NEW x \in Nat, NEW l \in Nat,
         x + 2 + l <= Len(g),
         \A k \in 1 .. Len(g) : f[k] = g[k]
  PROVE  /\ f[x + 1] = g[x + 1] /\ f[x + 2] = g[x + 2]
         /\ \A j \in 1 .. l : f[x + 2 + j] = g[x + 2 + j]
<1>1. /\ x + 1 \in 1 .. Len(g) /\ x + 2 \in 1 .. Len(g)
      /\ \A j \in 1 .. l : x + 2 + j \in 1 .. Len(g)
  OBVIOUS
<1> QED
  BY <1>1

\* One more packet, at the end of all.
LEMMA CutsMore ==
  ASSUME NEW all \in Seq(Bytes), NEW s \in Seq(Packets), NEW o \in [1 .. Len(s) + 1 -> Nat],
         Cuts(all, o, s), NEW p \in Packets,
         NEW b \in Nat, NEW buf \in Seq(Bytes), NEW w \in Seq(Bytes), NEW c, c # "reset",
         Position(all, b, buf, w, c)
  PROVE  LET o2 == [i \in 1 .. Len(s) + 2 |->
                      IF i <= Len(s) + 1 THEN o[i] ELSE Len(all) + 2 + Len(p)]
         IN  /\ all \o Encode(p) \in Seq(Bytes)
             /\ o2 \in [1 .. Len(Append(s, p)) + 1 -> Nat]
             /\ \A i \in 1 .. Len(s) + 1 : o2[i] = o[i]
             /\ Cuts(all \o Encode(p), o2, Append(s, p))
             /\ Position(all \o Encode(p), b, buf, w \o Encode(p), c)
<1> DEFINE o2 == [i \in 1 .. Len(s) + 2 |->
                    IF i <= Len(s) + 1 THEN o[i] ELSE Len(all) + 2 + Len(p)]
           n == Len(s)
           code == Encode(p)
           more == all \o code
           s2 == Append(s, p)
<1>1. /\ code \in Seq(Bytes) /\ Len(code) = Len(p) + 2
      /\ code[1] = Len(p) \div Base /\ code[2] = Len(p) % Base
      /\ \A j \in 1 .. Len(p) : code[2 + j] = p[j]
  BY Encoded
<1>2. Len(p) \in Nat /\ n \in Nat /\ Len(all) \in Nat /\ Len(w) \in Nat /\ Len(buf) \in Nat
  BY FramingAssumption
<1> HIDE DEF code
<1>3. /\ more \in Seq(Bytes) /\ Len(more) = Len(all) + Len(code)
      /\ \A k \in 1 .. Len(all) : more[k] = all[k]
      /\ \A k \in 1 .. Len(code) : more[Len(all) + k] = code[k]
  BY <1>1, Joined
<1>4. /\ w \o code \in Seq(Bytes) /\ Len(w \o code) = Len(w) + Len(code)
      /\ \A k \in 1 .. Len(w) : (w \o code)[k] = w[k]
      /\ \A k \in 1 .. Len(code) : (w \o code)[Len(w) + k] = code[k]
  BY <1>1, Joined
<1> HIDE DEF more
<1>5. /\ s2 \in Seq(Packets) /\ Len(s2) = n + 1 /\ s2[n + 1] = p
      /\ \A i \in 1 .. n : s2[i] = s[i]
  BY <1>2, AppendProperties
<1> HIDE DEF s2
<1>6. /\ o2 \in [1 .. n + 2 -> Nat] /\ \A i \in 1 .. n + 1 : o2[i] = o[i]
      /\ o2[n + 2] = Len(all) + 2 + Len(p)
  BY <1>2
<1> HIDE DEF o2
<1>7. Cuts(more, o2, s2)
  <2>1. o2[Len(s2) + 1] = Len(more)
    BY <1>1, <1>2, <1>3, <1>5, <1>6
  <2>2. ASSUME NEW i \in 1 .. n
        PROVE  /\ o2[i + 1] = o2[i] + 2 + Len(s2[i]) /\ o2[i + 1] <= Len(more)
               /\ more[o2[i] + 1] = Len(s2[i]) \div Base
               /\ more[o2[i] + 2] = Len(s2[i]) % Base
               /\ \A j \in 1 .. Len(s2[i]) : more[o2[i] + 2 + j] = s2[i][j]
    <3>1. /\ o[i + 1] = o[i] + 2 + Len(s[i]) /\ o[i + 1] <= Len(all)
          /\ all[o[i] + 1] = Len(s[i]) \div Base
          /\ all[o[i] + 2] = Len(s[i]) % Base
          /\ \A j \in 1 .. Len(s[i]) : all[o[i] + 2 + j] = s[i][j]
      BY DEF Cuts
    <3>2. s2[i] = s[i] /\ o2[i] = o[i] /\ o2[i + 1] = o[i + 1] /\ o[i] \in Nat
      <4>1. i \in 1 .. n + 1 /\ i + 1 \in 1 .. n + 1
        BY <1>2
      <4> QED
        BY <4>1, <1>5, <1>6
    <3>3. Len(s[i]) \in Nat
      BY FramingAssumption
    <3>4. \A k \in 1 .. Len(all) : more[k] = all[k]
      BY <1>3
    <3>5. o[i] + 2 + Len(s[i]) <= Len(all)
      BY <3>1
    <3> DEFINE x == o[i]
               l == Len(s[i])
    <3>6. x \in Nat /\ l \in Nat /\ x + 2 + l <= Len(all)
      BY <3>2, <3>3, <3>5
    <3> HIDE DEF x, l
    <3>7. /\ more[x + 1] = all[x + 1] /\ more[x + 2] = all[x + 2]
          /\ \A j \in 1 .. l : more[x + 2 + j] = all[x + 2 + j]
      <4>1. more \in Seq(Bytes)
        BY <1>3
      <4> QED
        BY <3>4, <3>6, <4>1, SamePacket
    <3>8. x + 2 + l <= Len(more)
      <4>1. Len(code) \in Nat
        BY <1>1, <1>2
      <4> QED
        BY <4>1, <3>6, <1>2, <1>3
    <3> QED
      BY <3>1, <3>2, <3>7, <3>8 DEF x, l
  <2>3. /\ o2[n + 2] = o2[n + 1] + 2 + Len(p) /\ o2[n + 2] <= Len(more)
        /\ more[o2[n + 1] + 1] = Len(p) \div Base
        /\ more[o2[n + 1] + 2] = Len(p) % Base
        /\ \A j \in 1 .. Len(p) : more[o2[n + 1] + 2 + j] = p[j]
    <3>1. o2[n + 1] = Len(all)
      <4>1. o[n + 1] = Len(all) /\ n + 1 \in 1 .. n + 1
        BY <1>2 DEF Cuts
      <4> QED
        BY <4>1, <1>6
    <3>2. \A k \in 1 .. Len(code) : more[Len(all) + k] = code[k]
      BY <1>3
    <3>3. \A j \in 1 .. Len(p) : more[Len(all) + 2 + j] = p[j]
      <4>1. TAKE j \in 1 .. Len(p)
      <4>2. 2 + j \in 1 .. Len(code) /\ Len(all) + (2 + j) = Len(all) + 2 + j
        BY <1>1, <1>2
      <4> QED
        BY <4>2, <3>2, <1>1
    <3> QED
      BY <3>1, <3>2, <3>3, <1>1, <1>2, <1>3, <1>6
  <2>4. \A i \in 1 .. Len(s2) : i \in 1 .. n \/ (i = n + 1 /\ i + 1 = n + 2)
    BY <1>2, <1>5
  <2> QED
    BY <2>1, <2>2, <2>3, <2>4, <1>5 DEF Cuts
<1>8. Position(more, b, buf, w \o code, c)
  <2>1. /\ b + Len(buf) <= Len(all) /\ Len(w) = Len(all) - (b + Len(buf))
        /\ \A j \in 1 .. Len(buf) : buf[j] = all[b + j]
        /\ \A j \in 1 .. Len(w) : w[j] = all[b + Len(buf) + j]
    BY DEF Position
  <2>2. \A j \in 1 .. Len(buf) : buf[j] = more[b + j]
    <3>1. \A j \in 1 .. Len(buf) : b + j \in 1 .. Len(all)
      BY <2>1, <1>2
    <3> QED
      BY <2>1, <3>1, <1>3
  <2>3. ASSUME NEW j \in 1 .. Len(w \o code)
        PROVE  (w \o code)[j] = more[b + Len(buf) + j]
    <3>1. CASE j \in 1 .. Len(w)
      <4>1. b + Len(buf) + j \in 1 .. Len(all)
        BY <2>1, <3>1, <1>2
      <4> QED
        BY <2>1, <3>1, <4>1, <1>3, <1>4
    <3>2. CASE j \notin 1 .. Len(w)
      <4>1. PICK k \in 1 .. Len(code) : j = Len(w) + k
        <5>1. j - Len(w) \in 1 .. Len(code) /\ j = Len(w) + (j - Len(w))
          BY <3>2, <1>1, <1>2, <1>4
        <5> QED
          BY <5>1
      <4>2. b + Len(buf) + j = Len(all) + k
        BY <4>1, <2>1, <1>1, <1>2
      <4> QED
        BY <4>1, <4>2, <1>3, <1>4
    <3> QED
      BY <3>1, <3>2
  <2>4. /\ b + Len(buf) <= Len(more)
        /\ Len(w \o code) = Len(more) - (b + Len(buf))
    BY <2>1, <1>1, <1>2, <1>3, <1>4
  <2> QED
    BY <2>2, <2>3, <2>4 DEF Position
<1> QED
  BY <1>2, <1>3, <1>5, <1>6, <1>7, <1>8 DEF o2, more, s2, code

\* k bytes more in the buffer.
LEMMA PositionAfterRead ==
  ASSUME NEW all \in Seq(Bytes), NEW b \in Nat, NEW buf \in Seq(Bytes), NEW w \in Seq(Bytes),
         NEW c, Position(all, b, buf, w, c), NEW k \in 1 .. Len(w)
  PROVE  Position(all, b, buf \o SubSeq(w, 1, k), SubSeq(w, k + 1, Len(w)), c)
<1> DEFINE u == SubSeq(w, 1, k)
           v == SubSeq(w, k + 1, Len(w))
<1>1. /\ u \in Seq(Bytes) /\ Len(u) = k /\ \A j \in 1 .. k : u[j] = w[j]
      /\ v \in Seq(Bytes) /\ Len(v) = Len(w) - k /\ \A j \in 1 .. Len(w) - k : v[j] = w[k + j]
  BY ReadBytes
<1> HIDE DEF u, v
<1>2. /\ buf \o u \in Seq(Bytes) /\ Len(buf \o u) = Len(buf) + Len(u)
      /\ \A j \in 1 .. Len(buf) : (buf \o u)[j] = buf[j]
      /\ \A j \in 1 .. Len(u) : (buf \o u)[Len(buf) + j] = u[j]
  BY <1>1, Joined
<1>3. Len(all) \in Nat /\ Len(buf) \in Nat /\ Len(w) \in Nat /\ k \in Nat
  OBVIOUS
<1>4. c # "reset"
  BY <1>3 DEF Position
<1>5. /\ b + Len(buf) <= Len(all) /\ Len(w) = Len(all) - (b + Len(buf))
      /\ \A j \in 1 .. Len(buf) : buf[j] = all[b + j]
      /\ \A j \in 1 .. Len(w) : w[j] = all[b + Len(buf) + j]
  BY <1>4 DEF Position
<1>6. ASSUME NEW j \in 1 .. Len(buf \o u) PROVE (buf \o u)[j] = all[b + j]
  <2>1. CASE j \in 1 .. Len(buf)
    BY <2>1, <1>2, <1>5
  <2>2. CASE j \notin 1 .. Len(buf)
    <3>1. PICK i \in 1 .. k : j = Len(buf) + i
      <4>1. j - Len(buf) \in 1 .. k /\ j = Len(buf) + (j - Len(buf))
        BY <2>2, <1>1, <1>2, <1>3
      <4> QED
        BY <4>1
    <3>2. i \in 1 .. Len(w) /\ b + j = b + Len(buf) + i
      BY <3>1, <1>3
    <3>3. (buf \o u)[j] = u[i] /\ u[i] = w[i]
      BY <3>1, <1>1, <1>2
    <3>4. w[i] = all[b + Len(buf) + i]
      BY <3>2, <1>5
    <3> QED
      BY <3>2, <3>3, <3>4
  <2> QED
    BY <2>1, <2>2
<1>7. ASSUME NEW j \in 1 .. Len(v) PROVE v[j] = all[b + Len(buf \o u) + j]
  <2>1. k + j \in 1 .. Len(w) /\ b + Len(buf) + (k + j) = b + Len(buf \o u) + j
    BY <1>1, <1>2, <1>3
  <2>2. v[j] = w[k + j]
    BY <1>1
  <2>3. w[k + j] = all[b + Len(buf) + (k + j)]
    BY <1>5, <2>1
  <2> QED
    BY <2>1, <2>2, <2>3
<1>8. b + Len(buf \o u) <= Len(all) /\ Len(v) = Len(all) - (b + Len(buf \o u))
  BY <1>1, <1>2, <1>3, <1>5
<1> QED
  BY <1>4, <1>6, <1>7, <1>8 DEF Position, u, v

\* With two bytes read there is a next packet, and they are its length.
LEMMA LengthRead ==
  ASSUME NEW all \in Seq(Bytes), NEW s \in Seq(Packets), NEW o \in [1 .. Len(s) + 1 -> Nat],
         Cuts(all, o, s), NEW d \in 0 .. Len(s),
         NEW buf \in Seq(Bytes), NEW w, NEW c, Position(all, o[d + 1], buf, w, c),
         Len(buf) >= 2
  PROVE  d < Len(s) /\ buf[1] * Base + buf[2] = Len(s[d + 1])
<1>1. Len(s) \in Nat /\ Len(all) \in Nat /\ Len(buf) \in Nat
  OBVIOUS
<1>2. d + 1 \in 1 .. Len(s) + 1 /\ o[d + 1] \in Nat
  BY <1>1
<1>3. o[d + 1] + Len(buf) <= Len(all)
  BY DEF Position
<1>4. o[Len(s) + 1] = Len(all)
  BY DEF Cuts
<1>5. d < Len(s)
  BY <1>1, <1>2, <1>3, <1>4
<1>6. d + 1 \in 1 .. Len(s)
  BY <1>1, <1>5
<1>7. all[o[d + 1] + 1] = Len(s[d + 1]) \div Base /\ all[o[d + 1] + 2] = Len(s[d + 1]) % Base
  BY <1>6 DEF Cuts
<1>8. 1 \in 1 .. Len(buf) /\ 2 \in 1 .. Len(buf)
  BY <1>1
<1>9. buf[1] = Len(s[d + 1]) \div Base /\ buf[2] = Len(s[d + 1]) % Base
  BY <1>7, <1>8 DEF Position
<1>10. Len(s[d + 1]) \in Nat /\ Base \in Nat \ {0}
  BY <1>6, FramingAssumption
<1> DEFINE l == Len(s[d + 1])
           q == l \div Base
           r == l % Base
<1>11. q \in Nat /\ r \in 0 .. Base - 1 /\ l = Base * q + r
  BY <1>10, DivMod
<1>12. buf[1] = q /\ buf[2] = r
  BY <1>9
<1> HIDE DEF l, q, r
<1>13. q * Base + r = l
  BY <1>10, <1>11, Z3
<1> QED
  BY <1>5, <1>12, <1>13 DEF l

\* All bytes of the next packet read: what they hold after the first two is
\* that packet, and the buffer is where the one after it begins.
LEMMA PacketRead ==
  ASSUME NEW all \in Seq(Bytes), NEW s \in Seq(Packets), NEW o \in [1 .. Len(s) + 1 -> Nat],
         Cuts(all, o, s), NEW d \in 0 .. Len(s) - 1,
         NEW buf \in Seq(Bytes), NEW w \in Seq(Bytes), NEW c,
         Position(all, o[d + 1], buf, w, c), Len(buf) = 2 + Len(s[d + 1])
  PROVE  /\ SubSeq(buf, 3, Len(buf)) = s[d + 1]
         /\ Position(all, o[d + 2], <<>>, w, c)
<1> DEFINE p == s[d + 1]
           b == o[d + 1]
           u == SubSeq(buf, 3, Len(buf))
<1>1. d + 1 \in 1 .. Len(s) /\ d + 1 \in 1 .. Len(s) + 1 /\ d + 2 \in 1 .. Len(s) + 1
  OBVIOUS
<1>2. p \in Packets
  BY <1>1
<1> HIDE DEF p, b, u
<1>9. p \in Seq(Bytes)
  BY <1>2, Encoded
<1>3. b \in Nat /\ o[d + 2] \in Nat /\ Len(p) \in Nat /\ Len(all) \in Nat
  <2>1. b \in Nat /\ o[d + 2] \in Nat
    BY <1>1 DEF b
  <2>2. Len(p) \in Nat
    BY <1>9
  <2>3. Len(all) \in Nat
    OBVIOUS
  <2> QED
    BY <2>1, <2>2, <2>3
<1>4. /\ o[d + 2] = b + 2 + Len(p) /\ o[d + 2] <= Len(all)
      /\ \A j \in 1 .. Len(p) : all[b + 2 + j] = p[j]
  <2>1. (d + 1) + 1 = d + 2
    OBVIOUS
  <2> QED
    BY <1>1, <2>1 DEF Cuts, p, b
<1>5. Len(buf) = 2 + Len(p) /\ \A j \in 1 .. Len(buf) : buf[j] = all[b + j]
  BY DEF Position, p, b
<1>8. IF c = "reset"
      THEN w = <<>>
      ELSE /\ Len(w) = Len(all) - (b + Len(buf))
           /\ \A j \in 1 .. Len(w) : w[j] = all[b + Len(buf) + j]
  BY DEF Position, b
<1>6. u = p
  <2>1. /\ SubSeq(buf, 3, Len(buf)) \in Seq(Bytes)
        /\ Len(SubSeq(buf, 3, Len(buf))) = IF 3 <= Len(buf) THEN Len(buf) - 3 + 1 ELSE 0
        /\ \A i \in 1 .. Len(buf) - 3 + 1 : SubSeq(buf, 3, Len(buf))[i] = buf[3 + i - 1]
    <3>1. Len(buf) \in Nat /\ \A i \in 3 .. Len(buf) : buf[i] \in Bytes
      OBVIOUS
    <3> QED
      BY <3>1, SubSeqProperties
  <2>2. u \in Seq(Bytes) /\ Len(u) = Len(p) /\ \A j \in 1 .. Len(p) : u[j] = buf[2 + j]
    <3>1. Len(p) = 0 \/ 3 <= Len(buf)
      BY <1>3, <1>5
    <3>2. Len(u) = Len(p) /\ Len(buf) - 3 + 1 = Len(p)
      BY <2>1, <3>1, <1>3, <1>5 DEF u
    <3>3. \A i \in 1 .. Len(p) : 3 + i - 1 = 2 + i
      BY <1>3
    <3> QED
      BY <2>1, <3>2, <3>3 DEF u
  <2>3. ASSUME NEW j \in 1 .. Len(p) PROVE u[j] = p[j]
    <3> DEFINE m == Len(buf)
               n == Len(p)
    <3>3. m = 2 + n /\ n \in Nat /\ j \in 1 .. n /\ b \in Nat
      BY <1>3, <1>5
    <3> HIDE DEF m, n
    <3>1. 2 + j \in 1 .. m /\ b + (2 + j) = b + 2 + j
      BY <3>3
    <3>2. u[j] = buf[2 + j] /\ buf[2 + j] = all[b + (2 + j)] /\ all[b + 2 + j] = p[j]
      BY <3>1, <2>2, <1>4, <1>5 DEF m
    <3> QED
      BY <3>1, <3>2
  <2> QED
    BY <2>2, <2>3, <1>9, SeqEqual
<1>7. Position(all, o[d + 2], <<>>, w, c)
  <2>4. Len(<<>>) = 0
    OBVIOUS
  <2>5. b + Len(buf) = b + 2 + Len(p) /\ b + 2 + Len(p) \in Nat
    <3>1. Len(buf) = 2 + Len(p) /\ b \in Nat /\ Len(p) \in Nat
      BY <1>3, <1>5
    <3> DEFINE m == Len(buf)
               n == Len(p)
    <3>2. m = 2 + n /\ b \in Nat /\ n \in Nat
      BY <3>1
    <3> HIDE DEF m, n
    <3>3. b + m = b + 2 + n /\ b + 2 + n \in Nat
      BY <3>2
    <3> QED
      BY <3>3 DEF m, n
  <2>6. b + 2 + Len(p) + 0 = b + 2 + Len(p)
    BY <2>5
  <2>1. Len(<<>>) = 0 /\ o[d + 2] + 0 = b + Len(buf)
    BY <2>4, <2>5, <2>6, <1>4
  <2>2. /\ o[d + 2] + 0 <= Len(all)
        /\ IF c = "reset"
           THEN w = <<>>
           ELSE /\ Len(w) = Len(all) - (o[d + 2] + 0)
                /\ \A j \in 1 .. Len(w) : w[j] = all[o[d + 2] + 0 + j]
    <3>1. o[d + 2] + 0 <= Len(all)
      BY <1>3, <1>4
    <3> QED
      BY <3>1, <2>1, <1>8
  <2>3. \A j \in 1 .. 0 : <<>>[j] = all[o[d + 2] + j]
    OBVIOUS
  <2> QED
    BY <2>1, <2>2, <2>3 DEF Position
<1> QED
  BY <1>6, <1>7 DEF u, p

-----------------------------------------------------------------------------
(***************************************************************************)
(* The steps of the connection.  Each keeps FramingInv and is a step of    *)
(* the queue of packets, or leaves it as it is.                            *)
(***************************************************************************)
queue == <<sent, closed, done, up>>
QueueNext == Queue!Send \/ Queue!Close \/ Queue!Serve \/ Queue!Drop

LEMMA FramingInitially == Init => FramingInv /\ Queue!Init
<1> SUFFICES ASSUME FramingInit PROVE FramingInv /\ Queue!Init
  BY DEF Init
<1>1. FramingTypeOK
  <2>1. 0 \in 0 .. MaxCommands - 1
    BY FramingAssumption
  <2>2. /\ sent = <<>> /\ closed = "no" /\ wire = <<>> /\ inbuf = <<>> /\ done = <<>>
        /\ handler = "slot" /\ up = TRUE /\ serving = FALSE /\ count = 0
    BY DEF FramingInit
  <2> QED
    BY <2>1, <2>2, EmptySeq DEF FramingTypeOK
<1>2. StreamInv
  <2> DEFINE o == [i \in 1 .. 1 |-> 0]
  <2>1. /\ <<>> \in Seq(Bytes) /\ Len(<<>>) = 0 /\ o \in [1 .. 0 + 1 -> Nat] /\ o[0 + 1] = 0
    OBVIOUS
  <2> HIDE DEF o
  <2>2. sent = <<>> /\ done = <<>> /\ inbuf = <<>> /\ wire = <<>> /\ closed = "no"
    BY DEF FramingInit
  <2>3. Cuts(<<>>, o, <<>>) /\ Position(<<>>, o[0 + 1], <<>>, <<>>, "no")
    BY <2>1 DEF Cuts, Position
  <2> QED
    BY <2>1, <2>2, <2>3 DEF StreamInv
<1>3. HandlerInv
  BY DEF FramingInit, HandlerInv, Queue!Handler
<1>4. Queue!Init
  BY DEF FramingInit, Queue!Init
<1> QED
  BY <1>1, <1>2, <1>3, <1>4 DEF FramingInv

LEMMA SendKeeps ==
  ASSUME FramingInv, NEW p \in Packets, SendPacket(p)
  PROVE  FramingInv' /\ Queue!Send
<1> USE DEF FramingInv
<1>1. /\ sent \in Seq(Packets) /\ wire \in Seq(Bytes) /\ inbuf \in Seq(Bytes)
      /\ Len(done) \in Nat /\ Len(sent) \in Nat /\ Len(done) <= Len(sent)
  BY DEF FramingTypeOK, HandlerInv, Bytes
<1>2. /\ sent' = Append(sent, p) /\ wire' = wire \o Encode(p) /\ closed = "no" /\ up
      /\ closed' = closed /\ inbuf' = inbuf /\ handler' = handler /\ up' = up
      /\ serving' = serving /\ count' = count /\ done' = done
  BY DEF SendPacket
<1>3. Encode(p) \in Seq(Bytes)
  BY Encoded
<1>4. wire' \in Seq(Bytes)
  BY <1>1, <1>2, <1>3, Joined
<1>5. sent' \in Seq(Packets) /\ Len(sent') = Len(sent) + 1
  BY <1>1, <1>2, AppendProperties
<1>6. FramingTypeOK'
  BY <1>2, <1>4, <1>5 DEF FramingTypeOK, Bytes
<1>7. HandlerInv'
  BY <1>1, <1>2, <1>5 DEF HandlerInv, Queue!Handler, Declared
<1>8. StreamInv'
  <2>1. PICK all \in Seq(Bytes), o \in [1 .. Len(sent) + 1 -> Nat] :
           Cuts(all, o, sent) /\ Position(all, o[Len(done) + 1], inbuf, wire, closed)
    BY DEF StreamInv
  <2> DEFINE o2 == [i \in 1 .. Len(sent) + 2 |->
                      IF i <= Len(sent) + 1 THEN o[i] ELSE Len(all) + 2 + Len(p)]
  <2>2. Len(done) + 1 \in 1 .. Len(sent) + 1
    BY <1>1
  <2>3. o[Len(done) + 1] \in Nat
    BY <2>2
  <2>4. closed # "reset"
    BY <1>2
  <2>5. /\ all \o Encode(p) \in Seq(Bytes)
        /\ o2 \in [1 .. Len(Append(sent, p)) + 1 -> Nat]
        /\ \A i \in 1 .. Len(sent) + 1 : o2[i] = o[i]
        /\ Cuts(all \o Encode(p), o2, Append(sent, p))
        /\ Position(all \o Encode(p), o[Len(done) + 1], inbuf, wire \o Encode(p), closed)
    BY <2>1, <2>3, <2>4, <1>1, CutsMore
  <2> HIDE DEF o2
  <2>6. o2[Len(done) + 1] = o[Len(done) + 1]
    BY <2>2, <2>5
  <2> QED
    BY <2>5, <2>6, <1>2 DEF StreamInv
<1>9. Queue!Send
  BY <1>2 DEF Queue!Send
<1> QED
  BY <1>6, <1>7, <1>8, <1>9

LEMMA CloseKeeps ==
  ASSUME FramingInv, CloseClient
  PROVE  FramingInv' /\ Queue!Close
<1> USE DEF FramingInv
<1>1. /\ up /\ closed = "no" /\ sent' = sent /\ inbuf' = inbuf /\ handler' = handler
      /\ up' = up /\ serving' = serving /\ count' = count /\ done' = done
      /\ \/ closed' = "end" /\ wire' = wire
         \/ closed' = "reset" /\ wire' = <<>>
  BY DEF CloseClient
<1>2. FramingTypeOK'
  <2>1. wire' \in Seq(0 .. Base - 1)
    BY <1>1, EmptySeq DEF FramingTypeOK
  <2> QED
    BY <1>1, <2>1 DEF FramingTypeOK
<1>3. HandlerInv'
  BY <1>1 DEF HandlerInv, Queue!Handler, Declared
<1>4. StreamInv'
  <2>1. PICK all \in Seq(Bytes), o \in [1 .. Len(sent) + 1 -> Nat] :
           Cuts(all, o, sent) /\ Position(all, o[Len(done) + 1], inbuf, wire, closed)
    BY DEF StreamInv
  <2>2. Position(all, o[Len(done) + 1], inbuf, wire', closed')
    BY <2>1, <1>1 DEF Position
  <2> QED
    BY <2>1, <2>2, <1>1 DEF StreamInv
<1>5. Queue!Close
  BY <1>1 DEF Queue!Close
<1> QED
  BY <1>2, <1>3, <1>4, <1>5

\* Bytes move from the wire to the buffer.
LEMMA TakenKeeps ==
  ASSUME FramingInv, NEW k \in 1 .. Len(wire), Taken(k), UNCHANGED <<sent, closed, done>>
  PROVE  /\ StreamInv'
         /\ inbuf' \in Seq(Bytes) /\ wire' \in Seq(Bytes) /\ Len(inbuf') = Len(inbuf) + k
         /\ \A j \in 1 .. Len(inbuf) : inbuf'[j] = inbuf[j]
<1> USE DEF FramingInv
<1>1. /\ wire \in Seq(Bytes) /\ inbuf \in Seq(Bytes)
      /\ Len(done) \in Nat /\ Len(sent) \in Nat /\ Len(done) <= Len(sent)
  BY DEF FramingTypeOK, HandlerInv, Bytes
<1>2. /\ SubSeq(wire, 1, k) \in Seq(Bytes) /\ Len(SubSeq(wire, 1, k)) = k
      /\ SubSeq(wire, k + 1, Len(wire)) \in Seq(Bytes)
  BY <1>1, ReadBytes
<1>3. inbuf' = inbuf \o SubSeq(wire, 1, k) /\ wire' = SubSeq(wire, k + 1, Len(wire))
  BY DEF Taken
<1>4. /\ inbuf' \in Seq(Bytes) /\ Len(inbuf') = Len(inbuf) + k
      /\ \A j \in 1 .. Len(inbuf) : inbuf'[j] = inbuf[j]
  <2> DEFINE u == SubSeq(wire, 1, k)
  <2>1. u \in Seq(Bytes) /\ Len(u) = k /\ inbuf' = inbuf \o u
    BY <1>2, <1>3
  <2> HIDE DEF u
  <2> QED
    BY <1>1, <2>1, Joined
<1>5. StreamInv'
  <2>1. PICK all \in Seq(Bytes), o \in [1 .. Len(sent) + 1 -> Nat] :
           Cuts(all, o, sent) /\ Position(all, o[Len(done) + 1], inbuf, wire, closed)
    BY DEF StreamInv
  <2>2. o[Len(done) + 1] \in Nat
    <3>1. Len(done) + 1 \in 1 .. Len(sent) + 1
      BY <1>1
    <3> QED
      BY <3>1
  <2>3. Position(all, o[Len(done) + 1], inbuf \o SubSeq(wire, 1, k),
                 SubSeq(wire, k + 1, Len(wire)), closed)
    BY <2>1, <2>2, <1>1, PositionAfterRead
  <2>4. Position(all, o[Len(done) + 1], inbuf', wire', closed)
    BY <2>3, <1>3
  <2>5. sent' = sent /\ closed' = closed /\ done' = done
    OBVIOUS
  <2> QED
    BY <2>1, <2>4, <2>5 DEF StreamInv
<1> QED
  BY <1>2, <1>3, <1>4, <1>5

LEMMA ReadHeaderKeeps ==
  ASSUME FramingInv, ReadHeader
  PROVE  FramingInv' /\ UNCHANGED queue
<1>1. FramingTypeOK /\ HandlerInv /\ serving /\ Len(inbuf) < 2
  BY DEF FramingInv, ReadHeader
<1>2. PICK k \in Arrived(2 - Len(inbuf)) :
         Taken(k) /\ IF k = 2 THEN UNCHANGED <<serving, count>> ELSE Stop
  BY DEF ReadHeader
<1>3. sent' = sent /\ closed' = closed /\ handler' = handler /\ up' = up /\ done' = done
  BY DEF ReadHeader
<1>4. k \in 1 .. Len(wire) /\ k \in Nat /\ k <= 2 - Len(inbuf) /\ Len(inbuf) \in Nat
  BY <1>1 DEF Arrived, FramingTypeOK
<1>5. /\ StreamInv'
      /\ inbuf' \in Seq(Bytes) /\ wire' \in Seq(Bytes) /\ Len(inbuf') = Len(inbuf) + k
  BY <1>2, <1>3, <1>4, TakenKeeps
<1>6. serving' \in {serving, FALSE} /\ count' \in {count, 0}
  BY <1>2 DEF Stop
<1>7. FramingTypeOK'
  <2>1. 0 \in 0 .. MaxCommands - 1
    BY FramingAssumption
  <2> QED
    BY <1>1, <1>3, <1>5, <1>6, <2>1 DEF FramingTypeOK, Bytes
<1>8. HandlerInv'
  <2>1. ~(Len(inbuf') > 2)
    BY <1>4, <1>5
  <2> QED
    BY <1>1, <1>3, <1>6, <2>1 DEF HandlerInv, Queue!Handler
<1> QED
  BY <1>3, <1>5, <1>7, <1>8 DEF FramingInv, queue

\* The length of a packet, once it is there.
LEMMA DeclaredIs ==
  ASSUME FramingInv, Len(inbuf) >= 2
  PROVE  /\ Len(done) < Len(sent) /\ Declared = 2 + Len(sent[Len(done) + 1])
         /\ Queue!NextPacket = sent[Len(done) + 1] /\ Queue!NextPacket \in Packets
<1>1. /\ sent \in Seq(Packets) /\ inbuf \in Seq(Bytes) /\ Len(done) \in 0 .. Len(sent)
      /\ Len(done) \in Nat /\ Len(sent) \in Nat
  BY DEF FramingInv, FramingTypeOK, HandlerInv, Bytes
<1>2. PICK all \in Seq(Bytes), o \in [1 .. Len(sent) + 1 -> Nat] :
         Cuts(all, o, sent) /\ Position(all, o[Len(done) + 1], inbuf, wire, closed)
  BY DEF FramingInv, StreamInv
<1>3. /\ Len(done) < Len(sent)
      /\ inbuf[1] * Base + inbuf[2] = Len(sent[Len(done) + 1])
  BY <1>1, <1>2, LengthRead
<1>4. Len(done) + 1 \in 1 .. Len(sent)
  BY <1>1, <1>3
<1>5. inbuf[1] \in Nat /\ inbuf[2] \in Nat /\ Base \in Nat
  <2>1. 1 \in 1 .. Len(inbuf) /\ 2 \in 1 .. Len(inbuf)
    BY <1>1
  <2>2. inbuf[1] \in Bytes /\ inbuf[2] \in Bytes
    BY <1>1, <2>1
  <2> QED
    BY <2>2, FramingAssumption DEF Bytes
<1>6. 2 + inbuf[1] * Base + inbuf[2] = 2 + (inbuf[1] * Base + inbuf[2])
  BY <1>5, Z3
<1> QED
  BY <1>1, <1>3, <1>4, <1>6 DEF Declared, Queue!NextPacket

LEMMA ReadBodyKeeps ==
  ASSUME FramingInv, ReadBody
  PROVE  FramingInv' /\ UNCHANGED queue
<1>1. FramingTypeOK /\ HandlerInv /\ serving /\ Len(inbuf) >= 2
  BY DEF FramingInv, ReadBody
<1>2. PICK k \in Arrived(Declared - Len(inbuf)) : Len(inbuf) + k < Declared /\ Taken(k)
  BY DEF ReadBody
<1>3. /\ sent' = sent /\ closed' = closed /\ handler' = handler /\ up' = up
      /\ serving' = serving /\ count' = count /\ done' = done
  BY DEF ReadBody
<1>4. k \in 1 .. Len(wire) /\ Len(inbuf) \in Nat
  <2>1. Declared \in Nat /\ Len(inbuf) \in Nat /\ Len(wire) \in Nat
    <3>1. Len(done) + 1 \in 1 .. Len(sent)
      BY <1>1, DeclaredIs DEF FramingTypeOK
    <3>2. Len(sent[Len(done) + 1]) \in Nat
      BY <3>1, <1>1, FramingAssumption DEF FramingTypeOK
    <3> QED
      BY <3>2, <1>1, DeclaredIs DEF FramingTypeOK
  <2> QED
    BY <2>1 DEF Arrived
<1>5. /\ StreamInv'
      /\ inbuf' \in Seq(Bytes) /\ wire' \in Seq(Bytes) /\ Len(inbuf') = Len(inbuf) + k
      /\ \A j \in 1 .. Len(inbuf) : inbuf'[j] = inbuf[j]
  BY <1>2, <1>3, <1>4, TakenKeeps
<1>6. FramingTypeOK'
  BY <1>1, <1>3, <1>5 DEF FramingTypeOK, Bytes
<1>7. Declared' = Declared
  <2>1. 1 \in 1 .. Len(inbuf) /\ 2 \in 1 .. Len(inbuf)
    BY <1>1, <1>4
  <2> QED
    BY <2>1, <1>5 DEF Declared
<1>8. HandlerInv'
  BY <1>1, <1>2, <1>3, <1>5, <1>7 DEF HandlerInv, Queue!Handler
<1> QED
  BY <1>3, <1>5, <1>6, <1>8 DEF FramingInv, queue

LEMMA DropKeeps ==
  ASSUME FramingInv, RefusePacket \/ EndOfStream
  PROVE  FramingInv' /\ Queue!Drop
<1>1. /\ serving /\ up' = FALSE /\ serving' = FALSE /\ count' = 0
      /\ sent' = sent /\ closed' = closed /\ wire' = wire /\ inbuf' = inbuf
      /\ handler' = handler /\ done' = done
  BY DEF RefusePacket, EndOfStream, Kill, Stop
<1>2. FramingTypeOK /\ HandlerInv /\ StreamInv
  BY DEF FramingInv
<1>3. FramingInv'
  <2>1. FramingTypeOK'
    <3>1. 0 \in 0 .. MaxCommands - 1
      BY FramingAssumption
    <3> QED
      BY <3>1, <1>1, <1>2 DEF FramingTypeOK
  <2>2. HandlerInv'
    BY <1>1, <1>2 DEF HandlerInv, Queue!Handler, Declared
  <2>3. StreamInv'
    BY <1>1, <1>2 DEF StreamInv
  <2> QED
    BY <2>1, <2>2, <2>3 DEF FramingInv
<1>4. /\ Len(inbuf) \in Nat /\ Len(done) \in Nat /\ Len(sent) \in Nat
      /\ Len(done) <= Len(sent) /\ up
      /\ Len(inbuf) > 2 => Len(inbuf) < Declared
  BY <1>1, <1>2 DEF FramingTypeOK, HandlerInv
<1>5. up /\ up' = FALSE /\ UNCHANGED <<sent, closed, done>>
  BY <1>1, <1>4
<1>6. ASSUME Len(inbuf) >= 2, ~Fits \/ Declared = Len(inbuf)
      PROVE  Len(done) < Len(sent) /\ Len(Queue!NextPacket) \notin 1 .. InputLimit - 3
  <2>1. /\ Len(done) < Len(sent) /\ Queue!NextPacket \in Packets
        /\ Declared = 2 + Len(Queue!NextPacket)
    BY <1>6, DeclaredIs
  <2>2. Len(Queue!NextPacket) \in Nat /\ InputLimit \in Nat
    BY <2>1, FramingAssumption
  <2> DEFINE l == Len(Queue!NextPacket)
  <2>3. l \in Nat /\ Declared = 2 + l
    BY <2>1, <2>2
  <2> HIDE DEF l
  <2>4. l \notin 1 .. InputLimit - 3
    <3>1. CASE ~(Declared < InputLimit)
      BY <3>1, <2>2, <2>3
    <3>2. CASE Declared = Len(inbuf)
      BY <3>2, <2>3, <1>4
    <3> QED
      BY <1>6, <3>1, <3>2 DEF Fits
  <2> QED
    BY <2>1, <2>4 DEF l
<1>7. CASE RefusePacket
  <2>1. Len(inbuf) >= 2 /\ (~Fits \/ Declared = Len(inbuf))
    BY <1>7 DEF RefusePacket
  <2>2. Len(done) < Len(sent) /\ Len(Queue!NextPacket) \notin 1 .. InputLimit - 3
    BY <2>1, <1>6
  <2> QED
    BY <2>2, <1>3, <1>5, Zenon DEF Queue!Drop
<1>8. CASE EndOfStream
  <2>1. closed # "no" /\ wire = <<>>
    BY <1>8 DEF EndOfStream
  <2>2. closed = "end" \/ closed = "reset"
    BY <2>1, <1>2 DEF FramingTypeOK
  <2>3. CASE closed = "reset"
    BY <2>3, <1>3, <1>5, Zenon DEF Queue!Drop
  <2>4. CASE closed = "end" /\ Len(done) = Len(sent)
    BY <2>4, <1>3, <1>5, Zenon DEF Queue!Drop
  <2>5. CASE closed = "end" /\ Len(done) < Len(sent)
    <3>1. PICK all \in Seq(Bytes), o \in [1 .. Len(sent) + 1 -> Nat] :
             Cuts(all, o, sent) /\ Position(all, o[Len(done) + 1], inbuf, wire, closed)
      BY <1>2 DEF StreamInv
    <3> DEFINE i == Len(done) + 1
               l == Len(sent[i])
               b == o[i]
    <3>2. i \in 1 .. Len(sent) /\ i \in 1 .. Len(sent) + 1
      BY <2>5, <1>4
    <3>3. b \in Nat
      BY <3>2
    <3>4. l \in Nat
      BY <3>2, <1>2, FramingAssumption DEF FramingTypeOK
    <3>5. o[i + 1] = b + 2 + l /\ o[i + 1] <= Len(all)
      BY <3>1, <3>2 DEF Cuts
    <3>6. Len(wire) = Len(all) - (b + Len(inbuf)) /\ Len(wire) = 0
      BY <3>1, <2>1, <2>5 DEF Position
    <3>7. Len(all) \in Nat
      OBVIOUS
    <3> HIDE DEF l, b
    <3>8. Len(inbuf) >= 2 + l
      BY <3>3, <3>4, <3>5, <3>6, <3>7, <1>4
    <3>9. Len(inbuf) >= 2
      BY <3>4, <3>8, <1>4
    <3>10. Declared = 2 + l
      BY <3>9, DeclaredIs DEF l
    <3>11. Declared = Len(inbuf)
      BY <3>4, <3>8, <3>10, <1>4
    <3>12. Len(done) < Len(sent) /\ Len(Queue!NextPacket) \notin 1 .. InputLimit - 3
      BY <3>9, <3>11, <1>6
    <3> QED
      BY <3>12, <1>3, <1>5, Zenon DEF Queue!Drop
  <2> QED
    BY <2>2, <2>3, <2>4, <2>5, <1>4
<1> QED
  BY <1>3, <1>7, <1>8

LEMMA ReadLastKeeps ==
  ASSUME FramingInv, ReadLast
  PROVE  FramingInv' /\ Queue!Serve
<1> DEFINE d == Len(done)
           p == sent[d + 1]
           k == Declared - Len(inbuf)
           full == inbuf \o SubSeq(wire, 1, k)
<1>1. FramingTypeOK /\ HandlerInv /\ StreamInv
  BY DEF FramingInv
<1>2. /\ serving /\ Len(inbuf) >= 2 /\ Fits /\ k \in Arrived(k)
      /\ Execute(SubSeq(full, 3, Declared))
      /\ wire' = SubSeq(wire, k + 1, Len(wire))
      /\ sent' = sent /\ closed' = closed /\ up' = up
  BY DEF ReadLast
<1>3. /\ sent \in Seq(Packets) /\ wire \in Seq(Bytes) /\ inbuf \in Seq(Bytes) /\ up
      /\ d \in Nat /\ Len(sent) \in Nat /\ Len(inbuf) \in Nat /\ Len(wire) \in Nat
  BY <1>1, <1>2 DEF FramingTypeOK, HandlerInv, Bytes
<1>4. d < Len(sent) /\ Declared = 2 + Len(p) /\ Queue!NextPacket = p /\ p \in Packets
  BY <1>2, DeclaredIs
<1>5. p \in Seq(Bytes) /\ Len(p) \in Nat /\ InputLimit \in Nat
  BY <1>4, Encoded, FramingAssumption
<1> HIDE DEF p
<1>6. k \in 1 .. Len(wire) /\ k \in Nat /\ Len(inbuf) + k = 2 + Len(p)
  BY <1>2, <1>3, <1>4, <1>5 DEF Arrived
<1>7. Len(p) \in 1 .. InputLimit - 3
  <2>1. 2 + Len(p) < InputLimit
    BY <1>2, <1>4 DEF Fits
  <2>2. Len(p) > 0
    <3>1. CASE Len(inbuf) = 2
      BY <3>1, <1>5, <1>6
    <3>2. CASE Len(inbuf) > 2
      <4>1. Len(inbuf) < Declared
        BY <3>2, <1>1 DEF HandlerInv
      <4> QED
        BY <4>1, <3>2, <1>3, <1>4, <1>5
    <3>3. Len(inbuf) = 2 \/ Len(inbuf) > 2
      <4> DEFINE n == Len(inbuf)
      <4>1. n >= 2 /\ n \in Nat
        BY <1>2, <1>3
      <4> HIDE DEF n
      <4>2. n = 2 \/ n > 2
        BY <4>1
      <4> QED
        BY <4>2 DEF n
    <3> QED
      BY <3>1, <3>2, <3>3
  <2> QED
    BY <2>1, <2>2, <1>5
<1>8. PICK all \in Seq(Bytes), o \in [1 .. Len(sent) + 1 -> Nat] :
         Cuts(all, o, sent) /\ Position(all, o[d + 1], inbuf, wire, closed)
  BY <1>1 DEF StreamInv
<1>9. d + 1 \in 1 .. Len(sent) + 1 /\ d \in 0 .. Len(sent) - 1
  BY <1>3, <1>4
<1>10. o[d + 1] \in Nat
  BY <1>9
<1> HIDE DEF d, k
<1>11. Position(all, o[d + 1], full, SubSeq(wire, k + 1, Len(wire)), closed)
  BY <1>3, <1>6, <1>8, <1>10, PositionAfterRead
<1>12. /\ SubSeq(wire, 1, k) \in Seq(Bytes) /\ Len(SubSeq(wire, 1, k)) = k
       /\ SubSeq(wire, k + 1, Len(wire)) \in Seq(Bytes)
  BY <1>3, <1>6, ReadBytes
<1>13. full \in Seq(Bytes) /\ Len(full) = 2 + Len(p)
  <2> DEFINE u == SubSeq(wire, 1, k)
  <2>1. u \in Seq(Bytes) /\ Len(u) = k
    BY <1>12
  <2> HIDE DEF u
  <2>2. inbuf \o u \in Seq(Bytes) /\ Len(inbuf \o u) = Len(inbuf) + k
    BY <1>3, <2>1, Joined
  <2> QED
    BY <2>2, <1>6 DEF u
<1> HIDE DEF full
<1>14. SubSeq(full, 3, Len(full)) = p /\ Position(all, o[d + 2], <<>>, wire', closed)
  <2>1. wire' \in Seq(Bytes) /\ Position(all, o[d + 1], full, wire', closed)
    BY <1>2, <1>11, <1>12
  <2>2. Len(full) = 2 + Len(sent[d + 1])
    BY <1>13 DEF p
  <2> QED
    BY <2>1, <2>2, <1>3, <1>8, <1>9, <1>13, PacketRead DEF p
<1>15. SubSeq(full, 3, Declared) = p
  BY <1>4, <1>13, <1>14
<1>16. Execute(p)
  BY <1>2, <1>15
<1> DEFINE entry == [packet |-> p, by |-> handler]
<1>17. /\ done' = Append(done, entry) /\ inbuf' = <<>>
       /\ handler' = IF p = LoginPacket /\ handler = "slot" THEN "player" ELSE handler
       /\ serving' \in {serving, FALSE}
       /\ \/ count' = 0
          \/ count' = count + 1 /\ count + 1 < MaxCommands
  <2>1. done' = Append(done, entry) /\ inbuf' = <<>>
    BY <1>16 DEF Execute
  <2>2. CASE p = LoginPacket /\ handler = "slot"
    BY <2>1, <2>2, <1>16 DEF Execute, Stop
  <2>3. CASE ~(p = LoginPacket /\ handler = "slot")
    BY <2>1, <2>3, <1>16 DEF Execute, Stop
  <2> QED
    BY <2>2, <2>3
<1>18. entry \in [packet : Seq(Bytes), by : {"slot", "player"}]
  BY <1>1, <1>5 DEF FramingTypeOK
<1>19. /\ Len(done') = d + 1 /\ done'[d + 1] = entry
       /\ \A i \in 1 .. d : done'[i] = done[i]
       /\ done' \in Seq([packet : Seq(Bytes), by : {"slot", "player"}])
       /\ DOMAIN done = 1 .. d /\ DOMAIN done' = 1 .. d + 1
  <2>1. done \in Seq([packet : Seq(Bytes), by : {"slot", "player"}])
    BY <1>1 DEF FramingTypeOK, Bytes
  <2> HIDE DEF entry
  <2> QED
    BY <2>1, <1>17, <1>18, AppendProperties DEF d
<1>20. FramingTypeOK'
  <2>1. count' \in 0 .. MaxCommands - 1
    BY <1>1, <1>17, FramingAssumption DEF FramingTypeOK
  <2>2. inbuf' \in Seq(Bytes) /\ wire' \in Seq(Bytes)
    BY <1>2, <1>12, <1>17, EmptySeq
  <2> QED
    BY <2>1, <2>2, <1>1, <1>2, <1>17, <1>19 DEF FramingTypeOK, Bytes
<1>21. handler = Queue!Handler
  BY <1>1 DEF HandlerInv
<1>22. handler' = Queue!Handler'
  <2>1. (\E i \in DOMAIN done' : done'[i].packet = LoginPacket)
          <=> (\E i \in DOMAIN done : done[i].packet = LoginPacket) \/ p = LoginPacket
    <3>1. done'[d + 1].packet = p
      BY <1>19
    <3>2. \A i \in 1 .. d + 1 : i \in 1 .. d \/ i = d + 1
      BY <1>3 DEF d
    <3>3. \A i \in 1 .. d : i \in 1 .. d + 1
      BY <1>3 DEF d
    <3>4. d + 1 \in 1 .. d + 1
      BY <1>3 DEF d
    <3> HIDE DEF entry
    <3> QED
      BY <3>1, <3>2, <3>3, <3>4, <1>19
  <2> QED
    BY <2>1, <1>17, <1>21 DEF Queue!Handler
<1>23. HandlerInv'
  <2>1. Len(done') <= Len(sent')
    BY <1>2, <1>3, <1>4, <1>19
  <2>2. ~(Len(inbuf') > 2)
    BY <1>17
  <2>3. serving' => up'
    BY <1>2, <1>3, <1>17
  <2> QED
    BY <2>1, <2>2, <2>3, <1>22 DEF HandlerInv
<1>24. StreamInv'
  <2>1. Len(done') + 1 = d + 2
    BY <1>3, <1>19
  <2> QED
    BY <2>1, <1>2, <1>8, <1>14, <1>17 DEF StreamInv
<1>25. Queue!Serve
  BY <1>2, <1>3, <1>4, <1>7, <1>17, <1>21 DEF Queue!Serve, d
<1> QED
  BY <1>20, <1>23, <1>24, <1>25 DEF FramingInv

\* What the reading of a connection does not touch.
LEMMA StayKeeps ==
  ASSUME FramingInv, handle_client \/ NothingYet
  PROVE  FramingInv' /\ UNCHANGED queue
<1>1. /\ up /\ count' = 0 /\ serving' \in BOOLEAN
      /\ sent' = sent /\ closed' = closed /\ wire' = wire /\ inbuf' = inbuf
      /\ handler' = handler /\ done' = done /\ up' = up
  BY DEF handle_client, NothingYet, Stop, FramingInv, HandlerInv
<1>2. FramingTypeOK /\ HandlerInv /\ StreamInv
  BY DEF FramingInv
<1>3. FramingTypeOK'
  <2>1. 0 \in 0 .. MaxCommands - 1
    BY FramingAssumption
  <2> QED
    BY <2>1, <1>1, <1>2 DEF FramingTypeOK
<1>4. HandlerInv'
  BY <1>1, <1>2 DEF HandlerInv, Queue!Handler, Declared
<1>5. StreamInv'
  BY <1>1, <1>2 DEF StreamInv
<1> QED
  BY <1>1, <1>3, <1>4, <1>5 DEF FramingInv, queue

LEMMA FramingNext ==
  ASSUME FramingInv, [Next]_vars
  PROVE  FramingInv' /\ [QueueNext]_queue
<1>1. CASE UNCHANGED framing
  <2>1. /\ sent' = sent /\ closed' = closed /\ wire' = wire /\ inbuf' = inbuf /\ up' = up
        /\ handler' = handler /\ done' = done /\ serving' = serving /\ count' = count
    BY <1>1 DEF framing
  <2> QED
    BY <2>1 DEF FramingInv, FramingTypeOK, StreamInv, HandlerInv, Queue!Handler, Declared, queue
<1>2. CASE ClientStep
  <2>1. CASE CloseClient
    BY <2>1, CloseKeeps DEF QueueNext
  <2>2. ASSUME NEW p \in Packets, SendPacket(p)
        PROVE  FramingInv' /\ [QueueNext]_queue
    BY <2>2, SendKeeps DEF QueueNext
  <2> QED
    BY <1>2, <2>1, <2>2 DEF ClientStep
<1>3. CASE ServerStep
  <2>1. CASE handle_client \/ NothingYet
    BY <2>1, StayKeeps
  <2>2. CASE ReadHeader
    BY <2>2, ReadHeaderKeeps
  <2>3. CASE RefusePacket \/ EndOfStream
    BY <2>3, DropKeeps DEF QueueNext
  <2>4. CASE ReadBody
    BY <2>4, ReadBodyKeeps
  <2>5. CASE ReadLast
    BY <2>5, ReadLastKeeps DEF QueueNext
  <2> QED
    BY <1>3, <2>1, <2>2, <2>3, <2>4, <2>5 DEF ServerStep, Read
<1> QED
  BY <1>1, <1>2, <1>3 DEF Next, MainNext, ThreadNext, ClientNext, vars

LEMMA FramingAlways == Spec => []FramingInv
  BY FramingInitially, FramingNext, PTL DEF Spec

\* Every variable of both sides has a value of its type.
THEOREM NetworkTypes == Spec => []TypeOK
<1>1. FramingInv /\ MetaserverTypeOK => TypeOK
  BY DEF FramingInv, TypeOK
<1> QED
  BY <1>1, FramingAlways, MetaserverAlways, PTL

\* However read() cuts what a client sent into pieces, its packets are
\* executed as a queue is served: whole, once, in order, and the connection is
\* dropped only for the reasons PacketQueue gives.
THEOREM PacketsAreAQueue == Spec => RefinesPacketQueue
<1>1. FramingInv /\ [Next]_vars
        => [Queue!Send \/ Queue!Close \/ Queue!Serve \/ Queue!Drop]_<<sent, closed, done, up>>
  BY FramingNext DEF QueueNext, queue
<1>2. Init => Queue!Init
  BY FramingInitially
<1> QED
  BY <1>1, <1>2, FramingAlways, PTL DEF Spec, RefinesPacketQueue, Queue!Spec
=============================================================================
