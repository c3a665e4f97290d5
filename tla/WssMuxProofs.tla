---------------------------- MODULE WssMuxProofs ----------------------------
(***************************************************************************)
(* Proofs about the stream multiplexer: that it implements StreamPipes,    *)
(* and that a writer that shuts its socket down has delivered everything,  *)
(* for any number of connections and chunks and channels of any size.  And *)
(* what is left of this when the client reconnects, as often as it likes.  *)
(***************************************************************************)
EXTENDS WssReconnect, FiniteSetTheorems, TLAPS

-----------------------------------------------------------------------------
(* The invariant *)

\* Connections the client has accepted.
Accepted == {c \in Conn : pump["client"][c] # "none" \/ opening = c}

\* Without a reconnect there is one client session, and ids are used once.
IdInv ==
    /\ epoch = 1 /\ \A c \in Conn : born[c] = 1
    /\ next = Cardinality(Accepted) + 1
    /\ \A c \in Accepted : id[c] < next
    /\ \A c, d \in Accepted : id[c] = id[d] => c = d

\* Pump and writer start together, for a connection the client has accepted, and
\* leave the map for good.
StageInv ==
    /\ opening # None => pump["client"][opening] = "none"
    /\ \A s \in Side, c \in Conn :
          /\ writer[s][c] = "none" <=> pump[s][c] = "none"
          /\ pump[s][c] = "none" => sent[s][c] = 0 /\ got[s][c] = <<>> /\ chan[s][c] = <<>>
          /\ pump[s][c] # "none" => c \in Accepted
          /\ c \in mapped[s] => writer[s][c] \in {"draining", "writing", "broken"}

\* What is on the wire of a connection: its OPEN first, then data in order, none of
\* it after a CLOSE or ERROR.
Ordered(w) ==
    \A k \in DOMAIN w : \A j \in 1 .. k - 1 :
        w[j].conn = w[k].conn =>
            /\ w[k].kind # "OPEN"
            /\ w[k].kind = "DATA" => w[j].kind \in {"OPEN", "DATA"}
            /\ w[k].kind = "DATA" /\ w[j].kind = "DATA" => w[j].chunk[2] < w[k].chunk[2]

OrderInv == \A s \in Side : Ordered(wire[s])

Opens(w, c) == \E f \in Range(w) : f.kind = "OPEN" /\ f.conn = c

\* An end sends nothing more for a connection: it has sent its CLOSE, or refused.
Finished(s, c) ==
    \/ pump[s][c] \in {"closing", "done"}
    \/ s = "host" /\ pump["host"][c] = "none" /\ c \in Accepted /\ ~Opens(wire["host"], c)

FrameOK(s, f) ==
    /\ f.conn \in Accepted
    /\ f.kind = "OPEN" => s = "host" /\ pump["host"][f.conn] = "none"
    /\ f.kind \in {"CLOSE", "ERROR"} => Finished(Peer(s), f.conn)
    /\ f.kind = "DATA" => f.chunk[1] = f.conn /\ f.chunk[2] <= sent[Peer(s)][f.conn]

FrameInv == \A s \in Side : \A f \in Range(wire[s]) : FrameOK(s, f)

\* The channel holds what comes after the chunks delivered, in order.  The host's
\* server answers what it has read.
Delivered(s, c) == Len(got[s][c])
Queued(s, c) == Len(chan[s][c])
Base(s, c) == Delivered(s, c) + Queued(s, c)

ChanInv ==
    \A s \in Side, c \in Conn :
        /\ Delivered(s, c) <= sent[Peer(s)][c]
        /\ s = "host" /\ sent[s][c] # 0 => got[s][c] # <<>>
        /\ writer[s][c] = "writing" => chan[s][c] # <<>>
        /\ writer[s][c] \in {"draining", "writing"} =>
              /\ Base(s, c) <= sent[Peer(s)][c]
              /\ \A k \in DOMAIN chan[s][c] : chan[s][c][k] = <<c, Delivered(s, c) + k>>

\* The data of c on a wire goes on from chunk number base, without a gap, to last.
DataOf(w, c, k) == w[k].kind = "DATA" /\ w[k].conn = c

Continues(w, c, base, last) ==
    /\ last = base \/ \E k \in DOMAIN w : DataOf(w, c, k) /\ w[k].chunk[2] = last
    /\ \A k \in DOMAIN w : DataOf(w, c, k) =>
          \/ w[k].chunk[2] = base + 1
          \/ \E j \in 1 .. k - 1 : DataOf(w, c, j) /\ w[j].chunk[2] + 1 = w[k].chunk[2]

\* It does as long as its stream is fed, or is yet to be.
Fed(s, c) ==
    \/ c \in mapped[s] /\ writer[s][c] \in {"draining", "writing"}
    \/ s = "host" /\ Opens(wire["host"], c)
    \/ s = "client" /\ pump["client"][c] = "none"

FedInv ==
    \A s \in Side, c \in Conn :
        Fed(s, c) => Continues(wire[s], c, Base(s, c), sent[Peer(s)][c])

\* A stream that left the map while its own end was open has everything.
DoneInv ==
    \A s \in Side, c \in Conn : pump[s][c] = "reading" =>
        /\ writer[s][c] \in {"draining", "writing"} /\ c \notin mapped[s] =>
              Base(s, c) = sent[Peer(s)][c] /\ Finished(Peer(s), c)
        /\ writer[s][c] = "drained" =>
              Delivered(s, c) = sent[Peer(s)][c] /\ Finished(Peer(s), c)

Inv ==
    /\ TypeOK /\ IdInv /\ StageInv /\ FrameInv /\ OrderInv
    /\ ChanInv /\ FedInv /\ DoneInv

-----------------------------------------------------------------------------
(* The invariant of WssReconnect.  Inv has as much and more.                  *)

\* A stream starts once, for a connection the client has accepted.
StreamOK(s, c) ==
    /\ pump[s][c] = "none" =>
          writer[s][c] = "none" /\ sent[s][c] = 0 /\ got[s][c] = <<>> /\ chan[s][c] = <<>>
    /\ pump[s][c] # "none" => c \in Accepted
    /\ c \in mapped[s] =>
          pump[s][c] # "none" /\ writer[s][c] \in {"draining", "writing", "broken"}
    /\ writer[s][c] = "writing" => chan[s][c] # <<>>

StartedInv ==
    /\ next <= Cardinality(Accepted) + 1
    /\ opening # None => pump["client"][opening] = "none"
    /\ \A s \in Side, c \in Conn : StreamOK(s, c)

\* The frames of a connection on a wire: its OPEN comes first, its data in order.
Rising(w) ==
    \A k \in DOMAIN w : \A j \in 1 .. k - 1 :
        w[j].conn = w[k].conn =>
            /\ w[k].kind # "OPEN"
            /\ w[k].kind = "DATA" /\ w[j].kind = "DATA" => w[j].chunk[2] < w[k].chunk[2]

OnLine(s, f) ==
    /\ f.conn \in Accepted
    /\ f.kind = "OPEN" => s = "host" /\ pump["host"][f.conn] = "none"
    /\ f.kind = "DATA" => f.chunk[1] = f.conn /\ f.chunk[2] <= sent[Peer(s)][f.conn]

LineInv == \A s \in Side : Rising(wire[s]) /\ \A f \in Range(wire[s]) : OnLine(s, f)

\* Chunks that have come off the wire to a stream.
Taken(s, c) == Range(got[s][c]) \cup Range(chan[s][c])

InOrder(q) == \A k \in DOMAIN q : \A j \in 1 .. k - 1 : q[j][1] = q[k][1] => q[j][2] < q[k][2]

\* They are of the stream's id, each is in one stream, and those of one connection
\* are in order, in front of what its wire still holds.
PastInv ==
    \A s \in Side, c \in Conn :
        /\ InOrder(got[s][c]) /\ InOrder(chan[s][c])
        /\ \A x \in Range(got[s][c]), y \in Range(chan[s][c]) : x[1] = y[1] => x[2] < y[2]
        /\ \A x \in Taken(s, c) :
              /\ x[1] \in Accepted /\ id[x[1]] = id[c] /\ x[2] <= sent[Peer(s)][x[1]]
              /\ \A d \in Conn \ {c} : x \notin Taken(s, d)
              /\ \A f \in Range(wire[s]) :
                    f.kind = "DATA" /\ f.conn = x[1] => x[2] < f.chunk[2]

\* A reader loop that holds the lock has a frame in hand for a stream in the map.
HeldInv ==
    \A s \in Side : held[s] =>
        Arrives(s, {"DATA"}) /\ Lookup(s, Head(wire[s]).conn) # {}

ReconnectInv == TypeOK /\ StartedInv /\ LineInv /\ PastInv /\ HeldInv

-----------------------------------------------------------------------------
(* Sequences of frames *)

LEMMA Peers == \A s \in Side : Peer(s) \in Side /\ Peer(s) # s /\ Peer(Peer(s)) = s
  BY DEF Side, Peer

LEMMA TailOf ==
    ASSUME NEW S, NEW w \in Seq(S), w # <<>>
    PROVE  /\ Len(w) \in Nat \ {0} /\ Tail(w) \in Seq(S) /\ Head(w) = w[1] /\ Head(w) \in S
           /\ DOMAIN w = 1 .. Len(w) /\ DOMAIN Tail(w) = 1 .. Len(w) - 1
           /\ Len(Tail(w)) = Len(w) - 1
           /\ \A k \in 1 .. Len(w) - 1 : Tail(w)[k] = w[k + 1]
  OBVIOUS

LEMMA AppendOf ==
    ASSUME NEW S, NEW w \in Seq(S), NEW x \in S
    PROVE  /\ Len(w) \in Nat /\ Append(w, x) \in Seq(S) /\ Len(Append(w, x)) = Len(w) + 1
           /\ DOMAIN w = 1 .. Len(w) /\ DOMAIN Append(w, x) = 1 .. Len(w) + 1
           /\ \A k \in 1 .. Len(w) : Append(w, x)[k] = w[k]
           /\ Append(w, x)[Len(w) + 1] = x
  OBVIOUS

LEMMA RangeTail ==
    ASSUME NEW S, NEW w \in Seq(S), w # <<>>
    PROVE  /\ Head(w) \in Range(w) /\ Range(Tail(w)) \subseteq Range(w)
           /\ Range(w) \subseteq Range(Tail(w)) \cup {Head(w)}
<1>1. \A k \in 1 .. Len(w) - 1 : k + 1 \in 1 .. Len(w)
  BY TailOf
<1>2. \A k \in 1 .. Len(w) : k = 1 \/ (k - 1 \in 1 .. Len(w) - 1 /\ (k - 1) + 1 = k)
  BY TailOf
<1>3. 1 \in 1 .. Len(w) /\ DOMAIN w = 1 .. Len(w) /\ DOMAIN Tail(w) = 1 .. Len(w) - 1
  BY TailOf
<1>4. ASSUME NEW k \in 1 .. Len(w) PROVE w[k] \in Range(Tail(w)) \cup {Head(w)}
  <2>1. CASE k = 1
    BY <2>1, TailOf
  <2>2. CASE k # 1
    <3>1. k - 1 \in DOMAIN Tail(w) /\ Tail(w)[k - 1] = w[k]
      BY <1>2, <1>3, <2>2, TailOf
    <3> QED BY <3>1 DEF Range
  <2> QED BY <2>1, <2>2
<1>5. ASSUME NEW k \in 1 .. Len(w) - 1 PROVE Tail(w)[k] \in Range(w)
  BY <1>1, <1>3, TailOf DEF Range
<1> QED BY <1>3, <1>4, <1>5, TailOf DEF Range

LEMMA RangeAppend ==
    ASSUME NEW S, NEW w \in Seq(S), NEW x \in S
    PROVE  Range(Append(w, x)) = Range(w) \cup {x}
<1>1. \A k \in 1 .. Len(w) + 1 : k \in 1 .. Len(w) \/ k = Len(w) + 1
  BY AppendOf
<1>2. Len(w) + 1 \in 1 .. Len(w) + 1 /\ 1 .. Len(w) \subseteq 1 .. Len(w) + 1
  BY AppendOf
<1> QED BY <1>1, <1>2, AppendOf DEF Range

LEMMA InRange == ASSUME NEW w, NEW k \in DOMAIN w PROVE w[k] \in Range(w)
  BY DEF Range

LEMMA OrderedTail ==
    ASSUME NEW S, NEW w \in Seq(S), w # <<>>, Ordered(w) PROVE Ordered(Tail(w))
<1> DEFINE t == Tail(w)
<1>1. DOMAIN w = 1 .. Len(w) /\ DOMAIN t = 1 .. Len(w) - 1
  BY TailOf
<1>2. ASSUME NEW k \in 1 .. Len(w) - 1, NEW j \in 1 .. k - 1
      PROVE  t[k] = w[k + 1] /\ t[j] = w[j + 1]
             /\ k + 1 \in 1 .. Len(w) /\ j + 1 \in 1 .. (k + 1) - 1
  BY TailOf
<1> HIDE DEF t
<1>3. ASSUME NEW k \in 1 .. Len(w) - 1, NEW j \in 1 .. k - 1, t[j].conn = t[k].conn
      PROVE  /\ t[k].kind # "OPEN"
             /\ t[k].kind = "DATA" => t[j].kind \in {"OPEN", "DATA"}
             /\ t[k].kind = "DATA" /\ t[j].kind = "DATA" => t[j].chunk[2] < t[k].chunk[2]
  <2>1. t[k] = w[k + 1] /\ t[j] = w[j + 1] /\ k + 1 \in DOMAIN w /\ j + 1 \in 1 .. (k + 1) - 1
    BY <1>1, <1>2
  <2> QED BY <1>3, <2>1 DEF Ordered
<1>4. Ordered(t)
  BY <1>1, <1>3 DEF Ordered
<1> QED BY <1>4 DEF t

LEMMA OrderedAppend ==
    ASSUME NEW S, NEW w \in Seq(S), NEW x \in S, Ordered(w),
           \A f \in Range(w) : f.conn = x.conn =>
               /\ x.kind # "OPEN"
               /\ x.kind = "DATA" => f.kind \in {"OPEN", "DATA"}
               /\ x.kind = "DATA" /\ f.kind = "DATA" => f.chunk[2] < x.chunk[2]
    PROVE  Ordered(Append(w, x))
<1> DEFINE a == Append(w, x)
<1>1. ASSUME NEW k \in 1 .. Len(w), NEW j \in 1 .. k - 1
      PROVE  a[k] = w[k] /\ a[j] = w[j]
  BY AppendOf
<1>2. ASSUME NEW j \in 1 .. Len(w) PROVE a[j] = w[j] /\ a[j] \in Range(w)
  BY AppendOf DEF Range
<1>3. \A k \in 1 .. Len(w) + 1 : k \in 1 .. Len(w) \/ k = Len(w) + 1
  BY AppendOf
<1>4. (Len(w) + 1) - 1 = Len(w) /\ DOMAIN a = 1 .. Len(w) + 1 /\ a[Len(w) + 1] = x
      /\ DOMAIN w = 1 .. Len(w)
  BY AppendOf
<1> HIDE DEF a
<1> QED BY <1>1, <1>2, <1>3, <1>4 DEF Ordered, a

-----------------------------------------------------------------------------
(* Data without a gap *)

LEMMA ContinuesTail ==
    ASSUME NEW S, NEW w \in Seq(S), w # <<>>, NEW c, NEW base, NEW last,
           Continues(w, c, base, last), ~DataOf(w, c, 1)
    PROVE  Continues(Tail(w), c, base, last)
<1>1. ASSUME NEW k \in 1 .. Len(w), DataOf(w, c, k)
      PROVE  /\ k - 1 \in 1 .. Len(w) - 1 /\ (k - 1) + 1 = k /\ Tail(w)[k - 1] = w[k]
  BY <1>1, TailOf
<1>2. ASSUME NEW k \in 1 .. Len(w) - 1, DataOf(Tail(w), c, k)
      PROVE  \/ Tail(w)[k].chunk[2] = base + 1
             \/ \E j \in 1 .. k - 1 :
                   DataOf(Tail(w), c, j) /\ Tail(w)[j].chunk[2] + 1 = Tail(w)[k].chunk[2]
  <2>1. k + 1 \in 1 .. Len(w) /\ DataOf(w, c, k + 1) /\ Tail(w)[k] = w[k + 1]
    BY <1>2, TailOf DEF DataOf
  <2>2. CASE \E i \in 1 .. (k + 1) - 1 : DataOf(w, c, i) /\ w[i].chunk[2] + 1 = w[k + 1].chunk[2]
    <3>1. PICK i \in 1 .. (k + 1) - 1 : DataOf(w, c, i) /\ w[i].chunk[2] + 1 = w[k + 1].chunk[2]
      BY <2>2
    <3>2. i \in 1 .. Len(w) /\ i - 1 \in 1 .. k - 1 /\ Tail(w)[i - 1] = w[i]
      BY <1>1, <3>1, TailOf
    <3> QED BY <2>1, <3>1, <3>2 DEF DataOf
  <2> QED BY <2>1, <2>2, TailOf DEF Continues
<1>3. last = base \/ \E k \in 1 .. Len(w) - 1 :
          DataOf(Tail(w), c, k) /\ Tail(w)[k].chunk[2] = last
  <2>1. SUFFICES ASSUME last # base PROVE \E k \in 1 .. Len(w) - 1 :
                     DataOf(Tail(w), c, k) /\ Tail(w)[k].chunk[2] = last
    OBVIOUS
  <2>2. PICK k \in 1 .. Len(w) : DataOf(w, c, k) /\ w[k].chunk[2] = last
    BY <2>1, TailOf DEF Continues
  <2> QED BY <1>1, <2>2 DEF DataOf
<1> QED BY <1>2, <1>3, TailOf DEF Continues

LEMMA ContinuesTaken ==
    ASSUME NEW S, NEW w \in Seq(S), w # <<>>, Ordered(w), NEW c, NEW base \in Nat, NEW last \in Nat,
           Continues(w, c, base, last), DataOf(w, c, 1), w[1].chunk[2] <= last,
           \A f \in Range(w) : f.kind = "DATA" => f.chunk[2] \in Nat
    PROVE  w[1].chunk[2] = base + 1 /\ Continues(Tail(w), c, base + 1, last)
<1>1. w[1].chunk[2] = base + 1 /\ DOMAIN w = 1 .. Len(w) /\ Len(w) \in Nat /\ 1 \in 1 .. Len(w)
  BY TailOf DEF Continues
<1>2. ASSUME NEW k \in 1 .. Len(w), k # 1, DataOf(w, c, k)
      PROVE  /\ k - 1 \in 1 .. Len(w) - 1 /\ (k - 1) + 1 = k /\ Tail(w)[k - 1] = w[k]
             /\ base + 1 < w[k].chunk[2] /\ w[k].chunk[2] \in Nat
  <2>1. 1 \in 1 .. k - 1 /\ k - 1 \in 1 .. Len(w) - 1 /\ (k - 1) + 1 = k
    BY <1>1, <1>2
  <2>2. w[k].chunk[2] \in Nat
    BY <1>1, <1>2, InRange DEF DataOf
  <2>3. w[1].chunk[2] < w[k].chunk[2]
    BY <1>1, <1>2, <2>1 DEF Ordered, DataOf
  <2> QED BY <1>1, <2>1, <2>2, <2>3, TailOf
<1>3. last = base + 1 \/ \E k \in 1 .. Len(w) - 1 :
          DataOf(Tail(w), c, k) /\ Tail(w)[k].chunk[2] = last
  <2>1. last # base
    BY <1>1
  <2>2. PICK k \in 1 .. Len(w) : DataOf(w, c, k) /\ w[k].chunk[2] = last
    BY <1>1, <2>1 DEF Continues
  <2> QED BY <1>1, <1>2, <2>2 DEF DataOf
<1>4. ASSUME NEW k \in 1 .. Len(w) - 1, DataOf(Tail(w), c, k)
      PROVE  \/ Tail(w)[k].chunk[2] = (base + 1) + 1
             \/ \E j \in 1 .. k - 1 :
                   DataOf(Tail(w), c, j) /\ Tail(w)[j].chunk[2] + 1 = Tail(w)[k].chunk[2]
  <2>1. k + 1 \in 1 .. Len(w) /\ k + 1 # 1 /\ DataOf(w, c, k + 1) /\ Tail(w)[k] = w[k + 1]
    BY <1>4, TailOf DEF DataOf
  <2>2. base + 1 < w[k + 1].chunk[2]
    BY <1>2, <2>1
  <2>3. PICK i \in 1 .. (k + 1) - 1 : DataOf(w, c, i) /\ w[i].chunk[2] + 1 = w[k + 1].chunk[2]
    BY <1>1, <2>1, <2>2 DEF Continues
  <2>4. CASE i = 1
    BY <1>1, <2>1, <2>3, <2>4
  <2>5. CASE i # 1
    <3>1. i \in 1 .. Len(w) /\ i - 1 \in 1 .. k - 1 /\ Tail(w)[i - 1] = w[i]
      BY <1>2, <2>3, <2>5, TailOf
    <3> QED BY <2>1, <2>3, <3>1 DEF DataOf
  <2> QED BY <2>4, <2>5
<1> QED BY <1>1, <1>3, <1>4, TailOf DEF Continues

LEMMA ContinuesAppend ==
    ASSUME NEW S, NEW w \in Seq(S), NEW x \in S, NEW c, NEW base, NEW last,
           Continues(w, c, base, last), x.kind # "DATA" \/ x.conn # c
    PROVE  Continues(Append(w, x), c, base, last)
<1> DEFINE a == Append(w, x)
<1>1. /\ DOMAIN w = 1 .. Len(w) /\ DOMAIN a = 1 .. Len(w) + 1 /\ a[Len(w) + 1] = x
      /\ \A k \in 1 .. Len(w) : a[k] = w[k] /\ k \in 1 .. Len(w) + 1
      /\ \A k \in 1 .. Len(w) + 1 : k \in 1 .. Len(w) \/ k = Len(w) + 1
  BY AppendOf
<1>2. \A k \in 1 .. Len(w) : \A j \in 1 .. k - 1 : j \in 1 .. Len(w)
  BY AppendOf
<1> HIDE DEF a
<1>3. \A k \in DOMAIN a : DataOf(a, c, k) => k \in 1 .. Len(w) /\ DataOf(w, c, k)
  BY <1>1 DEF DataOf
<1> QED BY <1>1, <1>2, <1>3 DEF Continues, DataOf, a

LEMMA ContinuesSend ==
    ASSUME NEW S, NEW w \in Seq(S), NEW x \in S, NEW c, NEW base \in Nat, NEW last \in Nat,
           Continues(w, c, base, last),
           x.kind = "DATA", x.conn = c, x.chunk[2] = last + 1
    PROVE  Continues(Append(w, x), c, base, last + 1)
<1> DEFINE a == Append(w, x)
<1>1. /\ DOMAIN w = 1 .. Len(w) /\ DOMAIN a = 1 .. Len(w) + 1 /\ a[Len(w) + 1] = x
      /\ \A k \in 1 .. Len(w) : a[k] = w[k] /\ k \in 1 .. Len(w) + 1
      /\ \A k \in 1 .. Len(w) + 1 : k \in 1 .. Len(w) \/ k = Len(w) + 1
      /\ Len(w) + 1 \in 1 .. Len(w) + 1 /\ (Len(w) + 1) - 1 = Len(w)
  BY AppendOf
<1>2. \A k \in 1 .. Len(w) : \A j \in 1 .. k - 1 : j \in 1 .. Len(w)
  BY AppendOf
<1> HIDE DEF a
<1>3. ASSUME NEW k \in DOMAIN a, DataOf(a, c, k)
      PROVE  \/ a[k].chunk[2] = base + 1
             \/ \E j \in 1 .. k - 1 : DataOf(a, c, j) /\ a[j].chunk[2] + 1 = a[k].chunk[2]
  <2>1. CASE k = Len(w) + 1
    BY <1>1, <2>1 DEF Continues, DataOf
  <2>2. CASE k \in 1 .. Len(w)
    BY <1>1, <1>2, <1>3, <2>2 DEF Continues, DataOf
  <2> QED BY <1>1, <2>1, <2>2
<1>4. \E k \in DOMAIN a : DataOf(a, c, k) /\ a[k].chunk[2] = last + 1
  BY <1>1 DEF DataOf
<1> QED BY <1>3, <1>4 DEF Continues, a

-----------------------------------------------------------------------------
(* Types *)

LEMMA Set1 ==
    ASSUME NEW R, NEW f \in [Side -> R], NEW s \in Side, NEW v \in R
    PROVE  /\ [f EXCEPT ![s] = v] \in [Side -> R]
           /\ \A t \in Side : [f EXCEPT ![s] = v][t] = IF t = s THEN v ELSE f[t]
  OBVIOUS

LEMMA Set2 ==
    ASSUME NEW R, NEW f \in [Side -> [Conn -> R]], NEW s \in Side, NEW c \in Conn, NEW v \in R
    PROVE  /\ [f EXCEPT ![s][c] = v] \in [Side -> [Conn -> R]]
           /\ \A t \in Side, d \in Conn :
                 [f EXCEPT ![s][c] = v][t][d] = IF t = s /\ d = c THEN v ELSE f[t][d]
  OBVIOUS

\* What a step may do to one stream leaves the others as they are.
LEMMA Elsewhere ==
    ASSUME NEW R, NEW f \in [Side -> [Conn -> R]], NEW g, NEW s \in Side, NEW c \in Conn,
           g = f \/ \E v : g = [f EXCEPT ![s][c] = v]
    PROVE  \A t \in Side, d \in Conn : ~(t = s /\ d = c) => g[t][d] = f[t][d]
<1>1. ASSUME NEW v, g = [f EXCEPT ![s][c] = v]
      PROVE  \A t \in Side, d \in Conn : ~(t = s /\ d = c) => g[t][d] = f[t][d]
  BY <1>1
<1> QED BY <1>1

LEMMA FrameTypes ==
    /\ \A f \in Frame :
          /\ f.conn \in Conn /\ f.kind \in {"OPEN", "DATA", "CLOSE", "ERROR"}
          /\ f.kind = "DATA" => f.chunk \in Chunk /\ f.chunk[1] \in Conn /\ f.chunk[2] \in Nat \ {0}
                                /\ f.chunk = <<f.chunk[1], f.chunk[2]>>
    /\ \A c \in Conn :
          /\ OpenFrame(c) \in Frame /\ OpenFrame(c).kind = "OPEN" /\ OpenFrame(c).conn = c
          /\ CloseFrame(c) \in Frame /\ CloseFrame(c).kind = "CLOSE" /\ CloseFrame(c).conn = c
          /\ ErrorFrame(c) \in Frame /\ ErrorFrame(c).kind = "ERROR" /\ ErrorFrame(c).conn = c
    /\ \A c \in Conn, n \in Nat : n # 0 =>
          /\ DataFrame(c, n) \in Frame /\ DataFrame(c, n).kind = "DATA"
          /\ DataFrame(c, n).conn = c /\ DataFrame(c, n).chunk = <<c, n>>
  BY DEF Frame, Chunk, OpenFrame, CloseFrame, ErrorFrame, DataFrame

\* A connection that is yet to be accepted finds an id.
LEMMA NextId ==
    ASSUME TypeOK, next <= Cardinality(Accepted) + 1, NEW c \in Conn, c \notin Accepted
    PROVE  /\ next \in StreamId /\ next + 1 \in 1 .. Cardinality(Conn) + 1
           /\ Cardinality(Accepted \cup {c}) = Cardinality(Accepted) + 1
           /\ Cardinality(Accepted) \in Nat
<1>1. IsFiniteSet(Conn) /\ Accepted \subseteq Conn /\ Accepted \cup {c} \subseteq Conn
  BY MuxAssumption DEF Accepted
<1>2. /\ IsFiniteSet(Accepted) /\ Cardinality(Accepted) \in Nat /\ Cardinality(Conn) \in Nat
      /\ Cardinality(Accepted \cup {c}) = Cardinality(Accepted) + 1
      /\ Cardinality(Accepted \cup {c}) <= Cardinality(Conn)
  BY <1>1, FS_Subset, FS_CardinalityType, FS_AddElement
<1> QED BY <1>2 DEF TypeOK, StreamId

LEMMA MuxStart == Init => Inv
<1> SUFFICES ASSUME Init PROVE Inv
    OBVIOUS
<1>1. /\ IsFiniteSet({}) /\ Cardinality({}) = 0 /\ Cardinality(Conn) \in Nat
      /\ Accepted = {} /\ (Conn # {} => Cardinality(Conn) # 0)
  BY FS_EmptySet, FS_CardinalityType, MuxAssumption DEF Init, Accepted, Side
<1>2. \A s \in Side, c \in Conn :
          /\ wire[s] = <<>> /\ mapped[s] = {} /\ pump[s][c] = "none" /\ writer[s][c] = "none"
          /\ chan[s][c] = <<>> /\ got[s][c] = <<>> /\ sent[s][c] = 0
  BY DEF Init
<1>3. TypeOK
  <2>1. id \in [Conn -> StreamId] /\ born \in [Conn -> 1 .. MaxEpoch]
    BY <1>1, MuxAssumption DEF Init, StreamId
  <2>2. /\ pump \in [Side -> [Conn -> PumpStage]] /\ writer \in [Side -> [Conn -> WriterStage]]
        /\ chan \in [Side -> [Conn -> Seq(Chunk)]] /\ got \in [Side -> [Conn -> Seq(Chunk)]]
        /\ sent \in [Side -> [Conn -> Nat]]
    BY DEF Init, PumpStage, WriterStage
  <2>3. mapped \in [Side -> SUBSET Conn] /\ held \in [Side -> BOOLEAN] /\ wire \in [Side -> Seq(Frame)]
    BY DEF Init
  <2> QED BY <1>1, <1>2, <2>1, <2>2, <2>3, MuxAssumption DEF Init, TypeOK
<1>4. IdInv /\ StageInv
  BY <1>1, <1>2 DEF Init, IdInv, StageInv
<1>5. DOMAIN <<>> = {} /\ Range(<<>>) = {} /\ Len(<<>>) = 0
  BY DEF Range
<1>6. FrameInv /\ OrderInv
  <2>1. ASSUME NEW s \in Side PROVE Range(wire[s]) = {} /\ DOMAIN wire[s] = {}
    <3>1. wire[s] = <<>>
      BY DEF Init
    <3> QED BY ONLY <1>5, <3>1
  <2>2. FrameInv
    BY <2>1 DEF FrameInv
  <2> QED BY <2>1, <2>2 DEF OrderInv, Ordered
<1>7. ChanInv /\ FedInv /\ DoneInv
  <2>1. ASSUME NEW s \in Side, NEW c \in Conn
        PROVE  /\ Delivered(s, c) = 0 /\ Base(s, c) = 0 /\ sent[Peer(s)][c] = 0 /\ sent[s][c] = 0
               /\ writer[s][c] = "none" /\ pump[s][c] = "none" /\ DOMAIN wire[s] = {}
    <3>1. got[s][c] = <<>> /\ chan[s][c] = <<>> /\ wire[s] = <<>>
      BY <1>2
    <3>2. Delivered(s, c) = 0 /\ Queued(s, c) = 0 /\ DOMAIN wire[s] = {}
      BY ONLY <1>5, <3>1 DEF Delivered, Queued
    <3>3. sent[Peer(s)][c] = 0
      BY <1>2, Peers
    <3> QED BY <1>2, <3>2, <3>3 DEF Base
  <2>2. ChanInv
    BY <2>1 DEF ChanInv
  <2>3. FedInv
    BY <2>1 DEF FedInv, Continues
  <2> QED BY <2>1, <2>2, <2>3 DEF DoneInv
<1> QED BY <1>3, <1>4, <1>6, <1>7 DEF Inv

\* A stream that starts has nothing in its channel.
LEMMA StartTypes ==
    ASSUME TypeOK, NEW s \in Side, NEW c \in Conn, Start(s, c), chan[s][c] = <<>>,
           UNCHANGED <<epoch, next, id, born, held, dataVars>>,
           opening' \in Conn \cup {None}, wire' \in [Side -> Seq(Frame)]
    PROVE  TypeOK'
<1>1. pump' \in [Side -> [Conn -> PumpStage]]
  BY Set2 DEF Start, TypeOK, PumpStage
<1>2. writer' \in [Side -> [Conn -> WriterStage]]
  BY Set2 DEF Start, TypeOK, WriterStage
<1>3. \A t \in Side, d \in Conn : writer'[t][d] = IF t = s /\ d = c THEN "draining" ELSE writer[t][d]
  BY DEF Start, TypeOK
<1>4. mapped' \in [Side -> SUBSET Conn]
  BY Set1 DEF Start, TypeOK
<1>5. ASSUME NEW t \in Side, NEW d \in Conn
      PROVE Len(chan'[t][d]) <= IF writer'[t][d] = "writing" THEN Cap + 1 ELSE Cap
  <2>1. chan' = chan /\ Len(<<>>) = 0 /\ Cap \in Nat
    BY MuxAssumption DEF dataVars
  <2>2. CASE t = s /\ d = c
    BY <1>3, <2>1, <2>2
  <2>3. CASE ~(t = s /\ d = c)
    BY <1>3, <2>1, <2>3 DEF TypeOK
  <2> QED BY <2>2, <2>3
<1> QED BY <1>1, <1>2, <1>4, <1>5 DEF TypeOK, dataVars

\* A writer or its channel changes within the bounds.
Fits(s, c, w, q) ==
    /\ w \in WriterStage /\ q \in Seq(Chunk)
    /\ writer' = [writer EXCEPT ![s][c] = w] /\ chan' = [chan EXCEPT ![s][c] = q]
    /\ Len(q) <= IF w = "writing" THEN Cap + 1 ELSE Cap

LEMMA WriterTypes ==
    ASSUME TypeOK, NEW s \in Side, NEW c \in Conn, NEW w, NEW q, Fits(s, c, w, q)
    PROVE  /\ writer' \in [Side -> [Conn -> WriterStage]]
           /\ chan' \in [Side -> [Conn -> Seq(Chunk)]]
           /\ \A t \in Side, d \in Conn :
                 Len(chan'[t][d]) <= IF writer'[t][d] = "writing" THEN Cap + 1 ELSE Cap
<1>1. writer' \in [Side -> [Conn -> WriterStage]]
  BY Set2 DEF TypeOK, Fits
<1>2. chan' \in [Side -> [Conn -> Seq(Chunk)]]
  BY Set2 DEF TypeOK, Fits
<1>3. ASSUME NEW t \in Side, NEW d \in Conn
      PROVE Len(chan'[t][d]) <= IF writer'[t][d] = "writing" THEN Cap + 1 ELSE Cap
  <2>1. /\ writer'[t][d] = IF t = s /\ d = c THEN w ELSE writer[t][d]
        /\ chan'[t][d] = IF t = s /\ d = c THEN q ELSE chan[t][d]
    BY DEF TypeOK, Fits
  <2> QED BY <2>1 DEF TypeOK, Fits
<1> QED BY <1>1, <1>2, <1>3

\* The wire keeps its type whatever is appended and consumed.
LEMMA WireTypes ==
    ASSUME TypeOK, NEW s \in Side
    PROVE  /\ wire[s] # <<>> => [wire EXCEPT ![s] = Tail(@)] \in [Side -> Seq(Frame)]
           /\ \A f \in Frame : [wire EXCEPT ![s] = Append(@, f)] \in [Side -> Seq(Frame)]
           /\ wire["host"] # <<>> => \A f, g \in Frame :
                 [wire EXCEPT !["host"] = Tail(@), !["client"] = @ \o <<f, g>>]
                    \in [Side -> Seq(Frame)]
<1> USE DEF TypeOK
<1>1. wire[s] # <<>> => [wire EXCEPT ![s] = Tail(@)] \in [Side -> Seq(Frame)]
  BY TailOf, Set1
<1>2. ASSUME NEW f \in Frame PROVE [wire EXCEPT ![s] = Append(@, f)] \in [Side -> Seq(Frame)]
  BY AppendOf, Set1
<1>3. ASSUME wire["host"] # <<>>, NEW f \in Frame, NEW g \in Frame
      PROVE  [wire EXCEPT !["host"] = Tail(@), !["client"] = @ \o <<f, g>>]
                \in [Side -> Seq(Frame)]
  <2>1. wire["client"] \o <<f, g>> \in Seq(Frame) /\ Tail(wire["host"]) \in Seq(Frame)
    BY <1>3, TailOf DEF Side
  <2> QED BY <2>1 DEF Side
<1> QED BY <1>1, <1>2, <1>3

\* The connection of the frame at the head, and what it says.
LEMMA HeadFrame ==
    ASSUME TypeOK, NEW s \in Side, wire[s] # <<>>
    PROVE  /\ Head(wire[s]) \in Frame /\ Head(wire[s]).conn \in Conn
           /\ Head(wire[s]) = wire[s][1] /\ Head(wire[s]) \in Range(wire[s])
           /\ Head(wire[s]).kind = "DATA" => Head(wire[s]).chunk \in Chunk
           /\ Lookup(s, Head(wire[s]).conn) \subseteq mapped[s]
           /\ Lookup(s, Head(wire[s]).conn) \subseteq Conn
  BY TailOf, RangeTail, FrameTypes DEF TypeOK, Lookup

LEMMA TypeStep == ASSUME TypeOK, StartedInv, LineInv, [Next]_vars PROVE TypeOK'
<1> USE MuxAssumption, Peers, FrameTypes DEF linkVars, dataVars
<1>1. CASE UNCHANGED vars
  BY <1>1 DEF vars, TypeOK
<1>2. ASSUME NEW c \in Conn, Accept(c) PROVE TypeOK'
  <2>1. c \notin Accepted
    BY <1>2 DEF Accept, Accepted, TypeOK
  <2>2. next \in StreamId /\ next + 1 \in 1 .. Cardinality(Conn) + 1
    BY <2>1, NextId DEF StartedInv
  <2>3. wire' \in [Side -> Seq(Frame)]
    BY <1>2, WireTypes DEF Accept, Side
  <2>4. id' \in [Conn -> StreamId] /\ born' \in [Conn -> 1 .. MaxEpoch] /\ next' = next + 1
    BY <1>2, <2>2 DEF Accept, TypeOK
  <2>5. opening' \in Conn \cup {None} /\ UNCHANGED <<epoch, mapped, held, pump, writer, dataVars>>
    BY <1>2 DEF Accept
  <2> QED BY <2>2, <2>3, <2>4, <2>5 DEF TypeOK
<1>3. CASE Register
  <2>1. opening \in Conn /\ pump["client"][opening] = "none" /\ chan["client"][opening] = <<>>
    BY <1>3 DEF Register, TypeOK, StartedInv, StreamOK, Side
  <2> QED BY <1>3, <2>1, StartTypes DEF Register, TypeOK, Side
<1>4. CASE HostOpens
  <2>1. PICK refused \in BOOLEAN : HostOpen(refused)
    BY <1>4 DEF HostOpens
  <2> DEFINE c == Head(wire["host"]).conn
  <2>2. wire["host"] # <<>> /\ c \in Conn /\ Head(wire["host"]).kind = "OPEN"
    BY <2>1, HeadFrame DEF HostOpen, Arrives, Side
  <2>3. pump["host"][c] = "none" /\ chan["host"][c] = <<>>
    BY <2>2, HeadFrame DEF LineInv, OnLine, StartedInv, StreamOK, Side
  <2>4. wire' \in [Side -> Seq(Frame)]
    <3>1. "host" \in Side /\ ErrorFrame(c) \in Frame /\ CloseFrame(c) \in Frame
      BY <2>2 DEF Side
    <3>2. \/ wire' = [wire EXCEPT !["host"] = Tail(@)]
          \/ wire' = [wire EXCEPT !["host"] = Tail(@),
                                  !["client"] = @ \o <<ErrorFrame(c), CloseFrame(c)>>]
      BY <2>1 DEF HostOpen, Consume
    <3> HIDE DEF c
    <3>3. CASE wire' = [wire EXCEPT !["host"] = Tail(@)]
      BY <2>2, <3>1, <3>3, WireTypes
    <3>4. CASE wire' = [wire EXCEPT !["host"] = Tail(@),
                                    !["client"] = @ \o <<ErrorFrame(c), CloseFrame(c)>>]
      <4>1. [wire EXCEPT !["host"] = Tail(@),
                         !["client"] = @ \o <<ErrorFrame(c), CloseFrame(c)>>] \in [Side -> Seq(Frame)]
        BY <2>2, <3>1, WireTypes
      <4> QED BY <3>4, <4>1
    <3> QED BY <3>2, <3>3, <3>4
  <2>5. UNCHANGED <<linkVars, held, dataVars>>
    BY <2>1 DEF HostOpen
  <2>6. UNCHANGED <<mapped, pump, writer>> \/ Start("host", c)
    BY <2>1 DEF HostOpen
  <2>7. CASE UNCHANGED <<mapped, pump, writer>>
    BY <2>4, <2>5, <2>7 DEF TypeOK
  <2>8. CASE Start("host", c)
    <3> HIDE DEF c
    <3>1. opening' \in Conn \cup {None} /\ "host" \in Side
      BY <2>5 DEF TypeOK, Side
    <3> QED BY <2>2, <2>3, <2>4, <2>5, <2>8, <3>1, StartTypes
  <2> QED BY <2>6, <2>7, <2>8
<1>5. ASSUME NEW s \in Side, ReadFrame(s) PROVE TypeOK'
  <2>1. wire[s] # <<>>
    BY <1>5 DEF ReadFrame, DataDropped, DataWaits, DataTaken, CloseArrives, Arrives
  <2>2. CASE DataDropped(s)
    <3>1. wire' \in [Side -> Seq(Frame)]
      BY <2>1, <2>2, WireTypes DEF DataDropped, Consume
    <3>2. UNCHANGED <<linkVars, mapped, held, pump, writer, dataVars>>
      BY <2>2 DEF DataDropped
    <3> QED BY <3>1, <3>2 DEF TypeOK
  <2>3. CASE DataWaits(s)
    BY <2>3, Set1 DEF DataWaits, TypeOK
  <2>4. CASE CloseArrives(s)
    <3>1. mapped' \in [Side -> SUBSET Conn] /\ wire' \in [Side -> Seq(Frame)]
      BY <2>1, <2>4, WireTypes DEF CloseArrives, Consume, TypeOK
    <3> QED BY <2>4, <3>1 DEF CloseArrives, TypeOK
  <2>5. CASE DataTaken(s)
    <3>1. PICK c \in Lookup(s, Head(wire[s]).conn) :
              Room(s, c) /\ chan' = [chan EXCEPT ![s][c] = Append(@, Head(wire[s]).chunk)]
      BY <2>5 DEF DataTaken
    <3>2. c \in Conn /\ Head(wire[s]).chunk \in Chunk
      BY <2>1, <2>5, HeadFrame DEF DataTaken, Arrives
    <3> DEFINE q == Append(chan[s][c], Head(wire[s]).chunk)
    <3>3. /\ q \in Seq(Chunk) /\ chan' = [chan EXCEPT ![s][c] = q]
          /\ Len(q) <= IF writer[s][c] = "writing" THEN Cap + 1 ELSE Cap
      <4>1. chan[s][c] \in Seq(Chunk)
        BY <3>2 DEF TypeOK
      <4>2. Len(q) = Len(chan[s][c]) + 1 /\ q \in Seq(Chunk) /\ Len(chan[s][c]) \in Nat
        BY <3>2, <4>1, AppendOf
      <4> QED BY <3>1, <4>2 DEF Room
    <3>4. writer' = [writer EXCEPT ![s][c] = writer[s][c]] /\ writer[s][c] \in WriterStage
      BY <2>5, <3>2 DEF DataTaken, TypeOK
    <3> HIDE DEF q
    <3>5. /\ chan' \in [Side -> [Conn -> Seq(Chunk)]]
          /\ \A t \in Side, d \in Conn :
                Len(chan'[t][d]) <= IF writer'[t][d] = "writing" THEN Cap + 1 ELSE Cap
      <4>1. Fits(s, c, writer[s][c], q)
        BY <3>3, <3>4 DEF Fits
      <4> QED BY <3>2, <4>1, WriterTypes
    <3>6. wire' \in [Side -> Seq(Frame)] /\ held' \in [Side -> BOOLEAN]
      BY <2>1, <2>5, WireTypes, Set1 DEF DataTaken, Consume, TypeOK
    <3>7. UNCHANGED <<linkVars, mapped, pump, writer, sent, got>>
      BY <2>5 DEF DataTaken
    <3> QED BY <3>5, <3>6, <3>7 DEF TypeOK
  <2> QED BY <1>5, <2>2, <2>3, <2>4, <2>5 DEF ReadFrame
<1>6. ASSUME NEW s \in Side, NEW c \in Conn, Sends(s, c) PROVE TypeOK'
  <2>1. CASE Linked(s, c)
    <3>1. sent[s][c] + 1 \in Nat /\ DataFrame(c, sent[s][c] + 1) \in Frame
      BY DEF TypeOK
    <3>2. sent' = [sent EXCEPT ![s][c] = sent[s][c] + 1]
          /\ wire' = [wire EXCEPT ![Peer(s)] = Append(@, DataFrame(c, sent[s][c] + 1))]
          /\ pump' = pump
      BY <1>6, <2>1 DEF Sends
    <3>3. sent' \in [Side -> [Conn -> Nat]]
      BY <3>1, <3>2, Set2 DEF TypeOK
    <3>4. wire' \in [Side -> Seq(Frame)]
      BY <3>1, <3>2, WireTypes
    <3>5. UNCHANGED <<linkVars, mapped, held, writer, chan, got, pump>>
      BY <1>6, <3>2 DEF Sends
    <3> QED BY <3>3, <3>4, <3>5 DEF TypeOK
  <2>2. CASE ~Linked(s, c)
    <3>1. pump' = [pump EXCEPT ![s][c] = "closing"] /\ UNCHANGED <<sent, wire>>
      BY <1>6, <2>2 DEF Sends
    <3>2. pump' \in [Side -> [Conn -> PumpStage]]
      BY <3>1, Set2 DEF TypeOK, PumpStage
    <3> QED BY <1>6, <3>1, <3>2 DEF Sends, TypeOK
  <2> QED BY <2>1, <2>2
<1>7. ASSUME NEW s \in Side, NEW c \in Conn, Ends(s, c) PROVE TypeOK'
  <2>1. wire' \in [Side -> Seq(Frame)]
    BY <1>7, WireTypes DEF Ends, TypeOK
  <2>2. pump' = [pump EXCEPT ![s][c] = "closing"]
    BY <1>7 DEF Ends
  <2>3. pump' \in [Side -> [Conn -> PumpStage]]
    BY <2>2, Set2 DEF TypeOK, PumpStage
  <2>4. UNCHANGED <<linkVars, mapped, held, writer, dataVars>>
    BY <1>7 DEF Ends
  <2> QED BY <2>1, <2>3, <2>4 DEF TypeOK
<1>8. ASSUME NEW s \in Side, NEW c \in Conn, PumpEnds(s, c) PROVE TypeOK'
  <2>1. mapped' \in [Side -> SUBSET Conn]
    BY <1>8 DEF PumpEnds, Removed, TypeOK
  <2>2. pump' \in [Side -> [Conn -> PumpStage]]
    BY <1>8, Set2 DEF PumpEnds, TypeOK, PumpStage
  <2> QED BY <1>8, <2>1, <2>2 DEF PumpEnds, TypeOK
<1>9. ASSUME NEW s \in Side, NEW c \in Conn, Drains(s, c) \/ WriterEnds(s, c) PROVE TypeOK'
  <2>1. /\ chan[s][c] \in Seq(Chunk) /\ Len(chan[s][c]) \in Nat
        /\ Len(chan[s][c]) <= IF writer[s][c] = "writing" THEN Cap + 1 ELSE Cap
        /\ chan = [chan EXCEPT ![s][c] = chan[s][c]]
        /\ <<>> \in Seq(Chunk) /\ Len(<<>>) = 0 /\ Cap \in Nat
    BY DEF TypeOK
  <2>2. CASE Receives(s, c)
    <3>1. Fits(s, c, "writing", chan[s][c])
      BY <2>1, <2>2 DEF Receives, WriterStage, Fits
    <3>2. UNCHANGED <<linkVars, mapped, held, wire, pump, dataVars>>
      BY <2>2 DEF Receives
    <3> QED BY <3>1, <3>2, WriterTypes DEF TypeOK
  <2>3. CASE Writes(s, c) \/ WriteFails(s, c)
    <3>1. chan[s][c] # <<>> /\ writer[s][c] = "writing"
      BY <2>3 DEF Writes, WriteFails, StartedInv, StreamOK
    <3>2. Tail(chan[s][c]) \in Seq(Chunk) /\ Len(Tail(chan[s][c])) <= Cap /\ Head(chan[s][c]) \in Chunk
      BY <2>1, <3>1, TailOf
    <3>3. PICK w \in {"draining", "broken"} : Fits(s, c, w, Tail(chan[s][c]))
      <4>1. CASE Writes(s, c)
        <5>1. Fits(s, c, "draining", Tail(chan[s][c]))
          BY <3>2, <4>1 DEF Writes, WriterStage, Fits
        <5> QED BY <5>1
      <4>2. CASE WriteFails(s, c)
        <5>1. Fits(s, c, "broken", Tail(chan[s][c]))
          BY <3>2, <4>2 DEF WriteFails, WriterStage, Fits
        <5> QED BY <5>1
      <4> QED BY <2>3, <4>1, <4>2
    <3>4. got' \in [Side -> [Conn -> Seq(Chunk)]]
      <4>1. Append(got[s][c], Head(chan[s][c])) \in Seq(Chunk)
        BY <3>2, AppendOf DEF TypeOK
      <4>2. CASE Writes(s, c)
        <5>1. got' = [got EXCEPT ![s][c] = Append(got[s][c], Head(chan[s][c]))]
          BY <4>2 DEF Writes
        <5> QED BY <4>1, <5>1, Set2 DEF TypeOK
      <4>3. CASE WriteFails(s, c)
        BY <4>3 DEF WriteFails, TypeOK
      <4> QED BY <2>3, <4>2, <4>3
    <3>5. UNCHANGED <<linkVars, mapped, held, wire, pump, sent>>
      BY <2>3 DEF Writes, WriteFails
    <3> QED BY <3>3, <3>4, <3>5, WriterTypes DEF TypeOK
  <2>4. CASE Drained(s, c)
    <3>1. Fits(s, c, "drained", chan[s][c])
      BY <2>1, <2>4 DEF Drained, WriterStage, Fits
    <3>2. UNCHANGED <<linkVars, mapped, held, wire, pump, dataVars>>
      BY <2>4 DEF Drained
    <3> QED BY <3>1, <3>2, WriterTypes DEF TypeOK
  <2>5. CASE WriterEnds(s, c)
    <3>1. Fits(s, c, "done", <<>>)
      BY <2>1, <2>5 DEF WriterEnds, WriterStage, Fits
    <3>2. mapped' \in [Side -> SUBSET Conn]
      BY <2>5 DEF WriterEnds, Removed, TypeOK
    <3>3. UNCHANGED <<linkVars, held, wire, pump, sent, got>>
      BY <2>5 DEF WriterEnds
    <3> QED BY <3>1, <3>2, <3>3, WriterTypes DEF TypeOK
  <2> QED BY <1>9, <2>2, <2>3, <2>4, <2>5 DEF Drains
<1> QED BY <1>1, <1>2, <1>3, <1>4, <1>5, <1>6, <1>7, <1>8, <1>9 DEF Next

-----------------------------------------------------------------------------
(* What a step leaves as it is *)

Rest == IdInv /\ StageInv /\ FrameInv /\ OrderInv /\ ChanInv /\ FedInv /\ DoneInv

LEMMA OnWire ==
    ASSUME Inv
    PROVE  \A t \in Side : \A f \in Range(wire[t]) : f \in Frame /\ f.conn \in Conn
<1>1. ASSUME NEW t \in Side, NEW f \in Range(wire[t]) PROVE f \in Frame
  <2>1. wire[t] \in Seq(Frame)
    BY DEF Inv, TypeOK
  <2> QED BY <2>1 DEF Range
<1> QED BY <1>1, FrameTypes

LEMMA Typed ==
    ASSUME TypeOK, NEW s \in Side, NEW c \in Conn
    PROVE  /\ wire[s] \in Seq(Frame) /\ mapped[s] \subseteq Conn
           /\ pump[s][c] \in PumpStage /\ writer[s][c] \in WriterStage
           /\ got[s][c] \in Seq(Chunk) /\ chan[s][c] \in Seq(Chunk)
           /\ Delivered(s, c) \in Nat /\ Queued(s, c) \in Nat /\ Base(s, c) \in Nat
           /\ sent[s][c] \in Nat /\ sent[Peer(s)][c] \in Nat
<1>1. /\ wire[s] \in Seq(Frame) /\ mapped[s] \subseteq Conn
      /\ pump[s][c] \in PumpStage /\ writer[s][c] \in WriterStage
      /\ got[s][c] \in Seq(Chunk) /\ chan[s][c] \in Seq(Chunk)
      /\ sent[s][c] \in Nat /\ sent[Peer(s)][c] \in Nat
  BY Peers DEF TypeOK
<1>2. Delivered(s, c) \in Nat /\ Queued(s, c) \in Nat
  BY <1>1 DEF Delivered, Queued
<1>3. Base(s, c) \in Nat
  BY <1>2 DEF Base
<1> QED BY <1>1, <1>2, <1>3

\* One session and unique ids: an id names its own connection.
LEMMA Own ==
    ASSUME Inv, NEW s \in Side, NEW c \in Accepted
    PROVE  /\ c \in Conn /\ Linked(s, c)
           /\ Lookup(s, c) = mapped[s] \cap {c}
           /\ Removed(s, c) = [mapped EXCEPT ![s] = @ \ {c}]
<1>1. mapped[s] \subseteq Accepted /\ Accepted \subseteq Conn
  BY DEF Inv, StageInv, TypeOK, Accepted
<1>2. \A d \in mapped[s] : id[d] = id[c] <=> d = c
  BY <1>1 DEF Inv, IdInv
<1>3. epoch = 1 /\ \A d \in Conn : born[d] = 1
  BY DEF Inv, IdInv
<1>4. Lookup(s, c) = mapped[s] \cap {c}
  BY <1>1, <1>2, <1>3 DEF Lookup
<1>5. {d \in mapped[s] : ~SameEntry(s, c, d)} = mapped[s] \ {c}
  BY <1>1, <1>2, <1>3 DEF SameEntry
<1> QED BY <1>1, <1>3, <1>4, <1>5 DEF Removed, Linked

LEMMA AcceptedKept ==
    ASSUME Inv, UNCHANGED linkVars,
           \A c \in Conn : pump'["client"][c] = "none" <=> pump["client"][c] = "none"
    PROVE  Accepted' = Accepted /\ IdInv'
<1>1. Accepted' = Accepted
  BY DEF Accepted, linkVars
<1> QED BY <1>1 DEF Inv, IdInv, linkVars

LEMMA FinishedKept ==
    ASSUME Inv, Accepted \subseteq Accepted',
           \A t \in Side, c \in Conn :
              pump[t][c] \in {"closing", "done"} => pump'[t][c] \in {"closing", "done"},
           \A c \in Accepted :
              pump["host"][c] = "none" /\ ~Opens(wire["host"], c) =>
                 pump'["host"][c] = "none" /\ ~Opens(wire["host"], c)'
    PROVE  \A t \in Side, c \in Accepted : Finished(t, c) => Finished(t, c)'
  BY DEF Finished, Accepted

\* A frame that stays on the wire stays right.
LEMMA FrameKept ==
    ASSUME Inv, NEW s \in Side, NEW f \in Range(wire[s]), Accepted \subseteq Accepted',
           \A t \in Side, c \in Conn : sent[t][c] <= sent'[t][c] /\ sent'[t][c] \in Nat,
           \A t \in Side, c \in Accepted : Finished(t, c) => Finished(t, c)',
           f.kind = "OPEN" => pump'["host"][f.conn] = "none"
    PROVE  FrameOK(s, f)'
<1>1. FrameOK(s, f) /\ f \in Frame /\ f.conn \in Accepted /\ f.conn \in Conn /\ Peer(s) \in Side
  <2>1. wire[s] \in Seq(Frame)
    BY DEF Inv, TypeOK
  <2>2. f \in Frame
    BY <2>1 DEF Range
  <2> QED BY <2>2, FrameTypes, Peers DEF Inv, FrameInv, FrameOK
<1>2. f.kind = "DATA" => f.chunk[2] <= sent'[Peer(s)][f.conn]
  <2>1. /\ sent[Peer(s)][f.conn] \in Nat /\ sent'[Peer(s)][f.conn] \in Nat
        /\ sent[Peer(s)][f.conn] <= sent'[Peer(s)][f.conn]
    BY <1>1 DEF Inv, TypeOK
  <2>2. f.kind = "DATA" => f.chunk[2] \in Nat /\ f.chunk[2] <= sent[Peer(s)][f.conn]
    BY <1>1, FrameTypes DEF FrameOK
  <2> QED BY <2>1, <2>2
<1> QED BY <1>1, <1>2 DEF FrameOK

\* Steps of writers.
LEMMA Quiet ==
    ASSUME Inv, UNCHANGED <<linkVars, wire, pump, sent>>
    PROVE  /\ Accepted' = Accepted /\ IdInv' /\ FrameInv' /\ OrderInv'
           /\ \A t \in Side, c \in Conn : Finished(t, c)' <=> Finished(t, c)
           /\ \A c : Opens(wire["host"], c)' <=> Opens(wire["host"], c)
<1>1. Accepted' = Accepted /\ IdInv'
  BY AcceptedKept
<1>2. \A c : Opens(wire["host"], c)' <=> Opens(wire["host"], c)
  BY DEF Opens
<1>3. \A t \in Side, c \in Conn : Finished(t, c)' <=> Finished(t, c)
  BY <1>1, <1>2 DEF Finished
<1>4. \A t \in Side, f \in Frame : FrameOK(t, f)' <=> FrameOK(t, f)
  BY <1>1, <1>3, Peers, FrameTypes DEF FrameOK
<1>5. \A t \in Side : Range(wire[t]) \subseteq Frame
  BY OnWire
<1>6. FrameInv'
  BY <1>4, <1>5 DEF Inv, FrameInv
<1> QED BY <1>1, <1>2, <1>3, <1>6 DEF Inv, OrderInv

-----------------------------------------------------------------------------
(* Writers *)

\* What a writer's step does to its own stream, in four numbers and states.
LEMMA WriterStep ==
    ASSUME Inv, NEW s \in Side, NEW c \in Conn, Drains(s, c) \/ WriterEnds(s, c)
    PROVE  Rest'
<1> DEFINE w == writer'[s][c]
<1>0. Receives(s, c) \/ Writes(s, c) \/ WriteFails(s, c) \/ Drained(s, c) \/ WriterEnds(s, c)
  BY DEF Drains
<1>1. UNCHANGED <<linkVars, wire, pump, sent>> /\ writer[s][c] \notin {"none", "done"}
  BY <1>0 DEF Receives, Writes, WriteFails, Drained, WriterEnds, dataVars
<1>2. \A t \in Side, d \in Conn : ~(t = s /\ d = c) =>
            /\ writer'[t][d] = writer[t][d] /\ chan'[t][d] = chan[t][d] /\ got'[t][d] = got[t][d]
            /\ (d \in mapped'[t] <=> d \in mapped[t])
  <2>1. \A t \in Side, d \in Conn : ~(t = s /\ d = c) =>
            writer'[t][d] = writer[t][d] /\ chan'[t][d] = chan[t][d] /\ got'[t][d] = got[t][d]
    <3>1. CASE Receives(s, c)
      BY <3>1 DEF Inv, TypeOK, Receives, dataVars
    <3>2. CASE Writes(s, c)
      BY <3>2 DEF Inv, TypeOK, Writes
    <3>3. CASE WriteFails(s, c)
      BY <3>3 DEF Inv, TypeOK, WriteFails
    <3>4. CASE Drained(s, c)
      BY <3>4 DEF Inv, TypeOK, Drained, dataVars
    <3>5. CASE WriterEnds(s, c)
      BY <3>5 DEF Inv, TypeOK, WriterEnds
    <3> QED BY <1>0, <3>1, <3>2, <3>3, <3>4, <3>5
  <2>2. mapped' = mapped \/ mapped' = Removed(s, c)
    BY <1>0 DEF Receives, Writes, WriteFails, Drained, WriterEnds
  <2>3. c \in Accepted
    BY <1>1 DEF Inv, StageInv
  <2>4. \A t \in Side, d \in Conn : ~(t = s /\ d = c) => (d \in mapped'[t] <=> d \in mapped[t])
    <3>1. Removed(s, c) = [mapped EXCEPT ![s] = @ \ {c}]
      BY <2>3, Own
    <3> QED BY <2>2, <3>1 DEF Inv, TypeOK
  <2> QED BY <2>1, <2>4
<1>3. c \in Accepted /\ pump[s][c] # "none" /\ sent[Peer(s)][c] \in Nat
      /\ Delivered(s, c) \in Nat /\ Queued(s, c) \in Nat
  BY <1>1, Typed DEF Inv, StageInv
<1>4. \/ /\ writer[s][c] \in {"draining", "writing"} /\ w \in {"draining", "writing"}
         /\ w = "writing" => chan'[s][c] # <<>>
         /\ Base(s, c)' = Base(s, c) /\ (c \in mapped'[s] <=> c \in mapped[s])
         /\ Delivered(s, c)' \in Nat /\ Delivered(s, c)' <= Base(s, c)
         /\ got[s][c] # <<>> => got'[s][c] # <<>>
         /\ \A k \in DOMAIN chan'[s][c] : chan'[s][c][k] = <<c, Delivered(s, c)' + k>>
      \/ /\ w \in {"broken", "drained", "done"} /\ got'[s][c] = got[s][c]
         /\ Delivered(s, c)' = Delivered(s, c) /\ (c \in mapped'[s] => w = "broken")
         /\ w = "drained" =>
               writer[s][c] = "draining" /\ c \notin mapped[s] /\ Queued(s, c) = 0
  <2>1. CASE Receives(s, c)
    <3>1. w = "writing" /\ UNCHANGED <<mapped, chan, got>> /\ writer[s][c] = "draining"
          /\ chan[s][c] # <<>>
      BY <2>1 DEF Receives, Inv, TypeOK, dataVars
    <3>2. Delivered(s, c)' = Delivered(s, c) /\ Queued(s, c)' = Queued(s, c)
      BY <3>1 DEF Delivered, Queued
    <3>3. Base(s, c)' = Base(s, c) /\ Delivered(s, c) <= Base(s, c)
      BY <1>3, <3>2 DEF Base
    <3> QED BY <1>3, <3>1, <3>2, <3>3 DEF Inv, ChanInv
  <2>2. CASE Writes(s, c)
    <3>1. /\ writer[s][c] = "writing" /\ w = "draining" /\ mapped' = mapped
          /\ got'[s][c] = Append(got[s][c], Head(chan[s][c])) /\ chan'[s][c] = Tail(chan[s][c])
      BY <2>2 DEF Writes, Inv, TypeOK
    <3>2. /\ got[s][c] \in Seq(Chunk) /\ chan[s][c] \in Seq(Chunk) /\ chan[s][c] # <<>>
      BY <3>1, Typed DEF Inv, ChanInv
    <3>3. /\ Delivered(s, c)' = Delivered(s, c) + 1 /\ Queued(s, c)' = Queued(s, c) - 1
          /\ Queued(s, c) \in Nat \ {0} /\ DOMAIN chan'[s][c] = 1 .. Queued(s, c) - 1
          /\ \A k \in 1 .. Queued(s, c) - 1 : chan'[s][c][k] = chan[s][c][k + 1]
          /\ DOMAIN chan[s][c] = 1 .. Queued(s, c) /\ got'[s][c] # <<>>
      <4>1. /\ Len(got'[s][c]) = Len(got[s][c]) + 1 /\ got'[s][c] # <<>>
        <5>1. Head(chan[s][c]) \in Chunk
          BY <3>2, TailOf
        <5> QED BY <3>1, <3>2, <5>1, AppendOf
      <4>2. /\ Len(chan'[s][c]) = Len(chan[s][c]) - 1 /\ Len(chan[s][c]) \in Nat \ {0}
            /\ DOMAIN chan'[s][c] = 1 .. Len(chan[s][c]) - 1
            /\ \A k \in 1 .. Len(chan[s][c]) - 1 : chan'[s][c][k] = chan[s][c][k + 1]
            /\ DOMAIN chan[s][c] = 1 .. Len(chan[s][c])
        BY <3>1, <3>2, TailOf
      <4> QED BY <4>1, <4>2 DEF Delivered, Queued
    <3>4. Base(s, c)' = Base(s, c) /\ Delivered(s, c)' \in Nat /\ Delivered(s, c)' <= Base(s, c)
      <4>1. Base(s, c)' = Delivered(s, c)' + Queued(s, c)'
        BY DEF Base
      <4>2. Base(s, c) = Delivered(s, c) + Queued(s, c)
        BY DEF Base
      <4> QED BY <1>3, <3>3, <4>1, <4>2
    <3>5. ASSUME NEW k \in DOMAIN chan'[s][c] PROVE chan'[s][c][k] = <<c, Delivered(s, c)' + k>>
      <4>1. k \in 1 .. Queued(s, c) - 1 /\ k + 1 \in DOMAIN chan[s][c]
        BY <3>3, <3>5
      <4>2. chan[s][c][k + 1] = <<c, Delivered(s, c) + (k + 1)>>
        BY <3>1, <4>1 DEF Inv, ChanInv
      <4>3. Delivered(s, c) + (k + 1) = Delivered(s, c)' + k
        BY <1>3, <3>3, <4>1
      <4> QED BY <3>3, <4>1, <4>2, <4>3
    <3> QED BY <3>1, <3>3, <3>4, <3>5
  <2>3. CASE WriteFails(s, c)
    <3>1. w = "broken" /\ got' = got
      BY <2>3 DEF WriteFails, Inv, TypeOK
    <3> QED BY <3>1 DEF Delivered
  <2>4. CASE Drained(s, c)
    <3>1. w = "drained" /\ got' = got /\ mapped' = mapped /\ c \notin mapped[s]
          /\ writer[s][c] = "draining" /\ chan[s][c] = <<>>
      BY <2>4 DEF Drained, Inv, TypeOK, dataVars
    <3> QED BY <3>1 DEF Delivered, Queued
  <2>5. CASE WriterEnds(s, c)
    <3>1. w = "done" /\ got' = got /\ c \notin mapped'[s]
      BY <1>3, <2>5, Own DEF WriterEnds, Inv, TypeOK
    <3> QED BY <3>1 DEF Delivered
  <2> QED BY <2>1, <2>2, <2>3, <2>4, <2>5, <1>0
<1>5. /\ Accepted' = Accepted /\ IdInv' /\ FrameInv' /\ OrderInv'
      /\ \A t \in Side, d \in Conn : Finished(t, d)' <=> Finished(t, d)
      /\ \A d : Opens(wire["host"], d)' <=> Opens(wire["host"], d)
  BY <1>1, Quiet
<1>6. w # "none" /\ pump' = pump /\ wire' = wire /\ sent' = sent /\ opening' = opening
  BY <1>1, <1>4 DEF linkVars
<1> HIDE DEF w
<1>7. ASSUME NEW t \in Side, NEW d \in Conn, ~(t = s /\ d = c)
      PROVE  /\ writer'[t][d] = writer[t][d] /\ chan'[t][d] = chan[t][d] /\ got'[t][d] = got[t][d]
             /\ (d \in mapped'[t] <=> d \in mapped[t]) /\ Base(t, d)' = Base(t, d)
             /\ Delivered(t, d)' = Delivered(t, d)
             /\ (Fed(t, d)' <=> Fed(t, d))
  BY <1>2, <1>5, <1>6, <1>7 DEF Base, Delivered, Queued, Fed
<1>8. StageInv'
  <2>1. ASSUME NEW t \in Side, NEW d \in Conn
        PROVE  /\ writer'[t][d] = "none" <=> pump'[t][d] = "none"
               /\ pump'[t][d] = "none" => sent'[t][d] = 0 /\ got'[t][d] = <<>> /\ chan'[t][d] = <<>>
               /\ pump'[t][d] # "none" => d \in Accepted'
               /\ d \in mapped'[t] => writer'[t][d] \in {"draining", "writing", "broken"}
    <3>1. CASE t = s /\ d = c
      BY <1>3, <1>4, <1>5, <1>6, <3>1 DEF w
    <3>2. CASE ~(t = s /\ d = c)
      BY <1>5, <1>6, <1>7, <3>2 DEF Inv, StageInv
    <3> QED BY <3>1, <3>2
  <2> QED BY <1>6, <2>1 DEF Inv, StageInv
<1>9. ChanInv'
  <2>1. ASSUME NEW t \in Side, NEW d \in Conn
        PROVE  /\ Delivered(t, d)' <= sent'[Peer(t)][d]
               /\ t = "host" /\ sent'[t][d] # 0 => got'[t][d] # <<>>
               /\ writer'[t][d] = "writing" => chan'[t][d] # <<>>
               /\ writer'[t][d] \in {"draining", "writing"} =>
                     /\ Base(t, d)' <= sent'[Peer(t)][d]
                     /\ \A k \in DOMAIN chan'[t][d] : chan'[t][d][k] = <<d, Delivered(t, d)' + k>>
    <3>1. CASE t = s /\ d = c
      <4>1. writer[s][c] \in {"draining", "writing"} => Base(s, c) <= sent[Peer(s)][c]
        BY DEF Inv, ChanInv
      <4>2. Base(s, c) \in Nat
        BY Typed DEF Inv
      <4>3. Delivered(s, c) <= sent[Peer(s)][c] /\ (s = "host" /\ sent[s][c] # 0 => got[s][c] # <<>>)
        BY DEF Inv, ChanInv
      <4> QED BY <1>3, <1>4, <1>6, <3>1, <4>1, <4>2, <4>3 DEF w
    <3>2. CASE ~(t = s /\ d = c)
      BY <1>6, <1>7, <3>2 DEF Inv, ChanInv
    <3> QED BY <3>1, <3>2
  <2> QED BY <2>1 DEF ChanInv
<1>10. FedInv'
  <2>1. ASSUME NEW t \in Side, NEW d \in Conn, Fed(t, d)'
        PROVE  Continues(wire'[t], d, Base(t, d)', sent'[Peer(t)][d])
    <3>1. CASE t = s /\ d = c
      <4>1. \A f \in Range(wire["host"]) : f.kind = "OPEN" => pump["host"][f.conn] = "none"
        BY DEF Inv, FrameInv, FrameOK, Side
      <4>2. ~(s = "host" /\ Opens(wire["host"], c)) /\ ~(s = "client" /\ pump["client"][c] = "none")
        BY <1>3, <4>1 DEF Opens
      <4>3. c \in mapped'[s] /\ writer'[s][c] \in {"draining", "writing"}
        BY <1>5, <1>6, <2>1, <3>1, <4>2 DEF Fed
      <4>4. Fed(s, c) /\ Base(s, c)' = Base(s, c)
        BY <1>4, <4>3 DEF Fed, w
      <4> QED BY <1>6, <3>1, <4>4 DEF Inv, FedInv
    <3>2. CASE ~(t = s /\ d = c)
      BY <1>6, <1>7, <2>1, <3>2 DEF Inv, FedInv
    <3> QED BY <3>1, <3>2
  <2> QED BY <2>1 DEF FedInv
<1>11. DoneInv'
  <2>1. ASSUME NEW t \in Side, NEW d \in Conn, pump'[t][d] = "reading"
        PROVE  /\ writer'[t][d] \in {"draining", "writing"} /\ d \notin mapped'[t] =>
                     Base(t, d)' = sent'[Peer(t)][d] /\ Finished(Peer(t), d)'
               /\ writer'[t][d] = "drained" =>
                     Delivered(t, d)' = sent'[Peer(t)][d] /\ Finished(Peer(t), d)'
    <3>0. Peer(t) \in Side /\ (Finished(Peer(t), d)' <=> Finished(Peer(t), d))
      BY <1>5, Peers
    <3>1. CASE t = s /\ d = c
      <4>1. writer[s][c] \in {"draining", "writing"} /\ c \notin mapped[s] =>
                Base(s, c) = sent[Peer(s)][c] /\ Finished(Peer(s), c)
        BY <1>6, <2>1, <3>1 DEF Inv, DoneInv
      <4>2. Queued(s, c) = 0 => Base(s, c) = Delivered(s, c)
        BY <1>3 DEF Base
      <4> QED BY <1>4, <1>6, <3>0, <3>1, <4>1, <4>2 DEF w
    <3>2. CASE ~(t = s /\ d = c)
      BY <1>6, <1>7, <2>1, <3>0, <3>2 DEF Inv, DoneInv
    <3> QED BY <3>1, <3>2
  <2> QED BY <2>1 DEF DoneInv
<1> QED BY <1>5, <1>8, <1>9, <1>10, <1>11 DEF Rest

LEMMA WaitStep == ASSUME Inv, NEW s \in Side, DataWaits(s) PROVE Rest'
<1>1. UNCHANGED <<linkVars, mapped, wire, pump, writer, dataVars>>
  BY DEF DataWaits
<1>2. /\ Accepted' = Accepted /\ IdInv' /\ FrameInv' /\ OrderInv'
      /\ \A t \in Side, d \in Conn : Finished(t, d)' <=> Finished(t, d)
      /\ \A d : Opens(wire["host"], d)' <=> Opens(wire["host"], d)
  BY <1>1, Quiet DEF dataVars
<1>3. StageInv'
  BY <1>1, <1>2 DEF Inv, StageInv, dataVars, linkVars
<1>6. ChanInv'
  BY <1>1 DEF Inv, ChanInv, Base, Delivered, Queued, dataVars
<1>4. FedInv'
  BY <1>1, <1>2 DEF Inv, FedInv, Fed, Base, Delivered, Queued, dataVars
<1>5. DoneInv'
  BY <1>1, <1>2, Peers DEF Inv, DoneInv, Base, Delivered, Queued, dataVars
<1> QED BY <1>2, <1>3, <1>4, <1>5, <1>6 DEF Rest

-----------------------------------------------------------------------------
(* Pumps *)

LEMMA Sides == \A s, t \in Side : t = s \/ t = Peer(s)
  BY DEF Side, Peer

\* What a step must keep for the frames of a wire to stay right.
Grows ==
    /\ Accepted \subseteq Accepted'
    /\ \A t \in Side, c \in Conn : sent[t][c] <= sent'[t][c] /\ sent'[t][c] \in Nat
    /\ \A t \in Side, c \in Accepted : Finished(t, c) => Finished(t, c)'

WireOK(s) == Ordered(wire[s]) /\ \A f \in Range(wire[s]) : FrameOK(s, f)

LEMMA WireInv == FrameInv /\ OrderInv <=> \A s \in Side : WireOK(s)
  BY DEF FrameInv, OrderInv, WireOK

LEMMA WireSame ==
    ASSUME Inv, Grows, NEW s \in Side, wire'[s] = wire[s],
           \A f \in Range(wire[s]) : f.kind = "OPEN" => pump'["host"][f.conn] = "none"
    PROVE  WireOK(s)'
<1>1. \A f \in Range(wire[s]) : FrameOK(s, f)'
  BY FrameKept DEF Grows
<1> QED BY <1>1 DEF WireOK, Inv, OrderInv

LEMMA WireTail ==
    ASSUME Inv, Grows, NEW s \in Side, wire[s] # <<>>, wire'[s] = Tail(wire[s]),
           \A f \in Range(Tail(wire[s])) : f.kind = "OPEN" => pump'["host"][f.conn] = "none"
    PROVE  WireOK(s)'
<1>1. wire[s] \in Seq(Frame) /\ Ordered(wire[s])
  BY DEF Inv, TypeOK, OrderInv
<1>2. Range(Tail(wire[s])) \subseteq Range(wire[s]) /\ Ordered(Tail(wire[s]))
  BY <1>1, RangeTail, OrderedTail
<1>3. \A f \in Range(Tail(wire[s])) : FrameOK(s, f)'
  BY <1>2, FrameKept DEF Grows
<1> QED BY <1>2, <1>3 DEF WireOK

LEMMA WireAppend ==
    ASSUME Inv, Grows, NEW s \in Side, NEW x \in Frame, wire'[s] = Append(wire[s], x),
           \A f \in Range(wire[s]) : f.kind = "OPEN" => pump'["host"][f.conn] = "none",
           FrameOK(s, x)',
           \A f \in Range(wire[s]) : f.conn = x.conn =>
               /\ x.kind # "OPEN"
               /\ x.kind = "DATA" => f.kind \in {"OPEN", "DATA"}
               /\ x.kind = "DATA" /\ f.kind = "DATA" => f.chunk[2] < x.chunk[2]
    PROVE  WireOK(s)'
<1>1. wire[s] \in Seq(Frame) /\ Ordered(wire[s])
  BY DEF Inv, TypeOK, OrderInv
<1>2. Range(Append(wire[s], x)) = Range(wire[s]) \cup {x}
  BY <1>1, RangeAppend
<1>3. Ordered(Append(wire[s], x))
  BY <1>1, OrderedAppend
<1>4. \A f \in Range(wire[s]) : FrameOK(s, f)'
  BY FrameKept DEF Grows
<1> QED BY <1>2, <1>3, <1>4 DEF WireOK

\* No OPEN is on the wire for a stream whose pump at the host has started.
LEMMA OpenFirst ==
    ASSUME Inv
    PROVE  \A s \in Side : \A f \in Range(wire[s]) :
              f.kind = "OPEN" => pump["host"][f.conn] = "none"
  BY DEF Inv, FrameInv, FrameOK

LEMMA OpensAppend ==
    ASSUME Inv, NEW s \in Side, NEW x \in Frame, x.kind # "OPEN",
           wire' = [wire EXCEPT ![s] = Append(@, x)]
    PROVE  \A d : Opens(wire["host"], d)' <=> Opens(wire["host"], d)
<1>1. wire["host"] \in Seq(Frame) /\ "host" \in Side
  BY DEF Inv, TypeOK, Side
<1>2. Range(Append(wire["host"], x)) = Range(wire["host"]) \cup {x}
  BY <1>1, RangeAppend
<1>3. wire'["host"] = wire["host"] \/ wire'["host"] = Append(wire["host"], x)
  BY <1>1 DEF Inv, TypeOK
<1> QED BY <1>2, <1>3 DEF Opens

LEMMA SendStep == ASSUME Inv, NEW s \in Side, NEW c \in Conn, Sends(s, c) PROVE Rest'
<1> DEFINE t0 == Peer(s)
<1>0. PICK x \in Frame : x = DataFrame(c, sent[s][c] + 1)
  <2>1. sent[s][c] + 1 \in Nat /\ sent[s][c] + 1 # 0
    BY DEF Inv, TypeOK
  <2> QED BY <2>1, FrameTypes
<1>1. pump[s][c] = "reading" /\ c \in Accepted
  BY DEF Sends, Inv, StageInv
<1>2. Linked(s, c)
  BY <1>1, Own
<1>3. /\ sent' = [sent EXCEPT ![s][c] = @ + 1] /\ wire' = [wire EXCEPT ![t0] = Append(@, x)]
      /\ UNCHANGED <<linkVars, mapped, pump, held, writer, chan, got>>
      /\ s = "host" => got[s][c] # <<>>
  BY <1>0, <1>2 DEF Sends, MaySend
<1>4. /\ t0 \in Side /\ t0 # s /\ Peer(t0) = s /\ \A t \in Side : t = s \/ t = t0
  BY Peers, Sides
<1>5. /\ \A t \in Side, d \in Conn : sent[t][d] \in Nat
      /\ \A t \in Side, d \in Conn : sent'[t][d] = IF t = s /\ d = c THEN sent[s][c] + 1 ELSE sent[t][d]
  BY <1>3 DEF Inv, TypeOK
<1>6. wire'[s] = wire[s] /\ wire'[t0] = Append(wire[t0], x) /\ wire[t0] \in Seq(Frame)
  BY <1>3, <1>4 DEF Inv, TypeOK
<1>7. x \in Frame /\ x.kind = "DATA" /\ x.conn = c /\ x.chunk = <<c, sent[s][c] + 1>>
      /\ x.chunk[1] = c /\ x.chunk[2] = sent[s][c] + 1
  BY <1>0, <1>5, FrameTypes
<1>8. Accepted' = Accepted /\ IdInv'
  BY <1>3, AcceptedKept
<1>9. \A d : Opens(wire["host"], d)' <=> Opens(wire["host"], d)
  BY <1>3, <1>4, <1>7, OpensAppend
<1>10. \A t \in Side, d \in Conn : Finished(t, d)' <=> Finished(t, d)
  BY <1>3, <1>8, <1>9 DEF Finished
<1> HIDE DEF t0
<1>11. Grows
  BY <1>5, <1>8, <1>10 DEF Grows, Accepted
<1>12. \A t \in Side : \A f \in Range(wire[t]) : f.kind = "OPEN" => pump'["host"][f.conn] = "none"
  BY <1>3, OpenFirst
<1>13. WireOK(s)' /\ WireOK(t0)'
  <2>1. WireOK(s)'
    BY <1>6, <1>11, <1>12, WireSame
  <2>2. FrameOK(t0, x)'
    BY <1>1, <1>4, <1>5, <1>7, <1>8 DEF FrameOK
  <2>3. ASSUME NEW f \in Range(wire[t0]), f.conn = x.conn
        PROVE  f.kind \in {"OPEN", "DATA"} /\ (f.kind = "DATA" => f.chunk[2] < x.chunk[2])
    <3>1. f \in Frame /\ FrameOK(t0, f)
      BY <1>4, <1>6 DEF Inv, FrameInv, Range
    <3>2. ~Finished(s, c)
      BY <1>1 DEF Finished
    <3>3. f.kind \in {"OPEN", "DATA"}
      BY <1>4, <1>7, <2>3, <3>1, <3>2, FrameTypes DEF FrameOK
    <3>4. f.kind = "DATA" => f.chunk[2] \in Nat /\ f.chunk[2] <= sent[s][c]
      BY <1>4, <1>7, <2>3, <3>1, FrameTypes DEF FrameOK
    <3> QED BY <1>5, <1>7, <3>3, <3>4
  <2>4. WireOK(t0)'
    BY <1>4, <1>6, <1>7, <1>11, <1>12, <2>2, <2>3, WireAppend
  <2> QED BY <2>1, <2>4
<1>14. FrameInv' /\ OrderInv'
  BY <1>4, <1>13 DEF WireOK, FrameInv, OrderInv
<1>15. StageInv'
  BY <1>1, <1>3, <1>5, <1>8 DEF Inv, StageInv, linkVars
<1>16. \A t \in Side, d \in Conn :
          Base(t, d)' = Base(t, d) /\ Delivered(t, d)' = Delivered(t, d) /\ Base(t, d) \in Nat
          /\ Delivered(t, d) \in Nat
  BY <1>3, Typed DEF Base, Delivered, Queued, Inv
<1>17. ChanInv'
  <2>1. \A t \in Side, d \in Conn : sent[Peer(t)][d] <= sent'[Peer(t)][d] /\ sent[Peer(t)][d] \in Nat
                                   /\ sent'[Peer(t)][d] \in Nat
    BY <1>5, Peers
  <2>2. \A t \in Side, d \in Conn : t = "host" /\ sent'[t][d] # 0 => got[t][d] # <<>>
    BY <1>3, <1>5 DEF Inv, ChanInv
  <2> QED BY <1>3, <1>16, <2>1, <2>2 DEF Inv, ChanInv
<1>18. FedInv'
  <2>1. ASSUME NEW t \in Side, NEW d \in Conn, Fed(t, d)'
        PROVE  Continues(wire'[t], d, Base(t, d)', sent'[Peer(t)][d])
    <3>1. Continues(wire[t], d, Base(t, d), sent[Peer(t)][d])
      BY <1>3, <1>9, <2>1 DEF Inv, FedInv, Fed
    <3>2. CASE t = s
      BY <1>4, <1>5, <1>6, <1>16, <3>1, <3>2 DEF t0
    <3>3. CASE t = t0 /\ d # c
      <4>1. Continues(Append(wire[t0], x), d, Base(t0, d), sent[s][d])
        BY <1>4, <1>6, <1>7, <3>1, <3>3, ContinuesAppend
      <4> QED BY <1>4, <1>5, <1>6, <1>16, <3>3, <4>1
    <3>4. CASE t = t0 /\ d = c
      <4>1. Continues(Append(wire[t0], x), c, Base(t0, c), sent[s][c] + 1)
        BY <1>4, <1>5, <1>6, <1>7, <1>16, <3>1, <3>4, ContinuesSend
      <4> QED BY <1>4, <1>5, <1>6, <1>16, <3>4, <4>1
    <3> QED BY <1>4, <3>2, <3>3, <3>4
  <2> QED BY <2>1 DEF FedInv
<1>19. DoneInv'
  <2>1. ~Finished(s, c)
    BY <1>1 DEF Finished
  <2>2. \A t \in Side, d \in Conn : Finished(Peer(t), d) =>
            Finished(Peer(t), d)' /\ sent'[Peer(t)][d] = sent[Peer(t)][d]
    BY <1>5, <1>10, <2>1, Peers
  <2> QED BY <1>3, <1>16, <2>2 DEF Inv, DoneInv
<1> QED BY <1>8, <1>14, <1>15, <1>17, <1>18, <1>19 DEF Rest

\* A pump that goes on to "closing" or "done": what all its properties but those of
\* the wires need.
LEMMA PumpMoves ==
    ASSUME Inv, NEW s \in Side, NEW c \in Conn, NEW stage \in {"closing", "done"},
           pump[s][c] \in {"reading", "closing"}, pump' = [pump EXCEPT ![s][c] = stage],
           mapped' = mapped \/ (mapped' = Removed(s, c)),
           UNCHANGED <<linkVars, writer, dataVars>>,
           \A d : Opens(wire["host"], d)' <=> Opens(wire["host"], d)
    PROVE  /\ Grows /\ IdInv' /\ StageInv' /\ ChanInv' /\ DoneInv'
           /\ \A t \in Side, d \in Conn : (Fed(t, d)' => Fed(t, d)) /\ Base(t, d)' = Base(t, d)
           /\ \A t \in Side : \A f \in Range(wire[t]) :
                 f.kind = "OPEN" => pump'["host"][f.conn] = "none"
           /\ Finished(s, c)' /\ c \in Accepted /\ Accepted' = Accepted /\ sent' = sent
<1>1. c \in Accepted /\ sent' = sent /\ chan' = chan /\ got' = got /\ writer' = writer
      /\ opening' = opening
  BY DEF Inv, StageInv, dataVars, linkVars
<1>2. \A t \in Side, d \in Conn : pump'[t][d] = IF t = s /\ d = c THEN stage ELSE pump[t][d]
  BY DEF Inv, TypeOK
<1>3. Accepted' = Accepted /\ IdInv'
  BY <1>2, AcceptedKept, Sides DEF Side
<1>4. \A t \in Side, d \in Conn :
         (d \in mapped'[t] => d \in mapped[t]) /\ (~(t = s /\ d = c) /\ d \in mapped[t] => d \in mapped'[t])
  <2>1. Removed(s, c) = [mapped EXCEPT ![s] = @ \ {c}]
    BY <1>1, Own
  <2> QED BY <2>1 DEF Inv, TypeOK
<1>5. \A t \in Side, d \in Conn : Finished(t, d) => Finished(t, d)'
  BY <1>2, <1>3 DEF Finished, Side
<1>6. Grows
  <2>1. \A t \in Side, d \in Conn : sent[t][d] <= sent'[t][d] /\ sent'[t][d] \in Nat
    BY <1>1 DEF Inv, TypeOK
  <2>2. Accepted \subseteq Conn
    BY DEF Accepted
  <2> QED BY <1>3, <1>5, <2>1, <2>2 DEF Grows
<1>7. StageInv'
  BY <1>1, <1>2, <1>3, <1>4 DEF Inv, StageInv
<1>8. \A t \in Side, d \in Conn : Base(t, d)' = Base(t, d) /\ Delivered(t, d)' = Delivered(t, d)
  BY <1>1 DEF Base, Delivered, Queued
<1>9. ChanInv'
  BY <1>1, <1>8 DEF Inv, ChanInv
<1>10. \A t \in Side, d \in Conn : Fed(t, d)' => Fed(t, d)
  BY <1>1, <1>2, <1>4 DEF Fed, Side
<1>11. DoneInv'
  <2>1. ASSUME NEW t \in Side, NEW d \in Conn, pump'[t][d] = "reading"
        PROVE  /\ pump[t][d] = "reading" /\ (d \in mapped'[t] <=> d \in mapped[t])
               /\ (Finished(Peer(t), d) => Finished(Peer(t), d)')
    BY <1>2, <1>4, <1>5, <2>1, Peers
  <2> QED BY <1>1, <1>8, <2>1 DEF Inv, DoneInv
<1>12. \A t \in Side : \A f \in Range(wire[t]) : f.kind = "OPEN" => pump'["host"][f.conn] = "none"
  <2>1. \A t \in Side : \A f \in Range(wire[t]) : f.conn \in Conn
    BY OnWire
  <2> QED BY <1>2, <2>1, OpenFirst DEF Side
<1>13. Finished(s, c)'
  BY <1>2 DEF Finished
<1> QED BY <1>1, <1>3, <1>6, <1>7, <1>8, <1>9, <1>10, <1>11, <1>12, <1>13

LEMMA EndStep == ASSUME Inv, NEW s \in Side, NEW c \in Conn, Ends(s, c) PROVE Rest'
<1> DEFINE t0 == Peer(s)
<1>0. PICK x \in Frame : x = CloseFrame(c)
  BY FrameTypes
<1>1. c \in Accepted /\ x.kind = "CLOSE" /\ x.conn = c
  BY <1>0, FrameTypes DEF Ends, Inv, StageInv
<1>2. Linked(s, c)
  BY <1>1, Own
<1>3. /\ pump[s][c] = "reading" /\ pump' = [pump EXCEPT ![s][c] = "closing"]
      /\ wire' = [wire EXCEPT ![t0] = Append(@, x)]
      /\ UNCHANGED <<linkVars, mapped, writer, dataVars>>
  BY <1>0, <1>2 DEF Ends
<1>4. /\ t0 \in Side /\ t0 # s /\ Peer(t0) = s /\ \A t \in Side : t = s \/ t = t0
  BY Peers, Sides
<1>5. wire'[s] = wire[s] /\ wire'[t0] = Append(wire[t0], x) /\ wire[t0] \in Seq(Frame)
  BY <1>3, <1>4 DEF Inv, TypeOK
<1>6. \A d : Opens(wire["host"], d)' <=> Opens(wire["host"], d)
  BY <1>1, <1>3, <1>4, OpensAppend
<1>7. mapped' = mapped
  BY <1>3
<1> HIDE DEF t0
<1>8. /\ Grows /\ IdInv' /\ StageInv' /\ ChanInv' /\ DoneInv'
      /\ \A t \in Side, d \in Conn : (Fed(t, d)' => Fed(t, d)) /\ Base(t, d)' = Base(t, d)
      /\ \A t \in Side : \A f \in Range(wire[t]) :
            f.kind = "OPEN" => pump'["host"][f.conn] = "none"
      /\ Finished(s, c)' /\ Accepted' = Accepted /\ sent' = sent
  BY <1>3, <1>6, <1>7, PumpMoves
<1>9. FrameOK(t0, x)'
  BY <1>1, <1>4, <1>8 DEF FrameOK
<1>10. WireOK(s)' /\ WireOK(t0)'
  BY <1>1, <1>4, <1>5, <1>8, <1>9, WireSame, WireAppend
<1>11. FrameInv' /\ OrderInv'
  BY <1>4, <1>10 DEF WireOK, FrameInv, OrderInv
<1>12. FedInv'
  <2>1. ASSUME NEW t \in Side, NEW d \in Conn, Fed(t, d)'
        PROVE  Continues(wire'[t], d, Base(t, d)', sent'[Peer(t)][d])
    <3>1. Continues(wire[t], d, Base(t, d), sent[Peer(t)][d])
      BY <1>8, <2>1 DEF Inv, FedInv
    <3>2. Continues(Append(wire[t], x), d, Base(t, d), sent[Peer(t)][d])
      <4>1. wire[t] \in Seq(Frame)
        BY DEF Inv, TypeOK
      <4> QED BY <1>1, <3>1, <4>1, ContinuesAppend
    <3> QED BY <1>4, <1>5, <1>8, <3>1, <3>2
  <2> QED BY <2>1 DEF FedInv
<1> QED BY <1>8, <1>11, <1>12 DEF Rest

LEMMA PumpEndStep == ASSUME Inv, NEW s \in Side, NEW c \in Conn, PumpEnds(s, c) PROVE Rest'
<1>1. /\ pump[s][c] = "closing" /\ pump' = [pump EXCEPT ![s][c] = "done"]
      /\ mapped' = Removed(s, c) /\ wire' = wire
      /\ UNCHANGED <<linkVars, writer, dataVars>>
  BY DEF PumpEnds
<1>2. \A d : Opens(wire["host"], d)' <=> Opens(wire["host"], d)
  BY <1>1 DEF Opens
<1>3. /\ Grows /\ IdInv' /\ StageInv' /\ ChanInv' /\ DoneInv'
      /\ \A t \in Side, d \in Conn : (Fed(t, d)' => Fed(t, d)) /\ Base(t, d)' = Base(t, d)
      /\ \A t \in Side : \A f \in Range(wire[t]) :
            f.kind = "OPEN" => pump'["host"][f.conn] = "none"
      /\ sent' = sent
  BY <1>1, <1>2, PumpMoves
<1>4. \A t \in Side : WireOK(t)'
  BY <1>1, <1>3, WireSame
<1>5. FrameInv' /\ OrderInv'
  BY <1>4 DEF WireOK, FrameInv, OrderInv
<1>6. FedInv'
  BY <1>1, <1>3 DEF Inv, FedInv
<1> QED BY <1>3, <1>5, <1>6 DEF Rest

-----------------------------------------------------------------------------
(* Reader loops *)

\* The frame at the head: what comes after it of the same connection.
LEMMA AfterHead ==
    ASSUME Inv, NEW s \in Side, wire[s] # <<>>
    PROVE  LET h == Head(wire[s])
           IN  /\ h \in Frame /\ h \in Range(wire[s]) /\ FrameOK(s, h)
               /\ h.conn \in Accepted /\ h.conn \in Conn /\ h = wire[s][1]
               /\ \A f \in Range(Tail(wire[s])) :
                     /\ f \in Range(wire[s])
                     /\ f.conn = h.conn =>
                           f.kind # "OPEN" /\ (f.kind = "DATA" => h.kind \in {"OPEN", "DATA"})
               /\ \A d : Opens(Tail(wire[s]), d) => Opens(wire[s], d) /\ d # h.conn
               /\ \A d : Opens(wire[s], d) => Opens(Tail(wire[s]), d) \/ h.kind = "OPEN"
<1> DEFINE w == wire[s]
           h == Head(w)
<1>1. w \in Seq(Frame) /\ w # <<>> /\ Ordered(w)
  BY DEF Inv, TypeOK, OrderInv
<1>2. /\ h \in Frame /\ h \in Range(w) /\ h = w[1]
      /\ Range(Tail(w)) \subseteq Range(w) /\ Range(w) \subseteq Range(Tail(w)) \cup {h}
  BY <1>1, TailOf, RangeTail
<1>3. FrameOK(s, h) /\ h.conn \in Accepted /\ h.conn \in Conn
  BY <1>2, FrameTypes DEF Inv, FrameInv, FrameOK
<1>4. ASSUME NEW k \in DOMAIN Tail(w)
      PROVE  LET f == Tail(w)[k]
             IN  f.conn = h.conn =>
                    f.kind # "OPEN" /\ (f.kind = "DATA" => h.kind \in {"OPEN", "DATA"})
  <2>1. /\ k \in 1 .. Len(w) - 1 /\ Len(w) \in Nat /\ DOMAIN w = 1 .. Len(w)
        /\ Tail(w)[k] = w[k + 1]
    BY <1>1, <1>4, TailOf
  <2>2. k + 1 \in DOMAIN w /\ 1 \in 1 .. (k + 1) - 1
    BY <2>1
  <2> HIDE DEF w
  <2> QED BY <1>1, <1>2, <2>1, <2>2 DEF Ordered
<1>5. \A f \in Range(Tail(w)) : f.conn = h.conn =>
          f.kind # "OPEN" /\ (f.kind = "DATA" => h.kind \in {"OPEN", "DATA"})
  BY <1>4 DEF Range
<1> HIDE DEF w, h
<1>6. \A d : Opens(Tail(w), d) => Opens(w, d) /\ d # h.conn
  BY <1>2, <1>5 DEF Opens
<1>7. \A d : Opens(w, d) => Opens(Tail(w), d) \/ h.kind = "OPEN"
  BY <1>2 DEF Opens
<1> QED BY <1>2, <1>3, <1>5, <1>6, <1>7 DEF w, h

\* A frame that opens nothing is consumed.
LEMMA Consumed ==
    ASSUME Inv, NEW s \in Side, wire[s] # <<>>, Head(wire[s]).kind # "OPEN",
           wire' = [wire EXCEPT ![s] = Tail(@)], UNCHANGED <<linkVars, pump, sent>>
    PROVE  /\ Accepted' = Accepted /\ IdInv' /\ FrameInv' /\ OrderInv'
           /\ \A t \in Side, d \in Conn : Finished(t, d)' <=> Finished(t, d)
           /\ \A d : Opens(wire["host"], d)' <=> Opens(wire["host"], d)
           /\ \A t \in Side : t # s => wire'[t] = wire[t]
           /\ wire'[s] = Tail(wire[s])
<1>1. wire'[s] = Tail(wire[s]) /\ \A t \in Side : t # s => wire'[t] = wire[t]
  BY DEF Inv, TypeOK
<1>2. Accepted' = Accepted /\ IdInv' /\ pump' = pump /\ sent' = sent
  BY AcceptedKept
<1>3. \A d : Opens(wire["host"], d)' <=> Opens(wire["host"], d)
  <2>1. "host" \in Side
    BY DEF Side
  <2>2. CASE s = "host"
    <3>1. \A d : Opens(Tail(wire["host"]), d) <=> Opens(wire["host"], d)
      BY <2>2, AfterHead
    <3> QED BY <1>1, <2>2, <3>1 DEF Opens
  <2>3. CASE s # "host"
    BY <1>1, <2>1, <2>3 DEF Opens
  <2> QED BY <2>2, <2>3
<1>4. \A t \in Side, d \in Conn : Finished(t, d)' <=> Finished(t, d)
  BY <1>2, <1>3 DEF Finished
<1>5. Grows
  <2>1. \A t \in Side, d \in Conn : sent[t][d] <= sent'[t][d] /\ sent'[t][d] \in Nat
    BY <1>2 DEF Inv, TypeOK
  <2>2. Accepted \subseteq Conn
    BY DEF Accepted
  <2> QED BY <1>2, <1>4, <2>1, <2>2 DEF Grows
<1>6. \A t \in Side : \A f \in Range(wire[t]) : f.kind = "OPEN" => pump'["host"][f.conn] = "none"
  BY <1>2, OpenFirst
<1>7. WireOK(s)'
  <2>1. Range(Tail(wire[s])) \subseteq Range(wire[s])
    BY AfterHead
  <2> QED BY <1>1, <1>5, <1>6, <2>1, WireTail
<1>8. \A t \in Side : t # s => WireOK(t)'
  BY <1>1, <1>5, <1>6, WireSame
<1>9. FrameInv' /\ OrderInv'
  BY <1>7, <1>8 DEF WireOK, FrameInv, OrderInv
<1> QED BY <1>1, <1>2, <1>3, <1>4, <1>9

\* Data on the way to a stream that is fed is data of a stream that has started.
LEMMA DataOfStarted ==
    ASSUME Inv, NEW s \in Side, wire[s] # <<>>, Head(wire[s]).kind = "DATA"
    PROVE  LET h == Head(wire[s])
           IN  /\ h.chunk[2] \in Nat \ {0} /\ h.chunk = <<h.conn, h.chunk[2]>>
               /\ h.chunk[2] <= sent[Peer(s)][h.conn]
               /\ pump["client"][h.conn] # "none"
<1> DEFINE h == Head(wire[s])
           c == h.conn
<1>1. /\ h \in Frame /\ FrameOK(s, h) /\ c \in Conn
      /\ h.chunk[2] \in Nat \ {0} /\ h.chunk = <<h.chunk[1], h.chunk[2]>>
  BY AfterHead, FrameTypes
<1>2. h.chunk[1] = c /\ h.chunk[2] <= sent[Peer(s)][c]
  BY <1>1 DEF FrameOK
<1> HIDE DEF c, h
<1>3. /\ sent["client"][c] \in Nat /\ sent["host"][c] \in Nat /\ Delivered("host", c) \in Nat
      /\ "host" \in Side /\ "client" \in Side /\ Peer("host") = "client" /\ Peer("client") = "host"
      /\ got["host"][c] \in Seq(Chunk)
  BY <1>1, Typed DEF Side, Peer, Inv
<1>4. sent[Peer(s)][c] # 0
  <2>1. sent[Peer(s)][c] \in Nat
    BY <1>3, Sides
  <2> QED BY <1>1, <1>2, <2>1
<1>5. CASE s = "host"
  BY <1>1, <1>2, <1>3, <1>4, <1>5 DEF Inv, StageInv, h, c
<1>6. CASE s = "client"
  <2>1. got["host"][c] # <<>> /\ Delivered("host", c) <= sent["client"][c]
    BY <1>1, <1>3, <1>4, <1>6 DEF Inv, ChanInv
  <2>2. Delivered("host", c) # 0
    BY <1>3, <2>1 DEF Delivered
  <2>3. sent["client"][c] # 0
    BY <1>3, <2>1, <2>2
  <2> QED BY <1>1, <1>2, <1>3, <2>3 DEF Inv, StageInv, h, c
<1> QED BY <1>5, <1>6 DEF Side

LEMMA DropStep == ASSUME Inv, NEW s \in Side, DataDropped(s) PROVE Rest'
<1> DEFINE h == Head(wire[s])
<1>0. wire[s] # <<>>
  BY DEF DataDropped, Arrives
<1>. PICK c \in Conn : c = h.conn
  BY <1>0, AfterHead
<1>1. /\ wire[s] # <<>> /\ h.kind = "DATA" /\ wire' = [wire EXCEPT ![s] = Tail(@)]
      /\ UNCHANGED <<linkVars, mapped, pump, writer, dataVars>> /\ Lookup(s, c) = {}
  BY DEF DataDropped, Arrives, Consume
<1>2. /\ h \in Frame /\ c \in Accepted /\ c \in Conn /\ h = wire[s][1]
      /\ pump["client"][c] # "none" /\ \A d : Opens(Tail(wire[s]), d) => d # c
  BY <1>1, AfterHead, DataOfStarted
<1> HIDE DEF h
<1>3. c \notin mapped[s]
  BY <1>1, <1>2, Own
<1>4. /\ Accepted' = Accepted /\ IdInv' /\ FrameInv' /\ OrderInv'
      /\ \A t \in Side, d \in Conn : Finished(t, d)' <=> Finished(t, d)
      /\ \A d : Opens(wire["host"], d)' <=> Opens(wire["host"], d)
      /\ \A t \in Side : t # s => wire'[t] = wire[t]
      /\ wire'[s] = Tail(wire[s])
  BY <1>1, Consumed DEF dataVars, h
<1>5. StageInv'
  BY <1>1, <1>4 DEF Inv, StageInv, dataVars, linkVars
<1>6. \A t \in Side, d \in Conn : Base(t, d)' = Base(t, d) /\ Delivered(t, d)' = Delivered(t, d)
  BY <1>1 DEF Base, Delivered, Queued, dataVars
<1>7. ChanInv'
  BY <1>1, <1>6 DEF Inv, ChanInv, dataVars
<1>8. FedInv'
  <2>1. ASSUME NEW t \in Side, NEW d \in Conn, Fed(t, d)'
        PROVE  Continues(wire'[t], d, Base(t, d)', sent'[Peer(t)][d])
    <3>1. Continues(wire[t], d, Base(t, d), sent[Peer(t)][d]) /\ sent' = sent
      BY <1>1, <1>4, <2>1 DEF Inv, FedInv, Fed, dataVars
    <3>2. CASE t # s
      BY <1>4, <1>6, <3>1, <3>2
    <3>3. CASE t = s
      <4>1. d # c
        <5>1. ~(s = "host" /\ Opens(wire'["host"], c))
          BY <1>2, <1>4
        <5>2. Opens(wire["host"], c)' <=> Opens(wire'["host"], c)
          BY DEF Opens
        <5> QED BY <1>1, <1>2, <1>3, <2>1, <3>3, <5>1, <5>2 DEF Fed
      <4>2. ~DataOf(wire[s], d, 1)
        BY <1>2, <4>1 DEF DataOf, h
      <4>3. wire[s] \in Seq(Frame)
        BY DEF Inv, TypeOK
      <4>4. Continues(Tail(wire[s]), d, Base(t, d), sent[Peer(t)][d])
        BY <1>1, <3>1, <3>3, <4>2, <4>3, ContinuesTail
      <4> QED BY <1>4, <1>6, <3>1, <3>3, <4>4
    <3> QED BY <3>2, <3>3
  <2> QED BY <2>1 DEF FedInv
<1>9. DoneInv'
  BY <1>1, <1>4, <1>6, Peers DEF Inv, DoneInv, dataVars
<1> QED BY <1>4, <1>5, <1>7, <1>8, <1>9 DEF Rest

LEMMA CloseStep == ASSUME Inv, NEW s \in Side, CloseArrives(s) PROVE Rest'
<1> DEFINE h == Head(wire[s])
<1>0. wire[s] # <<>>
  BY DEF CloseArrives, Arrives
<1>. PICK c \in Conn : c = h.conn
  BY <1>0, AfterHead
<1>1. /\ wire[s] # <<>> /\ h.kind \in {"CLOSE", "ERROR"} /\ wire' = [wire EXCEPT ![s] = Tail(@)]
      /\ UNCHANGED <<linkVars, pump, writer, dataVars>>
      /\ mapped' = [mapped EXCEPT ![s] = @ \ Lookup(s, c)]
  BY DEF CloseArrives, Arrives, Consume
<1>2. /\ h \in Frame /\ c \in Accepted /\ c \in Conn /\ h = wire[s][1] /\ Finished(Peer(s), c)
      /\ \A f \in Range(Tail(wire[s])) : f.conn = c => f.kind # "DATA"
  BY <1>1, AfterHead DEF FrameOK
<1> HIDE DEF h
<1>3. \A t \in Side, d \in Conn : d \in mapped'[t] <=> d \in mapped[t] /\ ~(t = s /\ d = c)
  <2>1. mapped[s] \ Lookup(s, c) = mapped[s] \ {c}
    BY <1>2, Own
  <2>2. mapped' = [mapped EXCEPT ![s] = mapped[s] \ {c}]
    BY <1>1, <2>1
  <2> QED BY <2>2 DEF Inv, TypeOK
<1>4. /\ Accepted' = Accepted /\ IdInv' /\ FrameInv' /\ OrderInv'
      /\ \A t \in Side, d \in Conn : Finished(t, d)' <=> Finished(t, d)
      /\ \A d : Opens(wire["host"], d)' <=> Opens(wire["host"], d)
      /\ \A t \in Side : t # s => wire'[t] = wire[t]
      /\ wire'[s] = Tail(wire[s])
  BY <1>1, Consumed DEF dataVars, h
<1>5. StageInv'
  BY <1>1, <1>3, <1>4 DEF Inv, StageInv, dataVars, linkVars
<1>6. \A t \in Side, d \in Conn : Base(t, d)' = Base(t, d) /\ Delivered(t, d)' = Delivered(t, d)
  BY <1>1 DEF Base, Delivered, Queued, dataVars
<1>7. ChanInv'
  BY <1>1, <1>6 DEF Inv, ChanInv, dataVars
<1>8. ASSUME NEW d \in Conn PROVE ~DataOf(wire[s], d, 1)
  BY <1>1, <1>2 DEF DataOf
<1>9. FedInv'
  <2>1. ASSUME NEW t \in Side, NEW d \in Conn, Fed(t, d)'
        PROVE  Continues(wire'[t], d, Base(t, d)', sent'[Peer(t)][d])
    <3>1. Continues(wire[t], d, Base(t, d), sent[Peer(t)][d]) /\ sent' = sent
      BY <1>1, <1>3, <1>4, <2>1 DEF Inv, FedInv, Fed, dataVars
    <3>2. CASE t # s
      BY <1>4, <1>6, <3>1, <3>2
    <3>3. CASE t = s
      <4>1. wire[s] \in Seq(Frame)
        BY DEF Inv, TypeOK
      <4>2. Continues(Tail(wire[s]), d, Base(t, d), sent[Peer(t)][d])
        BY <1>1, <1>8, <3>1, <3>3, <4>1, ContinuesTail
      <4> QED BY <1>4, <1>6, <3>1, <3>3, <4>2
    <3> QED BY <3>2, <3>3
  <2> QED BY <2>1 DEF FedInv
<1>10. c \in mapped[s] /\ writer[s][c] \in {"draining", "writing"} => Base(s, c) = sent[Peer(s)][c]
  <2> SUFFICES ASSUME c \in mapped[s], writer[s][c] \in {"draining", "writing"}
               PROVE  Base(s, c) = sent[Peer(s)][c]
    OBVIOUS
  <2>1. Continues(wire[s], c, Base(s, c), sent[Peer(s)][c])
    BY <1>2 DEF Fed, Inv, FedInv
  <2>2. wire[s] \in Seq(Frame)
    BY DEF Inv, TypeOK
  <2>3. Continues(Tail(wire[s]), c, Base(s, c), sent[Peer(s)][c])
    BY <1>1, <1>2, <1>8, <2>1, <2>2, ContinuesTail
  <2>4. \A k \in DOMAIN Tail(wire[s]) : ~DataOf(Tail(wire[s]), c, k)
    BY <1>2 DEF DataOf, Range
  <2> QED BY <2>3, <2>4 DEF Continues
<1>11. DoneInv'
  BY <1>1, <1>2, <1>3, <1>4, <1>6, <1>10, Peers DEF Inv, DoneInv, dataVars
<1> QED BY <1>4, <1>5, <1>7, <1>9, <1>11 DEF Rest

LEMMA TakeStep == ASSUME Inv, NEW s \in Side, DataTaken(s) PROVE Rest'
<1> DEFINE h == Head(wire[s])
<1>0. wire[s] # <<>> /\ h.kind = "DATA"
  BY DEF DataTaken, Arrives
<1>. PICK c \in Conn : c = h.conn
  BY <1>0, AfterHead
<1>. PICK n \in Nat \ {0} : n = h.chunk[2]
  BY <1>0, DataOfStarted
<1>1. /\ c \in Accepted /\ h.chunk = <<c, n>> /\ n <= sent[Peer(s)][c]
      /\ pump["client"][c] # "none" /\ h = wire[s][1]
      /\ \A d : Opens(Tail(wire[s]), d) => d # c
  BY <1>0, AfterHead, DataOfStarted
<1>2. /\ wire' = [wire EXCEPT ![s] = Tail(@)] /\ UNCHANGED <<linkVars, mapped, pump, writer, sent, got>>
      /\ c \in mapped[s] /\ chan' = [chan EXCEPT ![s][c] = Append(@, <<c, n>>)]
  <2>1. Lookup(s, c) \subseteq {c} /\ Lookup(s, c) \subseteq mapped[s]
    BY <1>1, Own
  <2>2. \E d \in Lookup(s, c) : chan' = [chan EXCEPT ![s][d] = Append(@, <<c, n>>)]
    BY <1>1 DEF DataTaken
  <2> QED BY <2>1, <2>2 DEF DataTaken, Consume
<1>3. /\ Accepted' = Accepted /\ IdInv' /\ FrameInv' /\ OrderInv'
      /\ \A t \in Side, d \in Conn : Finished(t, d)' <=> Finished(t, d)
      /\ \A d : Opens(wire["host"], d)' <=> Opens(wire["host"], d)
      /\ \A t \in Side : t # s => wire'[t] = wire[t]
      /\ wire'[s] = Tail(wire[s])
  BY <1>0, <1>2, Consumed
<1> HIDE DEF h
<1>4. /\ wire[s] \in Seq(Frame) /\ Ordered(wire[s]) /\ DataOf(wire[s], c, 1) /\ wire[s][1].chunk[2] = n
      /\ \A f \in Range(wire[s]) : f.kind = "DATA" => f.chunk[2] \in Nat
      /\ sent[Peer(s)][c] \in Nat /\ Base(s, c) \in Nat /\ Delivered(s, c) \in Nat
      /\ Queued(s, c) \in Nat
  <2>1. wire[s] \in Seq(Frame) /\ Ordered(wire[s])
    BY DEF Inv, TypeOK, OrderInv
  <2>2. \A f \in Range(wire[s]) : f.kind = "DATA" => f.chunk[2] \in Nat
    BY <2>1, FrameTypes DEF Range
  <2>3. DataOf(wire[s], c, 1) /\ wire[s][1].chunk[2] = n
    BY <1>0, <1>1 DEF DataOf, h
  <2> QED BY <2>1, <2>2, <2>3, Typed DEF Inv
<1>5. /\ Delivered(s, c)' = Delivered(s, c) /\ Queued(s, c)' = Queued(s, c) + 1
      /\ Base(s, c)' = Base(s, c) + 1
      /\ chan'[s][c] # <<>> /\ DOMAIN chan'[s][c] = 1 .. Queued(s, c) + 1
      /\ DOMAIN chan[s][c] = 1 .. Queued(s, c)
      /\ \A k \in 1 .. Queued(s, c) : chan'[s][c][k] = chan[s][c][k]
      /\ chan'[s][c][Queued(s, c) + 1] = <<c, n>>
  <2>1. chan[s][c] \in Seq(Chunk) /\ <<c, n>> \in Chunk
    <3>1. chan[s][c] \in Seq(Chunk)
      BY Typed DEF Inv
    <3>2. <<c, n>> \in Chunk
      BY DEF Chunk
    <3> QED BY <3>1, <3>2
  <2>2. chan'[s][c] = Append(chan[s][c], <<c, n>>) /\ got'[s][c] = got[s][c]
    BY <1>2 DEF Inv, TypeOK
  <2>3. /\ Len(chan'[s][c]) = Len(chan[s][c]) + 1 /\ DOMAIN chan'[s][c] = 1 .. Len(chan[s][c]) + 1
        /\ DOMAIN chan[s][c] = 1 .. Len(chan[s][c])
        /\ \A k \in 1 .. Len(chan[s][c]) : chan'[s][c][k] = chan[s][c][k]
        /\ chan'[s][c][Len(chan[s][c]) + 1] = <<c, n>> /\ chan'[s][c] # <<>>
    BY <2>1, <2>2, AppendOf
  <2>4. Delivered(s, c)' = Delivered(s, c) /\ Queued(s, c)' = Queued(s, c) + 1
    BY <2>2, <2>3 DEF Delivered, Queued
  <2>5. Base(s, c)' = Delivered(s, c)' + Queued(s, c)' /\ Base(s, c) = Delivered(s, c) + Queued(s, c)
    BY DEF Base
  <2>6. Base(s, c)' = Base(s, c) + 1
    BY <1>4, <2>4, <2>5
  <2> QED BY <2>3, <2>4, <2>6 DEF Queued
<1>6. ASSUME NEW t \in Side, NEW d \in Conn, ~(t = s /\ d = c)
      PROVE  Base(t, d)' = Base(t, d) /\ Delivered(t, d)' = Delivered(t, d) /\ chan'[t][d] = chan[t][d]
  <2>1. chan'[t][d] = chan[t][d] /\ got'[t][d] = got[t][d]
    BY <1>2, <1>6 DEF Inv, TypeOK
  <2> QED BY <2>1 DEF Base, Delivered, Queued
\* While the writer takes chunks, this is the one that comes next.
<1>7. writer[s][c] \in {"draining", "writing"} =>
          n = Base(s, c) + 1 /\ Continues(Tail(wire[s]), c, Base(s, c) + 1, sent[Peer(s)][c])
  <2> SUFFICES ASSUME writer[s][c] \in {"draining", "writing"}
               PROVE  n = Base(s, c) + 1
                      /\ Continues(Tail(wire[s]), c, Base(s, c) + 1, sent[Peer(s)][c])
    OBVIOUS
  <2>1. Continues(wire[s], c, Base(s, c), sent[Peer(s)][c])
    BY <1>2 DEF Fed, Inv, FedInv
  <2> QED BY <1>0, <1>1, <1>4, <2>1, ContinuesTaken
<1>8. StageInv'
  BY <1>2, <1>3 DEF Inv, StageInv, linkVars
<1>9. ChanInv'
  <2>1. ASSUME NEW t \in Side, NEW d \in Conn
        PROVE  /\ Delivered(t, d)' <= sent'[Peer(t)][d]
               /\ t = "host" /\ sent'[t][d] # 0 => got'[t][d] # <<>>
               /\ writer'[t][d] = "writing" => chan'[t][d] # <<>>
               /\ writer'[t][d] \in {"draining", "writing"} =>
                     /\ Base(t, d)' <= sent'[Peer(t)][d]
                     /\ \A k \in DOMAIN chan'[t][d] : chan'[t][d][k] = <<d, Delivered(t, d)' + k>>
    <3>0. sent' = sent /\ got' = got /\ writer' = writer
      BY <1>2
    <3>1. CASE ~(t = s /\ d = c)
      BY <1>6, <3>0, <3>1 DEF Inv, ChanInv
    <3>2. CASE t = s /\ d = c
      <4>1. ASSUME writer[s][c] \in {"draining", "writing"}, NEW k \in DOMAIN chan'[s][c]
            PROVE  chan'[s][c][k] = <<c, Delivered(s, c) + k>>
        <5>1. CASE k = Queued(s, c) + 1
          <6>1. n = Delivered(s, c) + k
            BY <1>4, <1>7, <4>1, <5>1 DEF Base
          <6> QED BY <1>5, <5>1, <6>1
        <5>2. CASE k # Queued(s, c) + 1
          <6>1. k \in 1 .. Queued(s, c)
            BY <1>4, <1>5, <4>1, <5>2
          <6> QED BY <1>5, <4>1, <6>1 DEF Inv, ChanInv
        <5> QED BY <5>1, <5>2
      <4>2. Delivered(s, c) <= sent[Peer(s)][c] /\ (s = "host" /\ sent[s][c] # 0 => got[s][c] # <<>>)
        BY DEF Inv, ChanInv
      <4>3. writer[s][c] \in {"draining", "writing"} => Base(s, c)' <= sent[Peer(s)][c]
        BY <1>1, <1>5, <1>7
      <4> QED BY <1>5, <3>0, <3>2, <4>1, <4>2, <4>3
    <3> QED BY <3>1, <3>2
  <2> QED BY <2>1 DEF ChanInv
<1>10. FedInv'
  <2>1. ASSUME NEW t \in Side, NEW d \in Conn, Fed(t, d)'
        PROVE  Continues(wire'[t], d, Base(t, d)', sent'[Peer(t)][d])
    <3>1. Fed(t, d) /\ sent' = sent /\ writer' = writer
      BY <1>2, <1>3, <2>1 DEF Fed
    <3>2. Continues(wire[t], d, Base(t, d), sent[Peer(t)][d])
      BY <3>1 DEF Inv, FedInv
    <3>3. CASE t # s
      BY <1>3, <1>6, <3>1, <3>2, <3>3
    <3>4. CASE t = s /\ d # c
      <4>1. ~DataOf(wire[s], d, 1)
        BY <1>4, <3>4 DEF DataOf
      <4>2. Continues(Tail(wire[s]), d, Base(t, d), sent[Peer(t)][d])
        BY <1>0, <1>4, <3>2, <3>4, <4>1, ContinuesTail
      <4> QED BY <1>3, <1>6, <3>1, <3>4, <4>2
    <3>5. CASE t = s /\ d = c
      <4>1. ~(s = "host" /\ Opens(wire'["host"], c))
        BY <1>1, <1>3
      <4>2. Opens(wire["host"], c)' <=> Opens(wire'["host"], c)
        BY DEF Opens
      <4>3. writer[s][c] \in {"draining", "writing"}
        BY <1>1, <1>2, <2>1, <3>1, <3>5, <4>1, <4>2 DEF Fed
      <4> QED BY <1>3, <1>5, <1>7, <3>1, <3>5, <4>3
    <3> QED BY <3>3, <3>4, <3>5
  <2> QED BY <2>1 DEF FedInv
<1>11. DoneInv'
  <2>1. ASSUME NEW t \in Side, NEW d \in Conn, pump'[t][d] = "reading"
        PROVE  /\ writer'[t][d] \in {"draining", "writing"} /\ d \notin mapped'[t] =>
                     Base(t, d)' = sent'[Peer(t)][d] /\ Finished(Peer(t), d)'
               /\ writer'[t][d] = "drained" =>
                     Delivered(t, d)' = sent'[Peer(t)][d] /\ Finished(Peer(t), d)'
    <3>1. CASE t = s /\ d = c
      BY <1>2, <3>1 DEF Inv, StageInv
    <3>2. CASE ~(t = s /\ d = c)
      BY <1>2, <1>3, <1>6, <2>1, <3>2, Peers DEF Inv, DoneInv
    <3> QED BY <3>1, <3>2
  <2> QED BY <2>1 DEF DoneInv
<1> QED BY <1>3, <1>8, <1>9, <1>10, <1>11 DEF Rest


-----------------------------------------------------------------------------
(* Streams start *)

LEMMA NotStarted ==
    ASSUME Inv, NEW s \in Side, NEW c \in Conn, pump[s][c] = "none"
    PROVE  /\ Base(s, c) = 0 /\ Delivered(s, c) = 0 /\ sent[s][c] = 0
           /\ got[s][c] = <<>> /\ chan[s][c] = <<>>
           /\ writer[s][c] = "none" /\ c \notin mapped[s]
<1>1. /\ got[s][c] = <<>> /\ chan[s][c] = <<>> /\ sent[s][c] = 0
      /\ writer[s][c] = "none" /\ c \notin mapped[s]
  BY DEF Inv, StageInv
<1>2. Delivered(s, c) = 0 /\ Queued(s, c) = 0
  <2>1. Len(<<>>) = 0
    OBVIOUS
  <2> QED BY ONLY <1>1, <2>1 DEF Delivered, Queued
<1>3. Base(s, c) = 0
  BY <1>2 DEF Base
<1> QED BY <1>1, <1>2, <1>3

LEMMA AcceptStep == ASSUME Inv, NEW c \in Conn, Accept(c) PROVE Rest'
<1>0. PICK x \in Frame : x = OpenFrame(c)
  BY FrameTypes
<1>1. /\ x.kind = "OPEN" /\ x.conn = c /\ c \notin Accepted
      /\ opening = None /\ pump["client"][c] = "none"
  BY <1>0, FrameTypes, MuxAssumption DEF Accept, Accepted
<1>2. /\ opening' = c /\ next' = next + 1 /\ id' = [id EXCEPT ![c] = next]
      /\ born' = [born EXCEPT ![c] = epoch] /\ epoch' = epoch
      /\ wire' = [wire EXCEPT !["host"] = Append(@, x)]
      /\ UNCHANGED <<mapped, pump, writer, dataVars>>
  BY <1>0 DEF Accept
<1>3. /\ "host" \in Side /\ "client" \in Side /\ Peer("host") = "client" /\ Peer("client") = "host"
      /\ \A t \in Side : t = "host" \/ t = "client"
  BY DEF Side, Peer
<1>4. wire'["host"] = Append(wire["host"], x) /\ wire'["client"] = wire["client"]
      /\ wire["host"] \in Seq(Frame)
  BY <1>2, <1>3 DEF Inv, TypeOK
<1>5. Accepted' = Accepted \cup {c} /\ Accepted \subseteq Conn
  BY <1>1, <1>2, MuxAssumption DEF Accepted
<1>6. IdInv'
  <2>1. next \in Nat /\ Cardinality(Accepted \cup {c}) = next
    BY <1>1, NextId, MuxAssumption, FS_Subset, FS_CardinalityType DEF Inv, IdInv, StreamId
  <2>2. \A d \in Conn : id'[d] = IF d = c THEN next ELSE id[d]
    BY <1>2 DEF Inv, TypeOK
  <2>3. \A d \in Accepted : id[d] < next /\ id[d] \in Nat
    BY <1>5 DEF Inv, IdInv, TypeOK, StreamId
  <2>4. next' = Cardinality(Accepted') + 1
    BY <1>2, <1>5, <2>1
  <2>5. epoch' = 1 /\ \A d \in Conn : born'[d] = 1
    BY <1>2 DEF Inv, IdInv, TypeOK
  <2>6. \A d \in Accepted' : id'[d] < next'
    BY <1>2, <1>5, <2>1, <2>2, <2>3
  <2>7. \A d, e \in Accepted' : id'[d] = id'[e] => d = e
    BY <1>5, <2>1, <2>2, <2>3 DEF Inv, IdInv
  <2> QED BY <2>4, <2>5, <2>6, <2>7 DEF IdInv
<1>7. pump["host"][c] = "none"
  BY <1>1, <1>3 DEF Inv, StageInv
<1>8. \A d : Opens(wire["host"], d)' <=> Opens(wire["host"], d) \/ d = c
  <2>1. Range(wire'["host"]) = Range(wire["host"]) \cup {x}
    BY <1>4, RangeAppend
  <2> QED BY <1>1, <2>1 DEF Opens
<1>9. \A t \in Side, d \in Accepted : Finished(t, d) => Finished(t, d)'
  BY <1>1, <1>2, <1>5, <1>8 DEF Finished
<1>10. Grows
  <2>1. \A t \in Side, d \in Conn : sent[t][d] <= sent'[t][d] /\ sent'[t][d] \in Nat
    BY <1>2 DEF Inv, TypeOK, dataVars
  <2> QED BY <1>5, <1>9, <2>1 DEF Grows
<1>11. \A t \in Side : \A f \in Range(wire[t]) : f.kind = "OPEN" => pump'["host"][f.conn] = "none"
  BY <1>2, OpenFirst
<1>12. \A t \in Side : \A f \in Range(wire[t]) : f.conn # c
  BY <1>1 DEF Inv, FrameInv, FrameOK
<1>13. WireOK("host")'
  <2>1. FrameOK("host", x)'
    BY <1>1, <1>2, <1>5, <1>7 DEF FrameOK
  <2> QED BY <1>1, <1>3, <1>4, <1>10, <1>11, <1>12, <2>1, WireAppend
<1>14. WireOK("client")'
  BY <1>3, <1>4, <1>10, <1>11, WireSame
<1>15. FrameInv' /\ OrderInv'
  BY <1>3, <1>13, <1>14 DEF WireOK, FrameInv, OrderInv
<1>16. StageInv'
  BY <1>1, <1>2, <1>5 DEF Inv, StageInv, dataVars
<1>17. \A t \in Side, d \in Conn : Base(t, d)' = Base(t, d) /\ Delivered(t, d)' = Delivered(t, d)
  BY <1>2 DEF Base, Delivered, Queued, dataVars
<1>18. ChanInv'
  BY <1>2, <1>17 DEF Inv, ChanInv, dataVars
<1>19. FedInv'
  <2>1. ASSUME NEW t \in Side, NEW d \in Conn, Fed(t, d)'
        PROVE  Continues(wire'[t], d, Base(t, d)', sent'[Peer(t)][d])
    <3>0. sent' = sent
      BY <1>2 DEF dataVars
    <3>1. Continues(wire[t], d, Base(t, d), sent[Peer(t)][d])
      <4>1. CASE Fed(t, d)
        BY <4>1 DEF Inv, FedInv
      <4>2. CASE ~Fed(t, d)
        <5>1. t = "host" /\ d = c
          BY <1>2, <1>8, <2>1, <4>2 DEF Fed
        <5>2. Base(t, d) = 0 /\ sent[Peer(t)][d] = 0
          BY <1>1, <1>3, <1>7, <5>1, NotStarted
        <5>3. \A k \in DOMAIN wire[t] : ~DataOf(wire[t], d, k)
          BY <1>12, <5>1 DEF DataOf, Range
        <5> QED BY <5>2, <5>3 DEF Continues
      <4> QED BY <4>1, <4>2
    <3>2. CASE t = "client"
      BY <1>4, <1>17, <3>0, <3>1, <3>2
    <3>3. CASE t = "host"
      <4>1. Continues(Append(wire["host"], x), d, Base(t, d), sent[Peer(t)][d])
        BY <1>1, <1>4, <3>1, <3>3, ContinuesAppend
      <4> QED BY <1>4, <1>17, <3>0, <3>3, <4>1
    <3> QED BY <1>3, <3>2, <3>3
  <2> QED BY <2>1 DEF FedInv
<1>20. DoneInv'
  <2>1. ASSUME NEW t \in Side, NEW d \in Conn, pump[t][d] = "reading"
        PROVE  Finished(Peer(t), d) => Finished(Peer(t), d)'
    <3>1. d \in Accepted /\ Peer(t) \in Side
      BY <2>1, Peers DEF Inv, StageInv
    <3> QED BY <1>9, <3>1
  <2> QED BY <1>2, <1>17, <2>1 DEF Inv, DoneInv, dataVars
<1> QED BY <1>6, <1>15, <1>16, <1>18, <1>19, <1>20 DEF Rest

\* What all starts have in common.
LEMMA Starts ==
    ASSUME Inv, NEW s \in Side, NEW c \in Accepted, Start(s, c), pump[s][c] = "none",
           Accepted' = Accepted, UNCHANGED dataVars,
           opening' # None => pump'["client"][opening'] = "none",
           \A t \in Side, d \in Accepted : Finished(t, d) => Finished(t, d)'
    PROVE  /\ Grows /\ StageInv' /\ ChanInv' /\ DoneInv'
           /\ \A t \in Side, d \in Conn : Base(t, d)' = Base(t, d)
           /\ \A t \in Side, d \in Conn : ~(t = s /\ d = c) =>
                 (d \in mapped'[t] <=> d \in mapped[t]) /\ writer'[t][d] = writer[t][d]
<1>0. c \in Conn /\ sent' = sent /\ got' = got /\ chan' = chan
  BY DEF Accepted, dataVars
<1>1. \A t \in Side, d \in Conn :
         /\ pump'[t][d] = IF t = s /\ d = c THEN "reading" ELSE pump[t][d]
         /\ writer'[t][d] = IF t = s /\ d = c THEN "draining" ELSE writer[t][d]
         /\ d \in mapped'[t] <=> d \in mapped[t] \/ (t = s /\ d = c)
  <2>1. \A t \in Side, d \in Conn : pump'[t][d] = IF t = s /\ d = c THEN "reading" ELSE pump[t][d]
    BY <1>0 DEF Start, Inv, TypeOK
  <2>2. \A t \in Side, d \in Conn : writer'[t][d] = IF t = s /\ d = c THEN "draining" ELSE writer[t][d]
    BY <1>0 DEF Start, Inv, TypeOK
  <2>3. \A t \in Side, d \in Conn : d \in mapped'[t] <=> d \in mapped[t] \/ (t = s /\ d = c)
    BY <1>0 DEF Start, Inv, TypeOK
  <2> QED BY <2>1, <2>2, <2>3
<1>2. Base(s, c) = 0 /\ Delivered(s, c) = 0 /\ sent[s][c] = 0 /\ chan[s][c] = <<>>
  BY <1>0, NotStarted
<1>3. \A t \in Side, d \in Conn : Base(t, d)' = Base(t, d) /\ Delivered(t, d)' = Delivered(t, d)
  BY <1>0 DEF Base, Delivered, Queued
<1>4. Grows
  <2>1. \A t \in Side, d \in Conn : sent[t][d] <= sent'[t][d] /\ sent'[t][d] \in Nat
    BY <1>0 DEF Inv, TypeOK
  <2> QED BY <2>1 DEF Grows
<1>5. StageInv'
  BY <1>0, <1>1 DEF Inv, StageInv
<1>6. ChanInv'
  <2>1. sent[Peer(s)][c] \in Nat
    BY <1>0, Typed DEF Inv
  <2>2. \A k \in DOMAIN chan[s][c] : FALSE
    BY ONLY <1>2
  <2>3. ASSUME NEW t \in Side, NEW d \in Conn
        PROVE  /\ Delivered(t, d)' <= sent'[Peer(t)][d]
               /\ t = "host" /\ sent'[t][d] # 0 => got'[t][d] # <<>>
               /\ writer'[t][d] = "writing" => chan'[t][d] # <<>>
               /\ writer'[t][d] \in {"draining", "writing"} =>
                     /\ Base(t, d)' <= sent'[Peer(t)][d]
                     /\ \A k \in DOMAIN chan'[t][d] : chan'[t][d][k] = <<d, Delivered(t, d)' + k>>
    <3>1. CASE t = s /\ d = c
      BY <1>0, <1>1, <1>2, <1>3, <2>1, <2>2, <3>1
    <3>2. CASE ~(t = s /\ d = c)
      BY <1>0, <1>1, <1>3, <3>2 DEF Inv, ChanInv
    <3> QED BY <3>1, <3>2
  <2> QED BY <2>3 DEF ChanInv
<1>7. DoneInv'
  <2>1. ASSUME NEW t \in Side, NEW d \in Conn, pump'[t][d] = "reading"
        PROVE  /\ writer'[t][d] \in {"draining", "writing"} /\ d \notin mapped'[t] =>
                     Base(t, d)' = sent'[Peer(t)][d] /\ Finished(Peer(t), d)'
               /\ writer'[t][d] = "drained" =>
                     Delivered(t, d)' = sent'[Peer(t)][d] /\ Finished(Peer(t), d)'
    <3>1. CASE t = s /\ d = c
      BY <1>1, <3>1
    <3>2. CASE ~(t = s /\ d = c)
      <4>1. d \in Accepted /\ Peer(t) \in Side /\ pump[t][d] = "reading"
        BY <1>1, <2>1, <3>2, Peers DEF Inv, StageInv
      <4> QED BY <1>0, <1>1, <1>3, <3>2, <4>1 DEF Inv, DoneInv
    <3> QED BY <3>1, <3>2
  <2> QED BY <2>1 DEF DoneInv
<1> QED BY <1>1, <1>3, <1>4, <1>5, <1>6, <1>7

LEMMA RegisterStep == ASSUME Inv, Register PROVE Rest'
<1>0. PICK c \in Conn : c = opening
  BY DEF Register, Inv, TypeOK
<1>1. /\ "client" \in Side /\ c \in Accepted /\ pump["client"][c] = "none" /\ Start("client", c)
      /\ opening' = None /\ UNCHANGED <<epoch, next, id, born, wire, dataVars>>
  BY <1>0 DEF Register, Inv, StageInv, Accepted, Side
<1>2. \A t \in Side, d \in Conn :
          pump'[t][d] = IF t = "client" /\ d = c THEN "reading" ELSE pump[t][d]
  BY <1>1 DEF Start, Inv, TypeOK
<1>3. Accepted' = Accepted
  BY <1>0, <1>1, <1>2, MuxAssumption DEF Accepted
<1>4. IdInv'
  BY <1>1, <1>3 DEF Inv, IdInv
<1>5. \A d : Opens(wire["host"], d)' <=> Opens(wire["host"], d)
  BY <1>1 DEF Opens
<1>6. \A t \in Side, d \in Accepted : Finished(t, d) => Finished(t, d)'
  <2>1. Accepted \subseteq Conn /\ "host" \in Side
    BY DEF Accepted, Side
  <2> QED BY <1>1, <1>2, <1>3, <1>5, <2>1 DEF Finished
<1>7. /\ Grows /\ StageInv' /\ ChanInv' /\ DoneInv'
      /\ \A t \in Side, d \in Conn : Base(t, d)' = Base(t, d)
      /\ \A t \in Side, d \in Conn : ~(t = "client" /\ d = c) =>
            (d \in mapped'[t] <=> d \in mapped[t]) /\ writer'[t][d] = writer[t][d]
  BY <1>1, <1>3, <1>6, Starts
<1>8. \A t \in Side : WireOK(t)'
  <2>1. \A t \in Side : \A f \in Range(wire[t]) : f.kind = "OPEN" => pump'["host"][f.conn] = "none"
    <3>1. \A t \in Side : \A f \in Range(wire[t]) : f.conn \in Conn
      BY OnWire
    <3> QED BY <1>2, <3>1, OpenFirst DEF Side
  <2> QED BY <1>1, <1>7, <2>1, WireSame
<1>9. FrameInv' /\ OrderInv'
  BY <1>8 DEF WireOK, FrameInv, OrderInv
<1>10. FedInv'
  <2>1. ASSUME NEW t \in Side, NEW d \in Conn, Fed(t, d)' PROVE Fed(t, d)
    <3>1. CASE t = "client" /\ d = c
      BY <1>1, <3>1 DEF Fed
    <3>2. CASE ~(t = "client" /\ d = c)
      BY <1>2, <1>5, <1>7, <2>1, <3>2 DEF Fed
    <3> QED BY <3>1, <3>2
  <2> QED BY <1>1, <1>7, <2>1 DEF Inv, FedInv, dataVars
<1> QED BY <1>4, <1>7, <1>9, <1>10 DEF Rest

LEMMA HostOpenStep == ASSUME Inv, NEW refused \in BOOLEAN, HostOpen(refused) PROVE Rest'
<1> DEFINE h == Head(wire["host"])
<1>0. wire["host"] # <<>> /\ h.kind = "OPEN" /\ "host" \in Side /\ "client" \in Side
      /\ Peer("host") = "client" /\ Peer("client") = "host"
      /\ \A t \in Side : t = "host" \/ t = "client"
  BY DEF HostOpen, Arrives, Side, Peer
<1>. PICK c \in Conn : c = h.conn
  BY <1>0, AfterHead
<1>1. /\ c \in Accepted /\ FrameOK("host", h) /\ h \in Range(wire["host"]) /\ h = wire["host"][1]
      /\ \A f \in Range(Tail(wire["host"])) :
            f \in Range(wire["host"]) /\ (f.kind = "OPEN" => f.conn # c)
      /\ \A d : Opens(Tail(wire["host"]), d) => Opens(wire["host"], d) /\ d # c
  BY <1>0, AfterHead
<1>2. pump["host"][c] = "none" /\ c \notin mapped["host"] /\ Opens(wire["host"], c)
  <2>1. pump["host"][c] = "none"
    BY <1>0, <1>1 DEF FrameOK
  <2> QED BY <1>0, <1>1, <2>1, NotStarted DEF Opens
<1>3. Lookup("host", c) = {}
  BY <1>0, <1>1, <1>2, Own
<1>. PICK a \in Frame : a = ErrorFrame(c)
  BY FrameTypes
<1>. PICK b \in Frame : b = CloseFrame(c)
  BY FrameTypes
<1>4. a.kind = "ERROR" /\ a.conn = c /\ b.kind = "CLOSE" /\ b.conn = c
  BY FrameTypes
<1>5. /\ UNCHANGED <<linkVars, held, dataVars>>
      /\ \/ /\ wire' = [wire EXCEPT !["host"] = Tail(@), !["client"] = @ \o <<a, b>>]
            /\ UNCHANGED <<mapped, pump, writer>>
         \/ /\ wire' = [wire EXCEPT !["host"] = Tail(@)]
            /\ Start("host", c)
  BY <1>3 DEF HostOpen, Consume
<1>6. /\ wire["host"] \in Seq(Frame) /\ wire["client"] \in Seq(Frame)
      /\ Ordered(wire["host"]) /\ Ordered(wire["client"])
      /\ \A t \in Side : \A f \in Range(wire[t]) : FrameOK(t, f)
  BY <1>0 DEF Inv, TypeOK, OrderInv, FrameInv
<1>7. wire'["host"] = Tail(wire["host"])
  BY <1>0, <1>5 DEF Inv, TypeOK
<1> HIDE DEF h
<1>8. \A d : Opens(wire["host"], d)' => Opens(wire["host"], d) /\ d # c
  BY <1>1, <1>7 DEF Opens
<1>9. \A d \in Conn : ~DataOf(wire["host"], d, 1)
  BY <1>0, <1>1 DEF DataOf, h
<1>10. ASSUME NEW d \in Conn, NEW base, NEW last, Continues(wire["host"], d, base, last)
       PROVE  Continues(wire'["host"], d, base, last)
  BY <1>0, <1>6, <1>7, <1>9, <1>10, ContinuesTail
<1>11. opening' = opening /\ sent' = sent /\ got' = got /\ chan' = chan
  BY <1>5 DEF linkVars, dataVars
<1>12. CASE wire' = [wire EXCEPT !["host"] = Tail(@), !["client"] = @ \o <<a, b>>]
            /\ UNCHANGED <<mapped, pump, writer>>
  <2>1. Accepted' = Accepted /\ IdInv'
    BY <1>5, <1>12, AcceptedKept
  <2>2. \A t \in Side, d \in Accepted : Finished(t, d) => Finished(t, d)'
    BY <1>8, <1>12, <2>1 DEF Finished
  <2>3. Grows
    <3>1. \A t \in Side, d \in Conn : sent[t][d] <= sent'[t][d] /\ sent'[t][d] \in Nat
      BY <1>11 DEF Inv, TypeOK
    <3> QED BY <2>1, <2>2, <3>1 DEF Grows
  <2>4. \A t \in Side : \A f \in Range(wire[t]) : f.kind = "OPEN" => pump'["host"][f.conn] = "none"
    BY <1>12, OpenFirst
  <2>5. WireOK("host")'
    BY <1>0, <1>1, <1>7, <2>3, <2>4, WireTail
  <2>. PICK u \in Seq(Frame) : u = Append(wire["client"], a)
    BY <1>6, AppendOf
  <2>6. wire'["client"] = Append(u, b)
    <3>1. wire'["client"] = wire["client"] \o <<a, b>>
      BY <1>0, <1>12 DEF Inv, TypeOK
    <3>2. wire["client"] \o <<a, b>> = Append(Append(wire["client"], a), b)
      BY <1>6
    <3> QED BY <3>1, <3>2
  <2>7. Range(u) = Range(wire["client"]) \cup {a} /\ Range(wire'["client"]) = Range(u) \cup {b}
    <3>1. Range(u) = Range(wire["client"]) \cup {a}
      BY <1>6, RangeAppend
    <3>2. Range(Append(u, b)) = Range(u) \cup {b}
      <4>1. u \in Seq(Frame) /\ b \in Frame
        OBVIOUS
      <4> HIDE DEF Frame
      <4> QED BY ONLY <4>1, RangeAppend
    <3> QED BY <2>6, <3>1, <3>2
  <2>8. Ordered(u)
    BY <1>4, <1>6, OrderedAppend
  <2>9. Ordered(wire'["client"])
    BY <1>4, <2>6, <2>8, OrderedAppend
  <2>10. FrameOK("client", a)' /\ FrameOK("client", b)'
    <3>1. Finished("host", c)' /\ c \in Accepted'
      BY <1>1, <1>2, <1>8, <1>12, <2>1 DEF Finished
    <3> QED BY <1>0, <1>4, <3>1 DEF FrameOK
  <2>11. \A f \in Range(wire["client"]) : FrameOK("client", f)'
    BY <1>0, <2>3, <2>4, FrameKept DEF Grows
  <2>12. FrameInv' /\ OrderInv'
    BY <1>0, <2>5, <2>7, <2>9, <2>10, <2>11 DEF WireOK, FrameInv, OrderInv
  <2>13. \A t \in Side, d \in Conn : Base(t, d)' = Base(t, d) /\ Delivered(t, d)' = Delivered(t, d)
    BY <1>11 DEF Base, Delivered, Queued
  <2>14. StageInv' /\ ChanInv'
    BY <1>11, <1>12, <2>1, <2>13 DEF Inv, StageInv, ChanInv
  <2>15. FedInv'
    <3>1. ASSUME NEW t \in Side, NEW d \in Conn, Fed(t, d)'
          PROVE  Continues(wire'[t], d, Base(t, d)', sent'[Peer(t)][d])
      <4>1. Continues(wire[t], d, Base(t, d), sent[Peer(t)][d])
        BY <1>8, <1>12, <3>1 DEF Inv, FedInv, Fed
      <4>2. CASE t = "host"
        BY <1>10, <1>11, <2>13, <4>1, <4>2
      <4>3. CASE t = "client"
        <5>1. Continues(u, d, Base(t, d), sent[Peer(t)][d])
          BY <1>4, <1>6, <4>1, <4>3, ContinuesAppend
        <5>2. Continues(Append(u, b), d, Base(t, d), sent[Peer(t)][d])
          BY <1>4, <5>1, ContinuesAppend
        <5> QED BY <1>11, <2>6, <2>13, <4>3, <5>2
      <4> QED BY <1>0, <4>2, <4>3
    <3> QED BY <3>1 DEF FedInv
  <2>16. DoneInv'
    <3>1. ASSUME NEW t \in Side, NEW d \in Conn, pump[t][d] = "reading"
          PROVE  Finished(Peer(t), d) => Finished(Peer(t), d)'
      <4>1. d \in Accepted /\ Peer(t) \in Side
        BY <3>1, Peers DEF Inv, StageInv
      <4> QED BY <2>2, <4>1
    <3> QED BY <1>11, <1>12, <2>13, <3>1 DEF Inv, DoneInv
  <2> QED BY <2>1, <2>12, <2>14, <2>15, <2>16 DEF Rest
<1>13. CASE wire' = [wire EXCEPT !["host"] = Tail(@)] /\ Start("host", c)
  <2>1. \A t \in Side, d \in Conn :
            pump'[t][d] = IF t = "host" /\ d = c THEN "reading" ELSE pump[t][d]
    BY <1>13 DEF Start, Inv, TypeOK
  <2>2. Accepted' = Accepted /\ IdInv'
    <3>1. \A d \in Conn : pump'["client"][d] = pump["client"][d]
      BY <1>0, <2>1
    <3> QED BY <1>5, <3>1, AcceptedKept
  <2>3. \A t \in Side, d \in Accepted : Finished(t, d) => Finished(t, d)'
    <3>1. Accepted \subseteq Conn
      BY DEF Accepted
    <3> QED BY <1>0, <1>2, <1>8, <2>1, <2>2, <3>1 DEF Finished
  <2>4. opening' # None => pump'["client"][opening'] = "none"
    <3>1. opening # None => opening \in Conn /\ pump["client"][opening] = "none"
      BY DEF Inv, TypeOK, StageInv
    <3> QED BY <1>0, <1>11, <2>1, <3>1
  <2>5. /\ Grows /\ StageInv' /\ ChanInv' /\ DoneInv'
        /\ \A t \in Side, d \in Conn : Base(t, d)' = Base(t, d)
        /\ \A t \in Side, d \in Conn : ~(t = "host" /\ d = c) =>
              (d \in mapped'[t] <=> d \in mapped[t]) /\ writer'[t][d] = writer[t][d]
    BY <1>0, <1>1, <1>2, <1>5, <1>13, <2>2, <2>3, <2>4, Starts
  <2>6. \A t \in Side : \A f \in Range(wire[t]) : f.conn \in Conn
    BY OnWire
  <2>7. WireOK("host")'
    <3>1. \A f \in Range(Tail(wire["host"])) : f.kind = "OPEN" => pump'["host"][f.conn] = "none"
      BY <1>0, <1>1, <2>1, <2>6, OpenFirst
    <3> QED BY <1>0, <1>7, <2>5, <3>1, WireTail
  <2>8. wire'["client"] = wire["client"]
    BY <1>0, <1>13 DEF Inv, TypeOK
  <2>9. WireOK("client")'
    <3>1. \A f \in Range(wire["client"]) : f.kind # "OPEN"
      BY <1>0, <1>6 DEF FrameOK
    <3> QED BY <1>0, <2>5, <2>8, <3>1, WireSame
  <2>10. FrameInv' /\ OrderInv'
    BY <1>0, <2>7, <2>9 DEF WireOK, FrameInv, OrderInv
  <2>11. FedInv'
    <3>1. ASSUME NEW t \in Side, NEW d \in Conn, Fed(t, d)'
          PROVE  Continues(wire'[t], d, Base(t, d)', sent'[Peer(t)][d])
      <4>1. Fed(t, d)
        <5>1. CASE t = "host" /\ d = c
          BY <1>2, <5>1 DEF Fed
        <5>2. CASE ~(t = "host" /\ d = c)
          BY <1>8, <2>1, <2>5, <3>1, <5>2 DEF Fed
        <5> QED BY <5>1, <5>2
      <4>2. Continues(wire[t], d, Base(t, d), sent[Peer(t)][d])
        BY <4>1 DEF Inv, FedInv
      <4>3. CASE t = "host"
        BY <1>10, <1>11, <2>5, <4>2, <4>3
      <4>4. CASE t = "client"
        BY <1>11, <2>5, <2>8, <4>2, <4>4
      <4> QED BY <1>0, <4>3, <4>4
    <3> QED BY <3>1 DEF FedInv
  <2> QED BY <2>2, <2>5, <2>10, <2>11 DEF Rest
<1> QED BY <1>5, <1>12, <1>13

-----------------------------------------------------------------------------
(* The invariant holds, and so do the theorems *)

\* What Inv says covers what holds across reconnects of the streams and the wires.
LEMMA InvStarted == Inv => StartedInv /\ LineInv
<1> SUFFICES ASSUME Inv PROVE StartedInv /\ LineInv
    OBVIOUS
<1>1. StartedInv
  BY FS_CardinalityType DEF Inv, IdInv, StageInv, ChanInv, StartedInv, StreamOK
<1>2. LineInv
  BY DEF Inv, FrameInv, FrameOK, OrderInv, Ordered, LineInv, OnLine, Rising
<1> QED BY <1>1, <1>2

LEMMA InvStep == ASSUME Inv, [Next]_vars PROVE Inv'
<1>1. TypeOK'
  BY TypeStep, InvStarted DEF Inv
<1>2. Rest'
  <2>1. CASE UNCHANGED vars
    <3>1. UNCHANGED <<linkVars, mapped, wire, pump, writer, dataVars, sent>>
      BY <2>1 DEF vars, dataVars
    <3>2. /\ Accepted' = Accepted /\ IdInv' /\ FrameInv' /\ OrderInv'
          /\ \A t \in Side, d \in Conn : Finished(t, d)' <=> Finished(t, d)
          /\ \A d : Opens(wire["host"], d)' <=> Opens(wire["host"], d)
      BY <3>1, Quiet
    <3>3. StageInv'
      BY <3>1, <3>2 DEF Inv, StageInv, dataVars, linkVars
    <3>6. ChanInv'
      BY <3>1 DEF Inv, ChanInv, Base, Delivered, Queued, dataVars
    <3>4. FedInv'
      BY <3>1, <3>2 DEF Inv, FedInv, Fed, Base, Delivered, Queued, dataVars
    <3>5. DoneInv'
      BY <3>1, <3>2, Peers DEF Inv, DoneInv, Base, Delivered, Queued, dataVars
    <3> QED BY <3>2, <3>3, <3>4, <3>5, <3>6 DEF Rest
  <2>2. ASSUME NEW c \in Conn, Accept(c) PROVE Rest'
    BY <2>2, AcceptStep
  <2>3. CASE Register
    BY <2>3, RegisterStep
  <2>4. CASE HostOpens
    BY <2>4, HostOpenStep DEF HostOpens
  <2>5. ASSUME NEW s \in Side, ReadFrame(s) PROVE Rest'
    BY <2>5, DropStep, WaitStep, TakeStep, CloseStep DEF ReadFrame
  <2>6. ASSUME NEW s \in Side, NEW c \in Conn,
               Sends(s, c) \/ Ends(s, c) \/ PumpEnds(s, c) \/ Drains(s, c) \/ WriterEnds(s, c)
        PROVE  Rest'
    BY <2>6, SendStep, EndStep, PumpEndStep, WriterStep
  <2> QED BY <2>1, <2>2, <2>3, <2>4, <2>5, <2>6 DEF Next
<1> QED BY <1>1, <1>2 DEF Inv, Rest

LEMMA InvGraceful == Inv => GracefulTeardown
  BY DEF Inv, DoneInv, GracefulTeardown, Delivered

LEMMA PipesStart == Init => Pipes!Init
  BY DEF Init, Pipes!Init

\* Sends is a write at one end, Writes a read at the other; nothing else moves a chunk.
LEMMA PipesStep == ASSUME Inv, [Next]_vars PROVE [Pipes!Next]_<<sent, got>>
<1>1. ASSUME NEW s \in Side, NEW c \in Conn, Sends(s, c) PROVE [Pipes!Next]_<<sent, got>>
  <2>1. c \in Accepted
    BY <1>1 DEF Sends, Inv, StageInv
  <2>2. Pipes!Write(s, c)
    BY <1>1, <2>1, Own DEF Sends, Pipes!Write
  <2> QED BY <2>2 DEF Pipes!Next
<1>2. ASSUME NEW s \in Side, NEW c \in Conn, Writes(s, c) PROVE [Pipes!Next]_<<sent, got>>
  <2>1. /\ writer[s][c] = "writing" /\ chan[s][c] # <<>> /\ UNCHANGED sent
        /\ got' = [got EXCEPT ![s][c] = Append(@, Head(chan[s][c]))]
    BY <1>2 DEF Writes, Inv, ChanInv
  <2>2. /\ chan[s][c] \in Seq(Chunk) /\ Delivered(s, c) \in Nat /\ Queued(s, c) \in Nat
        /\ sent[Peer(s)][c] \in Nat
    BY Typed DEF Inv
  <2>3. Head(chan[s][c]) = chan[s][c][1] /\ 1 \in DOMAIN chan[s][c] /\ Queued(s, c) # 0
    <3>1. Len(chan[s][c]) \in Nat \ {0} /\ Head(chan[s][c]) = chan[s][c][1]
          /\ DOMAIN chan[s][c] = 1 .. Len(chan[s][c])
      BY <2>1, <2>2, TailOf
    <3>2. 1 \in 1 .. Len(chan[s][c])
      BY <3>1
    <3> QED BY <3>1, <3>2 DEF Queued
  <2>4. Head(chan[s][c]) = <<c, Delivered(s, c) + 1>> /\ Base(s, c) <= sent[Peer(s)][c]
    BY <2>1, <2>3 DEF Inv, ChanInv
  <2>5. Delivered(s, c) < sent[Peer(s)][c]
    BY <2>2, <2>3, <2>4 DEF Base
  <2>6. Pipes!Read(s, c)
    <3>1. got' = [got EXCEPT ![s][c] = Append(@, <<c, Delivered(s, c) + 1>>)]
      BY <2>1, <2>4
    <3> QED BY <2>1, <2>5, <3>1 DEF Pipes!Read, Delivered
  <2> QED BY <2>6 DEF Pipes!Next
<1>3. CASE UNCHANGED vars
  BY <1>3 DEF vars, dataVars
<1>4. ASSUME NEW c \in Conn, Accept(c) PROVE UNCHANGED <<sent, got>>
  BY <1>4 DEF Accept, dataVars
<1>5. ASSUME Register \/ HostOpens PROVE UNCHANGED <<sent, got>>
  BY <1>5 DEF Register, HostOpens, HostOpen, dataVars
<1>6. ASSUME NEW s \in Side, ReadFrame(s) PROVE UNCHANGED <<sent, got>>
  BY <1>6 DEF ReadFrame, DataDropped, DataWaits, DataTaken, CloseArrives, dataVars
<1>7. ASSUME NEW s \in Side, NEW c \in Conn,
             \/ Ends(s, c) \/ PumpEnds(s, c) \/ WriterEnds(s, c)
             \/ Receives(s, c) \/ WriteFails(s, c) \/ Drained(s, c)
      PROVE  UNCHANGED <<sent, got>>
  BY <1>7 DEF Ends, PumpEnds, WriterEnds, Receives, WriteFails, Drained, dataVars
<1> QED BY <1>1, <1>2, <1>3, <1>4, <1>5, <1>6, <1>7 DEF Next, Drains

LEMMA Invariant == Spec => []Inv
  BY MuxStart, InvStep, PTL DEF Spec

\* The types, and the bound on the channel: a writer never has more behind it than the
\* channel holds and the chunk in its hand.
THEOREM TypeCorrect == Spec => []TypeOK
<1>1. Inv => TypeOK
  BY DEF Inv
<1> QED BY <1>1, Invariant, PTL

\* The promise of the PumpEnd and CLOSE handling: a writer that shuts its local socket
\* down because its entry left the map has delivered all that the far end sent.
THEOREM GracefulTeardownHolds == Spec => []GracefulTeardown
  BY InvGraceful, Invariant, PTL

\* The two pumps, the maps and the WebSocket between them are a set of pipes: what
\* pump_channel_to_writer writes is what pump_reader_to_ws read at the far end, of the
\* same connection, once and in order.
THEOREM RelayImplementsPipes == Spec => ImplementsPipes
<1>1. Spec => [][Pipes!Next]_<<sent, got>>
  BY Invariant, PipesStep, PTL DEF Spec
<1> QED BY <1>1, PipesStart, PTL DEF Spec, ImplementsPipes, Pipes!Spec

-----------------------------------------------------------------------------
(* Reconnects: sequences *)

LEMMA PrefixOf ==
    ASSUME NEW S, NEW w \in Seq(S), NEW n \in 0 .. Len(w)
    PROVE  /\ SubSeq(w, 1, n) \in Seq(S) /\ DOMAIN SubSeq(w, 1, n) = 1 .. n
           /\ DOMAIN w = 1 .. Len(w) /\ 1 .. n \subseteq 1 .. Len(w)
           /\ \A k \in 1 .. n : SubSeq(w, 1, n)[k] = w[k]
           /\ Range(SubSeq(w, 1, n)) \subseteq Range(w)
           /\ n # 0 => SubSeq(w, 1, n) # <<>> /\ Head(SubSeq(w, 1, n)) = Head(w)
<1> DEFINE p == SubSeq(w, 1, n)
<1>1. /\ p \in Seq(S) /\ Len(p) = n /\ DOMAIN p = 1 .. n /\ \A k \in 1 .. n : p[k] = w[k]
      /\ DOMAIN w = 1 .. Len(w) /\ 1 .. n \subseteq 1 .. Len(w)
  OBVIOUS
<1>2. n # 0 => p # <<>> /\ Head(p) = Head(w)
  <2> SUFFICES ASSUME n # 0 PROVE p # <<>> /\ Head(p) = Head(w)
      OBVIOUS
  <2>1. 1 \in 1 .. n /\ w # <<>> /\ p # <<>>
    BY <1>1
  <2> QED BY <1>1, <2>1, TailOf
<1> HIDE DEF p
<1>3. Range(p) \subseteq Range(w)
  BY <1>1 DEF Range
<1> QED BY <1>1, <1>2, <1>3 DEF p

LEMMA RisingPrefix ==
    ASSUME NEW S, NEW w \in Seq(S), NEW n \in 0 .. Len(w), Rising(w)
    PROVE  Rising(SubSeq(w, 1, n))
<1> DEFINE p == SubSeq(w, 1, n)
<1>1. /\ DOMAIN p = 1 .. n /\ 1 .. n \subseteq DOMAIN w /\ \A k \in 1 .. n : p[k] = w[k]
      /\ \A k \in 1 .. n : \A j \in 1 .. k - 1 : j \in 1 .. n
  BY PrefixOf
<1> HIDE DEF p
<1>2. Rising(p)
  BY <1>1 DEF Rising
<1> QED BY <1>2 DEF p

LEMMA RisingTail ==
    ASSUME NEW S, NEW w \in Seq(S), w # <<>>, Rising(w)
    PROVE  /\ Rising(Tail(w))
           /\ \A f \in Range(Tail(w)) : f.conn = Head(w).conn =>
                 /\ f.kind # "OPEN"
                 /\ f.kind = "DATA" /\ Head(w).kind = "DATA" => Head(w).chunk[2] < f.chunk[2]
<1> DEFINE t == Tail(w)
<1>1. /\ DOMAIN w = 1 .. Len(w) /\ DOMAIN t = 1 .. Len(w) - 1 /\ Head(w) = w[1]
      /\ \A k \in 1 .. Len(w) - 1 : t[k] = w[k + 1] /\ k + 1 \in 1 .. Len(w) /\ 1 \in 1 .. (k + 1) - 1
  BY TailOf
<1>2. ASSUME NEW k \in 1 .. Len(w) - 1, NEW j \in 1 .. k - 1
      PROVE  t[j] = w[j + 1] /\ j + 1 \in 1 .. (k + 1) - 1
  BY TailOf
<1> HIDE DEF t
<1>3. Rising(t)
  <2> SUFFICES ASSUME NEW k \in 1 .. Len(w) - 1, NEW j \in 1 .. k - 1, t[j].conn = t[k].conn
               PROVE  /\ t[k].kind # "OPEN"
                      /\ t[k].kind = "DATA" /\ t[j].kind = "DATA" => t[j].chunk[2] < t[k].chunk[2]
      BY <1>1 DEF Rising
  <2>1. /\ t[k] = w[k + 1] /\ k + 1 \in DOMAIN w
        /\ t[j] = w[j + 1] /\ j + 1 \in 1 .. (k + 1) - 1
    BY <1>1, <1>2
  <2> QED BY <2>1 DEF Rising
<1>4. ASSUME NEW f \in Range(t), f.conn = w[1].conn
      PROVE  /\ f.kind # "OPEN"
             /\ f.kind = "DATA" /\ w[1].kind = "DATA" => w[1].chunk[2] < f.chunk[2]
  <2>1. PICK k \in 1 .. Len(w) - 1 : f = w[k + 1]
    BY <1>1, <1>4 DEF Range
  <2> QED BY <1>1, <1>4, <2>1 DEF Rising
<1> QED BY <1>1, <1>3, <1>4 DEF t

LEMMA RisingAppend ==
    ASSUME NEW S, NEW w \in Seq(S), NEW x \in S, Rising(w),
           \A f \in Range(w) : f.conn = x.conn =>
               /\ x.kind # "OPEN"
               /\ x.kind = "DATA" /\ f.kind = "DATA" => f.chunk[2] < x.chunk[2]
    PROVE  Rising(Append(w, x))
<1> DEFINE a == Append(w, x)
<1>1. ASSUME NEW k \in 1 .. Len(w), NEW j \in 1 .. k - 1 PROVE a[k] = w[k] /\ a[j] = w[j]
  BY AppendOf
<1>2. ASSUME NEW j \in 1 .. Len(w) PROVE a[j] = w[j] /\ a[j] \in Range(w)
  BY AppendOf DEF Range
<1>3. /\ \A k \in 1 .. Len(w) + 1 : k \in 1 .. Len(w) \/ k = Len(w) + 1
      /\ (Len(w) + 1) - 1 = Len(w) /\ DOMAIN a = 1 .. Len(w) + 1 /\ a[Len(w) + 1] = x
      /\ DOMAIN w = 1 .. Len(w)
  BY AppendOf
<1> HIDE DEF a
<1>4. Rising(a)
  BY <1>1, <1>2, <1>3 DEF Rising
<1> QED BY <1>4 DEF a

LEMMA InOrderTail ==
    ASSUME NEW S, NEW q \in Seq(S), q # <<>>, InOrder(q)
    PROVE  /\ InOrder(Tail(q))
           /\ \A y \in Range(Tail(q)) : y[1] = Head(q)[1] => Head(q)[2] < y[2]
<1> DEFINE t == Tail(q)
<1>1. /\ DOMAIN q = 1 .. Len(q) /\ DOMAIN t = 1 .. Len(q) - 1 /\ Head(q) = q[1]
      /\ \A k \in 1 .. Len(q) - 1 : t[k] = q[k + 1] /\ k + 1 \in 1 .. Len(q) /\ 1 \in 1 .. (k + 1) - 1
  BY TailOf
<1>2. ASSUME NEW k \in 1 .. Len(q) - 1, NEW j \in 1 .. k - 1
      PROVE  t[j] = q[j + 1] /\ j + 1 \in 1 .. (k + 1) - 1
  BY TailOf
<1> HIDE DEF t
<1>3. InOrder(t)
  BY <1>1, <1>2 DEF InOrder
<1>4. ASSUME NEW y \in Range(t), y[1] = q[1][1] PROVE q[1][2] < y[2]
  <2>1. PICK k \in 1 .. Len(q) - 1 : y = q[k + 1]
    BY <1>1, <1>4 DEF Range
  <2> QED BY <1>1, <1>4, <2>1 DEF InOrder
<1> QED BY <1>1, <1>3, <1>4 DEF t

LEMMA InOrderAppend ==
    ASSUME NEW S, NEW q \in Seq(S), NEW x \in S, InOrder(q),
           \A y \in Range(q) : y[1] = x[1] => y[2] < x[2]
    PROVE  InOrder(Append(q, x))
<1> DEFINE a == Append(q, x)
<1>1. ASSUME NEW k \in 1 .. Len(q), NEW j \in 1 .. k - 1 PROVE a[k] = q[k] /\ a[j] = q[j]
  BY AppendOf
<1>2. ASSUME NEW j \in 1 .. Len(q) PROVE a[j] = q[j] /\ a[j] \in Range(q)
  BY AppendOf DEF Range
<1>3. /\ \A k \in 1 .. Len(q) + 1 : k \in 1 .. Len(q) \/ k = Len(q) + 1
      /\ (Len(q) + 1) - 1 = Len(q) /\ DOMAIN a = 1 .. Len(q) + 1 /\ a[Len(q) + 1] = x
      /\ DOMAIN q = 1 .. Len(q)
  BY AppendOf
<1> HIDE DEF a
<1>4. InOrder(a)
  BY <1>1, <1>2, <1>3 DEF InOrder
<1> QED BY <1>4 DEF a


-----------------------------------------------------------------------------
(* Reconnects: what every step keeps *)

LEMMA WireFrames ==
    ASSUME TypeOK, NEW s \in Side
    PROVE  \A f \in Range(wire[s]) :
              /\ f \in Frame /\ f.conn \in Conn
              /\ f.kind = "DATA" => f.chunk \in Chunk /\ f.chunk[2] \in Nat
                                    /\ f.chunk = <<f.chunk[1], f.chunk[2]>>
<1>1. Range(wire[s]) \subseteq Frame
  BY DEF TypeOK, Range
<1> QED BY <1>1, FrameTypes

LEMMA PumpSet ==
    ASSUME TypeOK, NEW s \in Side, NEW c \in Conn, NEW v, pump' = [pump EXCEPT ![s][c] = v]
    PROVE  \A t \in Side, d \in Conn : pump'[t][d] = IF t = s /\ d = c THEN v ELSE pump[t][d]
  BY DEF TypeOK

\* A pump that started has started, and counts up.
LEMMA PumpsGoOn ==
    ASSUME TypeOK, [ReconnectNext]_vars
    PROVE  \A s \in Side, c \in Conn :
              /\ pump[s][c] # "none" => pump'[s][c] # "none"
              /\ sent[s][c] \in Nat /\ sent'[s][c] \in Nat /\ sent[s][c] <= sent'[s][c]
<1> DEFINE Goal == \A s \in Side, c \in Conn :
              /\ pump[s][c] # "none" => pump'[s][c] # "none"
              /\ sent[s][c] \in Nat /\ sent'[s][c] \in Nat /\ sent[s][c] <= sent'[s][c]
<1> SUFFICES Goal
    OBVIOUS
<1>1. \A s \in Side, c \in Conn : sent[s][c] \in Nat
  BY DEF TypeOK
<1>2. CASE UNCHANGED <<pump, sent>>
  BY <1>1, <1>2
<1>3. ASSUME NEW s \in Side, NEW c \in Conn, NEW v, v # "none",
             pump' = [pump EXCEPT ![s][c] = v], sent' = sent
      PROVE  Goal
  <2>1. \A t \in Side, d \in Conn : pump'[t][d] = IF t = s /\ d = c THEN v ELSE pump[t][d]
    BY <1>3 DEF TypeOK
  <2> QED BY <1>1, <1>3, <2>1
<1>4. CASE Register
  <2>1. /\ opening \in Conn /\ sent' = sent /\ "client" \in Side
        /\ pump' = [pump EXCEPT !["client"][opening] = "reading"]
    BY <1>4 DEF Register, Start, TypeOK, dataVars, Side
  <2> QED BY <1>3, <2>1
<1>5. CASE HostOpens
  <2>1. PICK refused \in BOOLEAN : HostOpen(refused)
    BY <1>5 DEF HostOpens
  <2>2. wire["host"] # <<>> /\ Head(wire["host"]).conn \in Conn /\ "host" \in Side
    BY <2>1, HeadFrame DEF HostOpen, Arrives, Side
  <2>3. /\ sent' = sent
        /\ pump' = pump \/ pump' = [pump EXCEPT !["host"][Head(wire["host"]).conn] = "reading"]
    BY <2>1 DEF HostOpen, Start, dataVars
  <2> QED BY <1>2, <1>3, <2>2, <2>3
<1>6. ASSUME NEW s \in Side, ReadFrame(s) PROVE Goal
  BY <1>2, <1>6 DEF ReadFrame, DataDropped, DataWaits, DataTaken, CloseArrives, dataVars
<1>7. ASSUME NEW s \in Side, NEW c \in Conn, Sends(s, c) \/ Ends(s, c) \/ PumpEnds(s, c) PROVE Goal
  <2>1. CASE pump' = pump /\ sent' = [sent EXCEPT ![s][c] = @ + 1]
    <3>1. \A t \in Side, d \in Conn :
              sent'[t][d] = IF t = s /\ d = c THEN sent[t][d] + 1 ELSE sent[t][d]
      BY <2>1 DEF TypeOK
    <3> QED BY <1>1, <2>1, <3>1
  <2>2. CASE sent' = sent /\ \E v \in {"closing", "done"} : pump' = [pump EXCEPT ![s][c] = v]
    BY <1>3, <2>2
  <2> QED BY <1>7, <2>1, <2>2 DEF Sends, Ends, PumpEnds, dataVars
<1>8. ASSUME NEW s \in Side, NEW c \in Conn, Drains(s, c) \/ WriterEnds(s, c) PROVE Goal
  BY <1>2, <1>8 DEF Drains, Receives, Writes, WriteFails, Drained, WriterEnds, dataVars
<1>9. ASSUME NEW c \in Conn, Accept(c) PROVE Goal
  BY <1>2, <1>9 DEF Accept, dataVars
<1>10. ASSUME NEW kept, Reconnect(kept) PROVE Goal
  <2>1. /\ sent' = sent /\ "client" \in Side
        /\ pump' = pump \/ (opening \in Conn /\ pump' = [pump EXCEPT !["client"][opening] = "done"])
    BY <1>10 DEF Reconnect, TypeOK, dataVars, Side
  <2> QED BY <1>2, <1>3, <2>1
<1>11. CASE UNCHANGED vars
  BY <1>2, <1>11 DEF vars, dataVars
<1> QED BY <1>4, <1>5, <1>6, <1>7, <1>8, <1>9, <1>10, <1>11 DEF ReconnectNext, Next

\* Only Accept takes a connection in, and gives it its id.
LEMMA OnceAccepted ==
    ASSUME TypeOK, StartedInv, [ReconnectNext]_vars, ~\E c \in Conn : Accept(c)
    PROVE  Accepted' = Accepted /\ id' = id
<1> USE DEF TypeOK, linkVars
<1>1. ASSUME id' = id, opening' = opening,
             \A c \in Conn : pump'["client"][c] = "none" <=> pump["client"][c] = "none"
      PROVE  Accepted' = Accepted /\ id' = id
  BY <1>1 DEF Accepted
<1>2. CASE UNCHANGED <<id, opening, pump>>
  BY <1>1, <1>2
<1>3. CASE Register
  <2>1. /\ opening \in Conn /\ opening' = None /\ id' = id /\ opening' \notin Conn
        /\ pump' = [pump EXCEPT !["client"][opening] = "reading"]
    BY <1>3, MuxAssumption DEF Register, Start
  <2> QED BY <2>1 DEF Accepted, Side
<1>4. CASE HostOpens
  <2>1. PICK refused \in BOOLEAN : HostOpen(refused)
    BY <1>4 DEF HostOpens
  <2>2. UNCHANGED <<id, opening>> /\ (pump' = pump \/ Start("host", Head(wire["host"]).conn))
    BY <2>1 DEF HostOpen
  <2> QED BY <1>1, <2>2 DEF Start, Side
<1>5. ASSUME NEW s \in Side, ReadFrame(s) PROVE UNCHANGED <<id, opening, pump>>
  BY <1>5 DEF ReadFrame, DataDropped, DataWaits, DataTaken, CloseArrives
<1>6. ASSUME NEW s \in Side, NEW c \in Conn, Sends(s, c) \/ Ends(s, c) \/ PumpEnds(s, c)
      PROVE  Accepted' = Accepted /\ id' = id
  <2>1. /\ id' = id /\ opening' = opening /\ pump[s][c] # "none"
        /\ pump' = pump \/ \E v \in {"closing", "done"} : pump' = [pump EXCEPT ![s][c] = v]
    BY <1>6 DEF Sends, Ends, PumpEnds
  <2>2. ASSUME NEW v \in {"closing", "done"}, pump' = [pump EXCEPT ![s][c] = v]
        PROVE  \A d \in Conn : pump'["client"][d] = "none" <=> pump["client"][d] = "none"
    <3>1. \A d \in Conn : pump'["client"][d] = IF "client" = s /\ d = c THEN v ELSE pump["client"][d]
      BY <2>2, PumpSet DEF Side
    <3> QED BY <2>1, <2>2, <3>1
  <2> QED BY <1>1, <2>1, <2>2
<1>7. ASSUME NEW s \in Side, NEW c \in Conn, Drains(s, c) \/ WriterEnds(s, c)
      PROVE  UNCHANGED <<id, opening, pump>>
  BY <1>7 DEF Drains, Receives, Writes, WriteFails, Drained, WriterEnds
<1>8. ASSUME NEW kept, Reconnect(kept) PROVE Accepted' = Accepted /\ id' = id
  <2>1. CASE opening = None
    BY <1>1, <1>8, <2>1 DEF Reconnect
  <2>2. CASE opening # None
    <3>1. /\ opening \in Conn /\ opening' = None /\ id' = id /\ opening' \notin Conn
          /\ pump' = [pump EXCEPT !["client"][opening] = "done"]
      BY <1>8, <2>2, MuxAssumption DEF Reconnect
    <3> QED BY <3>1 DEF Accepted, Side
  <2> QED BY <2>1, <2>2
<1>9. CASE UNCHANGED vars
  BY <1>2, <1>9 DEF vars
<1> QED BY <1>2, <1>3, <1>4, <1>5, <1>6, <1>7, <1>8, <1>9 DEF ReconnectNext, Next

LEMMA Taking ==
    ASSUME TypeOK, StartedInv, NEW c \in Conn, Accept(c)
    PROVE  /\ c \notin Accepted /\ Accepted' = Accepted \cup {c} /\ next' = next + 1
           /\ \A d \in Conn : id'[d] = IF d = c THEN next ELSE id[d]
           /\ Cardinality(Accepted') = Cardinality(Accepted) + 1
<1>1. c \notin Accepted
  BY MuxAssumption DEF Accept, Accepted
<1>2. Accepted' = Accepted \cup {c}
  BY MuxAssumption DEF Accept, Accepted
<1> QED BY <1>1, <1>2, NextId DEF Accept, StartedInv, TypeOK

LEMMA AcceptedGrows ==
    ASSUME TypeOK, StartedInv, [ReconnectNext]_vars
    PROVE  /\ Accepted \subseteq Accepted' /\ \A c \in Accepted : id'[c] = id[c]
           /\ Accepted \subseteq Conn
<1>1. CASE ~\E c \in Conn : Accept(c)
  BY <1>1, OnceAccepted DEF Accepted
<1>2. ASSUME NEW c \in Conn, Accept(c)
      PROVE  Accepted \subseteq Accepted' /\ \A d \in Accepted : id'[d] = id[d]
  BY <1>2, Taking DEF Accepted
<1> QED BY <1>1, <1>2 DEF Accepted

-----------------------------------------------------------------------------
(* Reconnects: the streams *)

LEMMA ReconnectTypes ==
    ASSUME TypeOK, StartedInv, LineInv, [ReconnectNext]_vars PROVE TypeOK'
<1>1. CASE [Next]_vars
  BY <1>1, TypeStep
<1>2. ASSUME NEW kept \in 0 .. Len(wire["host"]), Reconnect(kept) PROVE TypeOK'
  <2>1. wire["host"] \in Seq(Frame)
    BY DEF TypeOK, Side
  <2>2. wire' \in [Side -> Seq(Frame)]
    <3>1. SubSeq(wire["host"], 1, kept) \in Seq(Frame)
      BY <2>1, PrefixOf
    <3>2. wire' = [wire EXCEPT !["client"] = <<>>, !["host"] = SubSeq(wire["host"], 1, kept)]
      BY <1>2 DEF Reconnect
    <3>3. <<>> \in Seq(Frame) /\ "client" # "host"
      OBVIOUS
    <3>4. /\ wire'["client"] = <<>> /\ wire'["host"] = SubSeq(wire["host"], 1, kept)
          /\ wire' = [t \in Side |-> wire'[t]]
      BY <3>2, <3>3 DEF TypeOK, Side
    <3>5. \A t \in Side : wire'[t] \in Seq(Frame)
      BY <3>1, <3>3, <3>4 DEF Side
    <3> QED BY <3>4, <3>5
  <2>3. pump' \in [Side -> [Conn -> PumpStage]]
    <3>1. CASE opening = None
      BY <1>2, <3>1 DEF Reconnect, TypeOK
    <3>2. CASE opening # None
      <4>1. opening \in Conn /\ pump' = [pump EXCEPT !["client"][opening] = "done"]
        BY <1>2, <3>2 DEF Reconnect, TypeOK
      <4> QED BY <4>1, Set2 DEF TypeOK, PumpStage, Side
    <3> QED BY <3>1, <3>2
  <2>4. epoch' \in 1 .. MaxEpoch /\ next' \in 1 .. Cardinality(Conn) + 1
    BY <1>2, MuxAssumption, FS_CardinalityType DEF Reconnect, TypeOK
  <2>5. opening' = None /\ UNCHANGED <<id, born, mapped, held, writer, dataVars>>
    BY <1>2 DEF Reconnect
  <2> QED BY <2>2, <2>3, <2>4, <2>5 DEF TypeOK, dataVars
<1> QED BY <1>1, <1>2 DEF ReconnectNext

LEMMA SameStream ==
    ASSUME NEW t \in Side, NEW d \in Conn, StreamOK(t, d), Accepted \subseteq Accepted',
           pump'[t][d] = pump[t][d] \/ (pump[t][d] # "none" /\ pump'[t][d] # "none"),
           writer'[t][d] = writer[t][d],
           sent'[t][d] = sent[t][d] \/ pump[t][d] # "none", got'[t][d] = got[t][d],
           chan'[t][d] = chan[t][d] \/ (pump[t][d] # "none" /\ chan'[t][d] # <<>>),
           d \in mapped'[t] => d \in mapped[t]
    PROVE  StreamOK(t, d)'
  BY DEF StreamOK

LEMMA StartedStart == Init => StartedInv /\ LineInv /\ PastInv /\ HeldInv
<1> SUFFICES ASSUME Init PROVE StartedInv /\ LineInv /\ PastInv /\ HeldInv
    OBVIOUS
<1>1. StartedInv /\ LineInv
  BY MuxStart, InvStarted
<1>2. PastInv
  <2>1. \A s \in Side, c \in Conn : got[s][c] = <<>> /\ chan[s][c] = <<>>
    BY DEF Init
  <2>2. DOMAIN <<>> = {} /\ Range(<<>>) = {}
    BY DEF Range
  <2> QED BY <2>1, <2>2 DEF PastInv, Taken, InOrder
<1> QED BY <1>1, <1>2 DEF Init, HeldInv

\* A stream that starts is new, and its connection accepted.
LEMMA StartedStream ==
    ASSUME TypeOK, StartedInv, NEW s \in Side, NEW c \in Accepted', c \in Conn, Start(s, c),
           pump[s][c] = "none", UNCHANGED dataVars, Accepted \subseteq Accepted'
    PROVE  \A t \in Side, d \in Conn : StreamOK(t, d)'
<1>1. \A t \in Side, d \in Conn :
          /\ pump'[t][d] = IF t = s /\ d = c THEN "reading" ELSE pump[t][d]
          /\ writer'[t][d] = IF t = s /\ d = c THEN "draining" ELSE writer[t][d]
          /\ d \in mapped'[t] <=> d \in mapped[t] \/ (t = s /\ d = c)
  BY DEF Start, TypeOK
<1>2. got' = got /\ chan' = chan /\ sent' = sent /\ \A t \in Side, d \in Conn : StreamOK(t, d)
  BY DEF dataVars, StartedInv
<1>3. ASSUME NEW t \in Side, NEW d \in Conn, ~(t = s /\ d = c) PROVE StreamOK(t, d)'
  BY <1>1, <1>2, <1>3, SameStream
<1>4. StreamOK(s, c)'
  BY <1>1, <1>2 DEF StreamOK
<1> QED BY <1>3, <1>4

LEMMA StreamsStep ==
    ASSUME TypeOK, StartedInv, LineInv, [ReconnectNext]_vars
    PROVE  \A s \in Side, c \in Conn : StreamOK(s, c)'
<1> DEFINE Goal == \A s \in Side, c \in Conn : StreamOK(s, c)'
<1> SUFFICES Goal
    OBVIOUS
<1>0. Accepted \subseteq Accepted' /\ \A s \in Side, c \in Conn : StreamOK(s, c)
  BY AcceptedGrows DEF StartedInv
<1>1. ASSUME \A t \in Side, d \in Conn :
                /\ pump'[t][d] = pump[t][d] \/ (pump[t][d] # "none" /\ pump'[t][d] # "none")
                /\ sent'[t][d] = sent[t][d] \/ pump[t][d] # "none"
                /\ d \in mapped'[t] => d \in mapped[t],
             UNCHANGED <<writer, got, chan>>
      PROVE  Goal
  BY <1>0, <1>1, SameStream
<1>2. ASSUME UNCHANGED <<pump, writer, sent, got, chan>>,
             \A t \in Side, d \in Conn : d \in mapped'[t] => d \in mapped[t]
      PROVE  Goal
  BY <1>1, <1>2
<1>3. CASE UNCHANGED vars
  BY <1>2, <1>3 DEF vars, dataVars
<1>4. ASSUME NEW c \in Conn, Accept(c) PROVE Goal
  BY <1>2, <1>4 DEF Accept, dataVars
<1>5. CASE Register
  <2>1. /\ opening \in Conn /\ opening \in Accepted /\ "client" \in Side
        /\ Start("client", opening) /\ UNCHANGED dataVars /\ pump["client"][opening] = "none"
    BY <1>5 DEF Register, TypeOK, StartedInv, Accepted, Side
  <2> QED BY <1>0, <2>1, StartedStream
<1>6. CASE HostOpens
  <2>1. PICK refused \in BOOLEAN : HostOpen(refused)
    BY <1>6 DEF HostOpens
  <2>2. PICK c \in Conn : c = Head(wire["host"]).conn
    BY <2>1, HeadFrame DEF HostOpen, Arrives, Side
  <2>3. Head(wire["host"]).kind = "OPEN" /\ Head(wire["host"]) \in Range(wire["host"])
    BY <2>1, HeadFrame DEF HostOpen, Arrives, Side
  <2>4. c \in Accepted /\ pump["host"][c] = "none" /\ "host" \in Side
    BY <2>2, <2>3 DEF LineInv, OnLine, Side
  <2>5. UNCHANGED dataVars /\ (UNCHANGED <<mapped, pump, writer>> \/ Start("host", c))
    BY <2>1, <2>2 DEF HostOpen
  <2>6. CASE UNCHANGED <<mapped, pump, writer>>
    BY <1>2, <2>5, <2>6 DEF dataVars
  <2>7. CASE Start("host", c)
    BY <1>0, <2>4, <2>5, <2>7, StartedStream
  <2> QED BY <2>5, <2>6, <2>7
<1>7. ASSUME NEW s \in Side, DataDropped(s) \/ DataWaits(s) \/ CloseArrives(s) PROVE Goal
  <2>1. \A t \in Side, d \in Conn : d \in mapped'[t] => d \in mapped[t]
    BY <1>7 DEF DataDropped, DataWaits, CloseArrives, TypeOK
  <2> QED BY <1>2, <1>7, <2>1 DEF DataDropped, DataWaits, CloseArrives, dataVars
<1>8. ASSUME NEW s \in Side, DataTaken(s) PROVE Goal
  <2>1. wire[s] # <<>> /\ Head(wire[s]).chunk \in Chunk
    BY <1>8, HeadFrame DEF DataTaken, Arrives
  <2>2. PICK c \in Lookup(s, Head(wire[s]).conn) :
            chan' = [chan EXCEPT ![s][c] = Append(@, Head(wire[s]).chunk)]
    BY <1>8 DEF DataTaken
  <2>3. c \in Conn /\ c \in mapped[s] /\ pump[s][c] # "none"
    BY <1>0, <2>1, <2>2, HeadFrame DEF StreamOK
  <2>4. \A t \in Side, d \in Conn :
            chan'[t][d] = IF t = s /\ d = c THEN Append(chan[s][c], Head(wire[s]).chunk)
                                            ELSE chan[t][d]
    BY <2>2, <2>3 DEF TypeOK
  <2>5. Append(chan[s][c], Head(wire[s]).chunk) # <<>>
    <3>1. chan[s][c] \in Seq(Chunk)
      BY <2>3 DEF TypeOK
    <3>2. Append(chan[s][c], Head(wire[s]).chunk) \in Seq(Chunk)
          /\ Len(Append(chan[s][c], Head(wire[s]).chunk)) = Len(chan[s][c]) + 1
          /\ Len(chan[s][c]) \in Nat
      BY <2>1, <3>1, AppendOf
    <3> QED BY <3>2
  <2>6. UNCHANGED <<mapped, pump, writer, sent, got>>
    BY <1>8 DEF DataTaken
  <2> QED BY <1>0, <2>3, <2>4, <2>5, <2>6, SameStream
<1>9. ASSUME NEW s \in Side, NEW c \in Conn, Sends(s, c) PROVE Goal
  <2>1. pump[s][c] = "reading" /\ UNCHANGED <<mapped, writer, chan, got>>
    BY <1>9 DEF Sends
  <2>2. /\ pump' = pump \/ pump' = [pump EXCEPT ![s][c] = "closing"]
        /\ sent' = sent \/ sent' = [sent EXCEPT ![s][c] = @ + 1]
    BY <1>9 DEF Sends
  <2>3. \A t \in Side, d \in Conn : pump'[t][d] = pump[t][d] \/ (t = s /\ d = c /\ pump'[t][d] = "closing")
    <3>1. ASSUME pump' = [pump EXCEPT ![s][c] = "closing"]
          PROVE  \A t \in Side, d \in Conn :
                     pump'[t][d] = pump[t][d] \/ (t = s /\ d = c /\ pump'[t][d] = "closing")
      BY <3>1, PumpSet
    <3> QED BY <2>2, <3>1
  <2>4. \A t \in Side, d \in Conn : sent'[t][d] = sent[t][d] \/ (t = s /\ d = c)
    <3>1. sent \in [Side -> [Conn -> Nat]] /\ (sent' = sent \/ \E v : sent' = [sent EXCEPT ![s][c] = v])
      BY <2>2 DEF TypeOK
    <3> QED BY <3>1, Elsewhere
  <2> QED BY <1>1, <2>1, <2>3, <2>4
<1>10. ASSUME NEW s \in Side, NEW c \in Conn, Ends(s, c) \/ PumpEnds(s, c) PROVE Goal
  <2>1. pump[s][c] # "none" /\ UNCHANGED <<writer, chan, got, sent>>
    BY <1>10 DEF Ends, PumpEnds, dataVars
  <2>2. PICK v \in {"closing", "done"} : pump' = [pump EXCEPT ![s][c] = v]
    BY <1>10 DEF Ends, PumpEnds
  <2>3. \A t \in Side, d \in Conn : pump'[t][d] = IF t = s /\ d = c THEN v ELSE pump[t][d]
    BY <2>2 DEF TypeOK
  <2>4. mapped' = mapped \/ mapped' = Removed(s, c)
    BY <1>10 DEF Ends, PumpEnds
  <2>5. \A t \in Side, d \in Conn : d \in mapped'[t] => d \in mapped[t]
    BY <2>4 DEF Removed, TypeOK
  <2> QED BY <1>1, <2>1, <2>3, <2>5
<1>11. ASSUME NEW s \in Side, NEW c \in Conn, Drains(s, c) \/ WriterEnds(s, c) PROVE Goal
  <2>0. /\ writer[s][c] # "none" /\ pump' = pump /\ sent' = sent
        /\ mapped' = mapped \/ mapped' = Removed(s, c)
        /\ \E v : writer' = [writer EXCEPT ![s][c] = v]
        /\ chan' = chan \/ \E v : chan' = [chan EXCEPT ![s][c] = v]
        /\ got' = got \/ \E v : got' = [got EXCEPT ![s][c] = v]
    BY <1>11 DEF Drains, Receives, Writes, WriteFails, Drained, WriterEnds, dataVars
  <2>1. /\ writer[s][c] # "none" /\ pump' = pump /\ sent' = sent
        /\ \A t \in Side, d \in Conn : d \in mapped'[t] => d \in mapped[t]
    <3>1. mapped' = Removed(s, c) => \A t \in Side, d \in Conn : d \in mapped'[t] => d \in mapped[t]
      BY DEF Removed, TypeOK
    <3> QED BY <2>0, <3>1
  <2>2. \A t \in Side, d \in Conn : ~(t = s /\ d = c) =>
            writer'[t][d] = writer[t][d] /\ chan'[t][d] = chan[t][d] /\ got'[t][d] = got[t][d]
    <3>1. /\ writer \in [Side -> [Conn -> WriterStage]]
          /\ chan \in [Side -> [Conn -> Seq(Chunk)]] /\ got \in [Side -> [Conn -> Seq(Chunk)]]
      BY DEF TypeOK
    <3>2. \A t \in Side, d \in Conn : ~(t = s /\ d = c) => writer'[t][d] = writer[t][d]
      BY <2>0, <3>1, Elsewhere
    <3>3. \A t \in Side, d \in Conn : ~(t = s /\ d = c) => chan'[t][d] = chan[t][d]
      BY <2>0, <3>1, Elsewhere
    <3>4. \A t \in Side, d \in Conn : ~(t = s /\ d = c) => got'[t][d] = got[t][d]
      BY <2>0, <3>1, Elsewhere
    <3> QED BY <3>2, <3>3, <3>4
  <2>3. \A t \in Side, d \in Conn : ~(t = s /\ d = c) => StreamOK(t, d)'
    BY <1>0, <2>1, <2>2, SameStream
  <2>4. pump[s][c] # "none" /\ c \in Accepted
    BY <1>0, <2>1 DEF StreamOK
  <2>5. /\ writer'[s][c] = "writing" => chan'[s][c] # <<>>
        /\ c \in mapped'[s] => writer'[s][c] \in {"draining", "writing", "broken"}
    <3>1. CASE Receives(s, c) \/ Writes(s, c) \/ WriteFails(s, c)
      <4>1. writer'[s][c] \in {"draining", "writing", "broken"}
            /\ (writer'[s][c] = "writing" => Receives(s, c))
        BY <3>1 DEF Receives, Writes, WriteFails, TypeOK
      <4> QED BY <4>1 DEF Receives, dataVars
    <3>2. CASE Drained(s, c)
      BY <3>2 DEF Drained, TypeOK
    <3>3. CASE WriterEnds(s, c)
      <4>1. c \notin mapped'[s] /\ writer'[s][c] = "done"
        BY <3>3 DEF WriterEnds, Removed, SameEntry, TypeOK
      <4> QED BY <4>1
    <3> QED BY <1>11, <3>1, <3>2, <3>3 DEF Drains
  <2>6. StreamOK(s, c)'
    BY <1>0, <2>1, <2>4, <2>5 DEF StreamOK
  <2> QED BY <2>3, <2>6
<1>12. ASSUME NEW kept, Reconnect(kept) PROVE Goal
  <2>1. /\ UNCHANGED <<mapped, writer, sent, got, chan>>
        /\ \A t \in Side, d \in Conn : ~(t = "client" /\ d = opening) => pump'[t][d] = pump[t][d]
    BY <1>12 DEF Reconnect, TypeOK, dataVars
  <2>2. ASSUME NEW c \in Conn, c = opening PROVE StreamOK("client", c)'
    <3>1. pump'["client"][c] = "done" /\ pump["client"][c] = "none" /\ "client" \in Side
      BY <1>12, <2>2, MuxAssumption DEF Reconnect, TypeOK, StartedInv, Side
    <3>2. c \in Accepted' /\ StreamOK("client", c)
      BY <1>0, <2>2, <3>1 DEF Accepted
    <3> QED BY <2>1, <3>1, <3>2 DEF StreamOK
  <2> QED BY <1>0, <2>1, <2>2, SameStream
<1> QED
  BY <1>3, <1>4, <1>5, <1>6, <1>7, <1>8, <1>9, <1>10, <1>11, <1>12
  DEF ReconnectNext, Next, ReadFrame

LEMMA StartedStep ==
    ASSUME TypeOK, StartedInv, LineInv, [ReconnectNext]_vars PROVE StartedInv'
<1>1. IsFiniteSet(Accepted) /\ Cardinality(Accepted) \in Nat
  BY MuxAssumption, FS_Subset, FS_CardinalityType DEF Accepted
<1>2. next' <= Cardinality(Accepted') + 1
  <2>1. ASSUME NEW c \in Conn, Accept(c) PROVE next' <= Cardinality(Accepted') + 1
    <3>1. next' = next + 1 /\ Cardinality(Accepted') = Cardinality(Accepted) + 1
      BY <2>1, Taking
    <3>2. next \in Nat /\ next <= Cardinality(Accepted) + 1
      BY DEF TypeOK, StartedInv
    <3> QED BY <1>1, <3>1, <3>2
  <2>2. CASE ~\E c \in Conn : Accept(c)
    <3>1. next' = next \/ next' = 1
      BY <2>2 DEF ReconnectNext, Next, Reconnect, Register, HostOpens, HostOpen, ReadFrame,
                  DataDropped, DataWaits, DataTaken, CloseArrives, Sends, Ends, PumpEnds, Drains,
                  Receives, Writes, WriteFails, Drained, WriterEnds, linkVars, vars
    <3>2. Accepted' = Accepted
      BY <2>2, OnceAccepted
    <3> QED BY <1>1, <3>1, <3>2 DEF StartedInv
  <2> QED BY <2>1, <2>2
<1>3. opening' # None => pump'["client"][opening'] = "none"
  <2>1. CASE opening' = None
    BY <2>1
  <2>2. ASSUME NEW c \in Conn, Accept(c) PROVE pump'["client"][opening'] = "none"
    BY <2>2 DEF Accept
  <2>3. CASE opening' = opening /\ pump'["client"][opening] = pump["client"][opening]
    BY <2>3 DEF StartedInv
  <2>4. ASSUME NEW c \in Conn, NEW s \in Side, pump[s][c] # "none", opening' = opening, opening # None,
               \E v : pump' = [pump EXCEPT ![s][c] = v]
        PROVE  pump'["client"][opening] = pump["client"][opening]
    BY <2>4 DEF StartedInv, TypeOK, Side
  <2>5. CASE HostOpens
    BY <2>3, <2>5 DEF HostOpens, HostOpen, Start, linkVars, TypeOK, Side
  <2>6. ASSUME NEW s \in Side, NEW c \in Conn, Sends(s, c) \/ Ends(s, c) \/ PumpEnds(s, c),
               opening # None
        PROVE  opening' = opening /\ pump'["client"][opening] = pump["client"][opening]
    <3>1. /\ opening' = opening /\ pump[s][c] # "none"
          /\ pump' = pump \/ \E v : pump' = [pump EXCEPT ![s][c] = v]
      BY <2>6 DEF Sends, Ends, PumpEnds, linkVars
    <3> QED BY <2>4, <2>6, <3>1
  <2>7. ASSUME NEW s \in Side, ReadFrame(s) PROVE opening' = opening /\ pump' = pump
    BY <2>7 DEF ReadFrame, DataDropped, DataWaits, DataTaken, CloseArrives, linkVars
  <2>8. ASSUME NEW s \in Side, NEW c \in Conn, Drains(s, c) \/ WriterEnds(s, c)
        PROVE  opening' = opening /\ pump' = pump
    BY <2>8 DEF Drains, Receives, Writes, WriteFails, Drained, WriterEnds, linkVars
  <2>9. CASE UNCHANGED vars
    BY <2>3, <2>9 DEF vars, linkVars
  <2>10. CASE Register \/ \E kept : Reconnect(kept)
    BY <2>1, <2>10 DEF Register, Reconnect
  <2>11. CASE \E c \in Conn : Accept(c)
    BY <2>2, <2>11
  <2>12. CASE \E s \in Side : \/ ReadFrame(s)
                             \/ \E c \in Conn : \/ Sends(s, c) \/ Ends(s, c) \/ PumpEnds(s, c)
                                                \/ Drains(s, c) \/ WriterEnds(s, c)
    <3>1. opening # None => opening' = opening /\ pump'["client"][opening] = pump["client"][opening]
      BY <2>6, <2>7, <2>8, <2>12
    <3>2. opening' = opening
      BY <2>12 DEF ReadFrame, DataDropped, DataWaits, DataTaken, CloseArrives, Sends, Ends, PumpEnds,
                   Drains, Receives, Writes, WriteFails, Drained, WriterEnds, linkVars
    <3> QED BY <3>1, <3>2 DEF StartedInv
  <2> QED BY <2>5, <2>9, <2>10, <2>11, <2>12 DEF ReconnectNext, Next
<1> QED BY <1>2, <1>3, StreamsStep DEF StartedInv

-----------------------------------------------------------------------------
(* Reconnects: the wires *)

Step == TypeOK /\ StartedInv /\ LineInv /\ [ReconnectNext]_vars

LineOK(s) == Rising(wire[s]) /\ \A f \in Range(wire[s]) : OnLine(s, f)

\* A frame that stays on a wire stays right.
LEMMA OnLineKept ==
    ASSUME Step, NEW s \in Side, NEW f \in Range(wire[s]),
           f.kind = "OPEN" => pump'["host"][f.conn] = "none"
    PROVE  OnLine(s, f)'
<1>1. OnLine(s, f) /\ f.conn \in Conn /\ Peer(s) \in Side
      /\ (f.kind = "DATA" => f.chunk[2] \in Nat)
  BY WireFrames, Peers DEF Step, LineInv
<1>2. /\ Accepted \subseteq Accepted' /\ sent[Peer(s)][f.conn] \in Nat
      /\ sent'[Peer(s)][f.conn] \in Nat /\ sent[Peer(s)][f.conn] <= sent'[Peer(s)][f.conn]
  BY <1>1, AcceptedGrows, PumpsGoOn DEF Step
<1>3. f.kind = "DATA" => f.chunk[2] <= sent'[Peer(s)][f.conn]
  BY <1>1, <1>2 DEF OnLine
<1> QED BY <1>1, <1>2, <1>3 DEF OnLine

LEMMA LineSame ==
    ASSUME Step, NEW s \in Side, wire'[s] = wire[s],
           \A f \in Range(wire[s]) : f.kind = "OPEN" => pump'["host"][f.conn] = "none"
    PROVE  LineOK(s)'
  BY OnLineKept DEF Step, LineInv, LineOK

LEMMA LineTail ==
    ASSUME Step, NEW s \in Side, wire[s] # <<>>, wire'[s] = Tail(wire[s]),
           \A f \in Range(Tail(wire[s])) : f.kind = "OPEN" => pump'["host"][f.conn] = "none"
    PROVE  LineOK(s)'
<1>1. wire[s] \in Seq(Frame) /\ Rising(wire[s])
  BY DEF Step, TypeOK, LineInv
<1>2. Rising(Tail(wire[s])) /\ Range(Tail(wire[s])) \subseteq Range(wire[s])
  BY <1>1, RisingTail, RangeTail
<1> QED BY <1>2, OnLineKept DEF LineOK

LEMMA LineAppend ==
    ASSUME Step, NEW s \in Side, NEW x \in Frame, wire'[s] = Append(wire[s], x), OnLine(s, x)',
           \A f \in Range(wire[s]) :
              /\ f.kind = "OPEN" => pump'["host"][f.conn] = "none"
              /\ f.conn = x.conn =>
                    /\ x.kind # "OPEN"
                    /\ x.kind = "DATA" /\ f.kind = "DATA" => f.chunk[2] < x.chunk[2]
    PROVE  LineOK(s)'
<1>1. wire[s] \in Seq(Frame) /\ Rising(wire[s])
  BY DEF Step, TypeOK, LineInv
<1>2. Rising(Append(wire[s], x)) /\ Range(Append(wire[s], x)) = Range(wire[s]) \cup {x}
  BY <1>1, RisingAppend, RangeAppend
<1>3. \A f \in Range(wire[s]) : OnLine(s, f)'
  BY OnLineKept
<1> QED BY <1>2, <1>3 DEF LineOK

\* Only an OPEN starts a stream at the host.
LEMMA HostStarts ==
    ASSUME Step, NEW c \in Conn, pump["host"][c] = "none",
           HostOpens => c # Head(wire["host"]).conn
    PROVE  pump'["host"][c] = "none"
<1> USE DEF Step, TypeOK
<1> DEFINE Goal == pump'["host"][c] = "none"
<1>0. "host" \in Side /\ "client" \in Side /\ "host" # "client"
  BY DEF Side
<1>1. CASE pump' = pump
  BY <1>1
<1>2. ASSUME NEW s \in Side, NEW d \in Conn, NEW v, s # "host" \/ d # c,
             pump' = [pump EXCEPT ![s][d] = v]
      PROVE  Goal
  BY <1>0, <1>2
<1>3. CASE Register
  <2>1. opening \in Conn /\ pump' = [pump EXCEPT !["client"][opening] = "reading"]
    BY <1>3 DEF Register, Start
  <2> QED BY <1>0, <1>2, <2>1
<1>4. CASE HostOpens
  <2>1. PICK refused \in BOOLEAN : HostOpen(refused)
    BY <1>4 DEF HostOpens
  <2>2. wire["host"] # <<>> /\ Head(wire["host"]).conn \in Conn
    BY <1>0, <2>1, HeadFrame DEF HostOpen, Arrives
  <2>3. PICK d \in Conn : d = Head(wire["host"]).conn
    BY <2>2
  <2>4. d # c /\ (pump' = pump \/ pump' = [pump EXCEPT !["host"][d] = "reading"])
    BY <1>4, <2>1, <2>3 DEF HostOpen, Start
  <2>5. CASE pump' = [pump EXCEPT !["host"][d] = "reading"]
    BY <1>0, <1>2, <2>4, <2>5
  <2> QED BY <1>1, <2>4, <2>5
<1>5. ASSUME NEW s \in Side, ReadFrame(s) PROVE Goal
  BY <1>1, <1>5 DEF ReadFrame, DataDropped, DataWaits, DataTaken, CloseArrives
<1>6. ASSUME NEW s \in Side, NEW d \in Conn, Sends(s, d) \/ Ends(s, d) \/ PumpEnds(s, d) PROVE Goal
  <2>1. pump' = pump \/ (pump[s][d] # "none" /\ \E v : pump' = [pump EXCEPT ![s][d] = v])
    BY <1>6 DEF Sends, Ends, PumpEnds
  <2>2. ASSUME NEW v, pump[s][d] # "none", pump' = [pump EXCEPT ![s][d] = v] PROVE Goal
    <3>1. s # "host" \/ d # c
      BY <2>2
    <3> QED BY <1>2, <2>2, <3>1
  <2> QED BY <1>1, <2>1, <2>2
<1>7. ASSUME NEW s \in Side, NEW d \in Conn, Drains(s, d) \/ WriterEnds(s, d) PROVE Goal
  BY <1>1, <1>7 DEF Drains, Receives, Writes, WriteFails, Drained, WriterEnds
<1>8. ASSUME NEW d \in Conn, Accept(d) PROVE Goal
  BY <1>1, <1>8 DEF Accept
<1>9. ASSUME NEW kept, Reconnect(kept) PROVE Goal
  <2>1. pump' = pump \/ (opening \in Conn /\ pump' = [pump EXCEPT !["client"][opening] = "done"])
    BY <1>9 DEF Reconnect
  <2> QED BY <1>0, <1>1, <1>2, <2>1
<1>10. CASE UNCHANGED vars
  BY <1>1, <1>10 DEF vars
<1> QED BY <1>3, <1>4, <1>5, <1>6, <1>7, <1>8, <1>9, <1>10 DEF ReconnectNext, Next

\* OPEN frames, unless a step takes one.
LEMMA OpensKept ==
    ASSUME Step, ~HostOpens, NEW s \in Side
    PROVE  \A f \in Range(wire[s]) : f.kind = "OPEN" => pump'["host"][f.conn] = "none"
  BY HostStarts, WireFrames DEF Step, LineInv, OnLine

LEMMA LineStep == ASSUME Step PROVE LineInv'
<1> DEFINE Goal == \A s \in Side : LineOK(s)'
<1> SUFFICES Goal
    BY DEF LineInv, LineOK
<1>0. /\ \A s \in Side : LineOK(s) /\ wire[s] \in Seq(Frame) /\ Peer(s) \in Side
      /\ \A s, t \in Side : t = s \/ t = Peer(s)
      /\ Accepted \subseteq Accepted' /\ "host" \in Side /\ "client" \in Side
  BY Peers, Sides, AcceptedGrows DEF Step, LineInv, LineOK, TypeOK, Side
<1>1. CASE HostOpens
  <2>1. PICK refused \in BOOLEAN : HostOpen(refused)
    BY <1>1 DEF HostOpens
  <2>2. /\ wire["host"] # <<>> /\ Head(wire["host"]).conn \in Conn
        /\ Head(wire["host"]) \in Range(wire["host"]) /\ Head(wire["host"]).kind = "OPEN"
    BY <1>0, <2>1, HeadFrame DEF HostOpen, Arrives, Step
  <2>3. PICK c \in Conn : c = Head(wire["host"]).conn
    BY <2>2
  <2>4. c \in Accepted /\ c \in Accepted'
    BY <1>0, <2>2, <2>3 DEF LineOK, OnLine
  <2>5. /\ wire'["host"] = Tail(wire["host"])
        /\ \/ wire'["client"] = wire["client"]
           \/ wire'["client"] = wire["client"] \o <<ErrorFrame(c), CloseFrame(c)>>
    BY <1>0, <2>1, <2>3 DEF HostOpen, Consume, Step, TypeOK
  <2>6. LineOK("host")'
    <3>1. ASSUME NEW f \in Range(Tail(wire["host"])), f.kind = "OPEN"
          PROVE  pump'["host"][f.conn] = "none"
      <4>1. f \in Range(wire["host"]) /\ f.conn # Head(wire["host"]).conn
        BY <1>0, <2>2, <3>1, RangeTail, RisingTail DEF LineOK
      <4>2. f.conn \in Conn /\ pump["host"][f.conn] = "none"
        BY <1>0, <3>1, <4>1, WireFrames DEF LineOK, OnLine, Step
      <4> QED BY <4>1, <4>2, HostStarts
    <3> QED BY <1>0, <2>2, <2>5, <3>1, LineTail
  <2>7. \A f \in Range(wire["client"]) : f.kind # "OPEN"
    BY <1>0 DEF LineOK, OnLine
  <2>8. LineOK("client")'
    <3>1. CASE wire'["client"] = wire["client"]
      BY <1>0, <2>7, <3>1, LineSame
    <3>2. CASE wire'["client"] = wire["client"] \o <<ErrorFrame(c), CloseFrame(c)>>
      <4> DEFINE e == Append(wire["client"], ErrorFrame(c))
                 w == Append(e, CloseFrame(c))
      <4>1. wire["client"] \o <<ErrorFrame(c), CloseFrame(c)>> = w
        <5>1. \A u \in Seq(Frame), a, b \in Frame : u \o <<a, b>> = Append(Append(u, a), b)
          OBVIOUS
        <5> QED BY <1>0, <5>1, FrameTypes
      <4>2. e \in Seq(Frame) /\ Range(e) = Range(wire["client"]) \cup {ErrorFrame(c)}
        BY <1>0, FrameTypes, AppendOf, RangeAppend
      <4>3. Rising(e)
        BY <1>0, FrameTypes, RisingAppend DEF LineOK
      <4> HIDE DEF e
      <4>4. Rising(w) /\ Range(w) = Range(e) \cup {CloseFrame(c)}
        BY <4>2, <4>3, FrameTypes, RisingAppend, RangeAppend
      <4>5. OnLine("client", ErrorFrame(c))' /\ OnLine("client", CloseFrame(c))'
        BY <2>4, FrameTypes DEF OnLine
      <4>6. \A f \in Range(wire["client"]) : OnLine("client", f)'
        BY <1>0, <2>7, OnLineKept
      <4> HIDE DEF w
      <4> QED BY <3>2, <4>1, <4>2, <4>4, <4>5, <4>6 DEF LineOK
    <3> QED BY <2>5, <3>1, <3>2
  <2> QED BY <2>6, <2>8 DEF Side
<1>2. ASSUME ~HostOpens, wire' = wire PROVE Goal
  BY <1>2, LineSame, OpensKept
<1>3. ASSUME ~HostOpens, NEW s \in Side, NEW x \in Frame, OnLine(s, x)',
             wire' = [wire EXCEPT ![s] = Append(@, x)],
             \A f \in Range(wire[s]) : f.conn = x.conn =>
                 /\ x.kind # "OPEN"
                 /\ x.kind = "DATA" /\ f.kind = "DATA" => f.chunk[2] < x.chunk[2]
      PROVE  Goal
  <2>1. wire'[s] = Append(wire[s], x) /\ \A t \in Side : t # s => wire'[t] = wire[t]
    BY <1>3 DEF Step, TypeOK
  <2>2. LineOK(s)'
    BY <1>3, <2>1, OpensKept, LineAppend
  <2>3. ASSUME NEW t \in Side, t # s PROVE LineOK(t)'
    BY <1>3, <2>1, <2>3, OpensKept, LineSame
  <2> QED BY <2>2, <2>3
<1>4. ASSUME ~HostOpens, NEW s \in Side, wire[s] # <<>>, Consume(s) PROVE Goal
  <2>1. wire'[s] = Tail(wire[s]) /\ \A t \in Side : t # s => wire'[t] = wire[t]
    BY <1>4 DEF Consume, Step, TypeOK
  <2>2. LineOK(s)'
    BY <1>0, <1>4, <2>1, OpensKept, RangeTail, LineTail
  <2>3. ASSUME NEW t \in Side, t # s PROVE LineOK(t)'
    BY <1>4, <2>1, <2>3, OpensKept, LineSame
  <2> QED BY <2>2, <2>3
<1>5. ASSUME ~HostOpens, NEW c \in Conn, Accept(c) PROVE Goal
  <2>1. c \notin Accepted /\ c \in Accepted'
    BY <1>5, Taking DEF Step
  <2>2. pump' = pump /\ pump["host"][c] = "none"
    BY <1>0, <1>5, <2>1 DEF Accept, Step, StartedInv, StreamOK
  <2>3. OnLine("host", OpenFrame(c))'
    BY <2>1, <2>2, FrameTypes DEF OnLine
  <2>4. \A f \in Range(wire["host"]) : f.conn # c
    BY <1>0, <2>1 DEF LineOK, OnLine
  <2>5. wire' = [wire EXCEPT !["host"] = Append(@, OpenFrame(c))]
    BY <1>5 DEF Accept
  <2>6. OpenFrame(c) \in Frame /\ OpenFrame(c).kind = "OPEN" /\ OpenFrame(c).conn = c
    BY FrameTypes
  <2>7. \A f \in Range(wire["host"]) : f.conn # OpenFrame(c).conn
    BY <2>4, <2>6
  <2> HIDE DEF Goal
  <2> QED BY <1>0, <1>3, <1>5, <2>3, <2>5, <2>6, <2>7
<1>6. ASSUME ~HostOpens, NEW s \in Side, NEW c \in Conn, Sends(s, c) PROVE Goal
  <2>0. PICK n \in Nat : n = sent[s][c]
    BY DEF Step, TypeOK
  <2>1. n \in Nat /\ n + 1 \in Nat /\ n + 1 # 0 /\ n < n + 1 /\ \A m \in Nat : m <= n => m < n + 1
    OBVIOUS
  <2>2. c \in Accepted'
    BY <1>0, <1>6 DEF Sends, Step, StartedInv, StreamOK
  <2>3. CASE Linked(s, c)
    <3>0. DataFrame(c, n + 1) \in Frame
      BY <2>1, FrameTypes
    <3>7. PICK x \in Frame : x = DataFrame(c, n + 1)
      BY <3>0
    <3>1. wire' = [wire EXCEPT ![Peer(s)] = Append(@, x)] /\ sent'[s][c] = n + 1
      BY <1>6, <2>0, <2>3, <3>7 DEF Sends, Step, TypeOK
    <3>2. x.kind = "DATA" /\ x.conn = c /\ x.chunk = <<c, n + 1>>
      BY <2>1, <3>7, FrameTypes
    <3>3. OnLine(Peer(s), x)'
      <4>1. sent'[Peer(Peer(s))][c] = n + 1 /\ n + 1 <= n + 1
        BY <2>1, <3>1, Peers
      <4>2. x.chunk[1] = c /\ x.chunk[2] = n + 1 /\ x.kind # "OPEN"
        BY <3>2
      <4> QED BY <2>2, <3>2, <4>1, <4>2 DEF OnLine
    <3>4. ASSUME NEW f \in Range(wire[Peer(s)]), f.conn = x.conn, f.kind = "DATA"
          PROVE  f.chunk[2] < x.chunk[2]
      <4>1. OnLine(Peer(s), f) /\ Peer(Peer(s)) = s
        BY <1>0, Peers DEF LineOK
      <4>2. f.chunk[2] \in Nat /\ f.chunk[2] <= n /\ x.chunk[2] = n + 1
        BY <1>0, <3>2, <3>4, <4>1, <2>0, WireFrames DEF OnLine, Step
      <4> QED BY <2>1, <4>2
    <3>5. x.kind # "OPEN"
      BY <3>2
    <3>6. /\ Peer(s) \in Side /\ x \in Frame /\ OnLine(Peer(s), x)'
          /\ wire' = [wire EXCEPT ![Peer(s)] = Append(@, x)]
      BY <1>0, <3>1, <3>2, <3>3
    <3> HIDE DEF Goal
    <3> QED BY <1>3, <1>6, <3>4, <3>5, <3>6
  <2>4. CASE ~Linked(s, c)
    BY <1>2, <1>6, <2>4 DEF Sends
  <2> QED BY <2>3, <2>4
<1>7. ASSUME ~HostOpens, NEW s \in Side, NEW c \in Conn, Ends(s, c) PROVE Goal
  <2>1. c \in Accepted'
    BY <1>0, <1>7 DEF Ends, Step, StartedInv, StreamOK
  <2>2. OnLine(Peer(s), CloseFrame(c))'
    BY <2>1, FrameTypes DEF OnLine
  <2>3. wire' = wire \/ wire' = [wire EXCEPT ![Peer(s)] = Append(@, CloseFrame(c))]
    BY <1>7 DEF Ends
  <2> QED BY <1>0, <1>2, <1>3, <1>7, <2>2, <2>3, FrameTypes
<1>8. ASSUME ~HostOpens, NEW s \in Side, NEW c \in Conn,
             PumpEnds(s, c) \/ Drains(s, c) \/ WriterEnds(s, c)
      PROVE  Goal
  BY <1>2, <1>8 DEF PumpEnds, Drains, Receives, Writes, WriteFails, Drained, WriterEnds
<1>9. ASSUME ~HostOpens, NEW s \in Side, ReadFrame(s) PROVE Goal
  <2>1. wire[s] # <<>> /\ (wire' = wire \/ Consume(s))
    BY <1>9 DEF ReadFrame, DataDropped, DataWaits, DataTaken, CloseArrives, Arrives
  <2> QED BY <1>2, <1>4, <1>9, <2>1
<1>10. ASSUME ~HostOpens, Register \/ UNCHANGED vars PROVE Goal
  BY <1>2, <1>10 DEF Register, vars
<1>11. ASSUME ~HostOpens, NEW kept \in 0 .. Len(wire["host"]), Reconnect(kept) PROVE Goal
  <2>1. wire'["client"] = <<>> /\ wire'["host"] = SubSeq(wire["host"], 1, kept)
    BY <1>0, <1>11 DEF Reconnect, Step, TypeOK
  <2>2. LineOK("client")'
    <3>1. DOMAIN <<>> = {} /\ Range(<<>>) = {}
      BY DEF Range
    <3>2. Range(wire'["client"]) = {} /\ DOMAIN wire'["client"] = {}
      BY ONLY <2>1, <3>1
    <3> QED BY <3>2 DEF LineOK, Rising
  <2>3. LineOK("host")'
    <3>1. Rising(wire'["host"]) /\ Range(wire'["host"]) \subseteq Range(wire["host"])
      BY <1>0, <2>1, RisingPrefix, PrefixOf DEF LineOK
    <3>2. \A f \in Range(wire["host"]) : OnLine("host", f)'
      BY <1>0, <1>11, OpensKept, OnLineKept
    <3> QED BY <3>1, <3>2 DEF LineOK
  <2> QED BY <2>2, <2>3 DEF Side
<1> QED
  BY <1>1, <1>5, <1>6, <1>7, <1>8, <1>9, <1>10, <1>11 DEF Step, ReconnectNext, Next

\* The only data a step puts on a wire is more than was sent.
LEMMA NewData ==
    ASSUME Step
    PROVE  \A s \in Side : \A f \in Range(wire'[s]) :
              f.kind = "DATA" => f \in Range(wire[s]) \/ sent[Peer(s)][f.conn] < f.chunk[2]
<1> DEFINE Goal == \A s \in Side : \A f \in Range(wire'[s]) :
              f.kind = "DATA" => f \in Range(wire[s]) \/ sent[Peer(s)][f.conn] < f.chunk[2]
<1> SUFFICES Goal
    OBVIOUS
<1>0. /\ \A s \in Side : wire[s] \in Seq(Frame) /\ Peer(s) \in Side /\ Peer(Peer(s)) = s
      /\ "host" \in Side /\ "client" \in Side
  BY Peers DEF Step, TypeOK, Side
<1>1. CASE wire' = wire
  BY <1>1
<1>2. ASSUME NEW s \in Side, NEW x \in Frame, wire' = [wire EXCEPT ![s] = Append(@, x)],
             x.kind = "DATA" => sent[Peer(s)][x.conn] < x.chunk[2]
      PROVE  Goal
  <2>1. wire'[s] = Append(wire[s], x) /\ \A t \in Side : t # s => wire'[t] = wire[t]
    BY <1>2 DEF Step, TypeOK
  <2>2. Range(wire'[s]) = Range(wire[s]) \cup {x}
    BY <1>0, <2>1, RangeAppend
  <2> QED BY <1>2, <2>1, <2>2
<1>3. ASSUME NEW s \in Side, wire[s] # <<>>, Consume(s) PROVE Goal
  <2>1. wire'[s] = Tail(wire[s]) /\ \A t \in Side : t # s => wire'[t] = wire[t]
    BY <1>3 DEF Consume, Step, TypeOK
  <2>2. Range(wire'[s]) \subseteq Range(wire[s])
    BY <1>0, <1>3, <2>1, RangeTail
  <2> QED BY <2>1, <2>2
<1>4. CASE HostOpens
  <2>1. PICK refused \in BOOLEAN : HostOpen(refused)
    BY <1>4 DEF HostOpens
  <2>2. wire["host"] # <<>> /\ Head(wire["host"]).conn \in Conn
    BY <1>0, <2>1, HeadFrame DEF HostOpen, Arrives, Step
  <2>3. PICK c \in Conn : c = Head(wire["host"]).conn
    BY <2>2
  <2>4. /\ wire'["host"] = Tail(wire["host"])
        /\ \/ wire'["client"] = wire["client"]
           \/ wire'["client"] = wire["client"] \o <<ErrorFrame(c), CloseFrame(c)>>
    BY <1>0, <2>1, <2>3 DEF HostOpen, Consume, Step, TypeOK
  <2>5. \A u \in Seq(Frame), a, b \in Frame :
            u \o <<a, b>> = Append(Append(u, a), b) /\ Append(u, a) \in Seq(Frame)
    OBVIOUS
  <2>6. Range(wire["client"] \o <<ErrorFrame(c), CloseFrame(c)>>)
            = Range(wire["client"]) \cup {ErrorFrame(c), CloseFrame(c)}
    <3>1. ErrorFrame(c) \in Frame /\ CloseFrame(c) \in Frame
      BY FrameTypes
    <3>2. PICK u \in Seq(Frame) : u = Append(wire["client"], ErrorFrame(c))
      BY <1>0, <2>5, <3>1
    <3>3. wire["client"] \o <<ErrorFrame(c), CloseFrame(c)>> = Append(u, CloseFrame(c))
      BY <1>0, <2>5, <3>1, <3>2
    <3>4. Range(u) = Range(wire["client"]) \cup {ErrorFrame(c)}
      BY <1>0, <3>1, <3>2, RangeAppend
    <3>5. Range(Append(u, CloseFrame(c))) = Range(u) \cup {CloseFrame(c)}
      BY <3>1, RangeAppend
    <3> QED BY <3>3, <3>4, <3>5
  <2>7. ErrorFrame(c).kind # "DATA" /\ CloseFrame(c).kind # "DATA"
    BY FrameTypes
  <2>8. \A f \in Range(wire'["client"]) : f.kind = "DATA" => f \in Range(wire["client"])
    BY <2>4, <2>6, <2>7
  <2>9. Range(wire'["host"]) \subseteq Range(wire["host"])
    BY <1>0, <2>2, <2>4, RangeTail
  <2> QED BY <2>8, <2>9 DEF Side
<1>5. ASSUME NEW c \in Conn, Accept(c) PROVE Goal
  <2>1. /\ OpenFrame(c) \in Frame /\ OpenFrame(c).kind # "DATA"
        /\ wire' = [wire EXCEPT !["host"] = Append(@, OpenFrame(c))]
    BY <1>5, FrameTypes DEF Accept
  <2> QED BY <1>0, <1>2, <2>1
<1>6. ASSUME NEW s \in Side, NEW c \in Conn, Sends(s, c) PROVE Goal
  <2>1. sent[s][c] \in Nat /\ sent[s][c] + 1 \in Nat \ {0} /\ sent[s][c] < sent[s][c] + 1
    BY DEF Step, TypeOK
  <2>2. /\ DataFrame(c, sent[s][c] + 1) \in Frame /\ DataFrame(c, sent[s][c] + 1).conn = c
        /\ DataFrame(c, sent[s][c] + 1).chunk = <<c, sent[s][c] + 1>>
    BY <2>1, FrameTypes
  <2>3. sent[Peer(Peer(s))][c] < DataFrame(c, sent[s][c] + 1).chunk[2]
    BY <1>0, <2>1, <2>2
  <2>4. wire' = wire \/ wire' = [wire EXCEPT ![Peer(s)] = Append(@, DataFrame(c, sent[s][c] + 1))]
    BY <1>6 DEF Sends
  <2>5. CASE wire' = [wire EXCEPT ![Peer(s)] = Append(@, DataFrame(c, sent[s][c] + 1))]
    BY <1>0, <1>2, <2>2, <2>3, <2>5
  <2> QED BY <1>1, <2>4, <2>5
<1>7. ASSUME NEW s \in Side, NEW c \in Conn, Ends(s, c) PROVE Goal
  <2>1. CloseFrame(c) \in Frame /\ CloseFrame(c).kind # "DATA"
    BY FrameTypes
  <2>2. wire' = wire \/ wire' = [wire EXCEPT ![Peer(s)] = Append(@, CloseFrame(c))]
    BY <1>7 DEF Ends
  <2> QED BY <1>0, <1>1, <1>2, <2>1, <2>2
<1>8. ASSUME NEW s \in Side, NEW c \in Conn, PumpEnds(s, c) \/ Drains(s, c) \/ WriterEnds(s, c)
      PROVE  Goal
  BY <1>1, <1>8 DEF PumpEnds, Drains, Receives, Writes, WriteFails, Drained, WriterEnds
<1>9. ASSUME NEW s \in Side, ReadFrame(s) PROVE Goal
  <2>1. wire[s] # <<>> /\ (wire' = wire \/ Consume(s))
    BY <1>9 DEF ReadFrame, DataDropped, DataWaits, DataTaken, CloseArrives, Arrives
  <2> QED BY <1>1, <1>3, <2>1
<1>10. CASE Register \/ UNCHANGED vars
  BY <1>1, <1>10 DEF Register, vars
<1>11. ASSUME NEW kept \in 0 .. Len(wire["host"]), Reconnect(kept) PROVE Goal
  <2>1. wire'["client"] = <<>> /\ wire'["host"] = SubSeq(wire["host"], 1, kept)
    BY <1>0, <1>11 DEF Reconnect, Step, TypeOK
  <2>2. Range(wire'["client"]) = {}
    <3>1. Range(<<>>) = {}
      BY DEF Range
    <3> QED BY ONLY <2>1, <3>1
  <2>3. Range(wire'["host"]) \subseteq Range(wire["host"])
    BY <1>0, <2>1, PrefixOf
  <2> QED BY <2>2, <2>3 DEF Side
<1> QED
  BY <1>4, <1>5, <1>6, <1>7, <1>8, <1>9, <1>10, <1>11 DEF Step, ReconnectNext, Next

-----------------------------------------------------------------------------
(* Reconnects: what the streams have taken *)

PastOK(s, c) ==
    /\ InOrder(got[s][c]) /\ InOrder(chan[s][c])
    /\ \A x \in Range(got[s][c]), y \in Range(chan[s][c]) : x[1] = y[1] => x[2] < y[2]
    /\ \A x \in Taken(s, c) :
          /\ x[1] \in Accepted /\ id[x[1]] = id[c] /\ x[2] <= sent[Peer(s)][x[1]]
          /\ \A d \in Conn \ {c} : x \notin Taken(s, d)
          /\ \A f \in Range(wire[s]) :
                f.kind = "DATA" /\ f.conn = x[1] => x[2] < f.chunk[2]

PastStart == Step /\ \A s \in Side, c \in Conn : PastOK(s, c)

LEMMA TakenTypes ==
    ASSUME TypeOK, NEW s \in Side, NEW c \in Conn
    PROVE  /\ got[s][c] \in Seq(Chunk) /\ chan[s][c] \in Seq(Chunk) /\ Taken(s, c) \subseteq Chunk
           /\ \A x \in Chunk : x[1] \in Conn /\ x[2] \in Nat /\ x = <<x[1], x[2]>>
<1>1. got[s][c] \in Seq(Chunk) /\ chan[s][c] \in Seq(Chunk)
  BY DEF TypeOK
<1>2. \A q \in Seq(Chunk) : Range(q) \subseteq Chunk
  BY DEF Range
<1>3. \A x \in Chunk : x[1] \in Conn /\ x[2] \in Nat /\ x = <<x[1], x[2]>>
  BY DEF Chunk
<1> QED BY <1>1, <1>2, <1>3 DEF Taken

\* A stream that has taken something has started.
LEMMA TakenAccepted ==
    ASSUME StartedInv, NEW s \in Side, NEW c \in Conn, Taken(s, c) # {} PROVE c \in Accepted
<1>1. Range(<<>>) = {}
  BY DEF Range
<1>2. pump[s][c] # "none"
  <2> SUFFICES ASSUME got[s][c] = <<>>, chan[s][c] = <<>> PROVE Taken(s, c) = {}
      BY DEF StartedInv, StreamOK
  <2> QED BY <1>1 DEF Taken
<1> QED BY <1>2 DEF StartedInv, StreamOK

\* What it has taken stays right.
LEMMA TakenKept ==
    ASSUME PastStart, NEW s \in Side, NEW c \in Conn, NEW x \in Taken(s, c)
    PROVE  /\ x[1] \in Accepted' /\ id'[x[1]] = id'[c] /\ x[2] <= sent'[Peer(s)][x[1]]
           /\ \A f \in Range(wire'[s]) : f.kind = "DATA" /\ f.conn = x[1] => x[2] < f.chunk[2]
<1>1. /\ x[1] \in Accepted /\ id[x[1]] = id[c] /\ x[2] <= sent[Peer(s)][x[1]]
      /\ \A f \in Range(wire[s]) : f.kind = "DATA" /\ f.conn = x[1] => x[2] < f.chunk[2]
  BY DEF PastStart, PastOK
<1>2. c \in Accepted
  BY TakenAccepted DEF PastStart, Step
<1>3. x[1] \in Conn /\ x[2] \in Nat /\ Peer(s) \in Side
  BY TakenTypes, Peers DEF PastStart, Step
<1>4. /\ x[1] \in Accepted' /\ id'[x[1]] = id'[c]
      /\ sent[Peer(s)][x[1]] \in Nat /\ sent'[Peer(s)][x[1]] \in Nat
      /\ sent[Peer(s)][x[1]] <= sent'[Peer(s)][x[1]]
  BY <1>1, <1>2, <1>3, AcceptedGrows, PumpsGoOn DEF PastStart, Step
<1>5. x[2] <= sent'[Peer(s)][x[1]]
  BY <1>1, <1>3, <1>4
<1>6. ASSUME NEW f \in Range(wire'[s]), f.kind = "DATA", f.conn = x[1] PROVE x[2] < f.chunk[2]
  <2>1. f \in Range(wire[s]) \/ sent[Peer(s)][x[1]] < f.chunk[2]
    BY <1>6, NewData DEF PastStart
  <2>2. f.chunk[2] \in Nat
    <3>1. TypeOK'
      BY ReconnectTypes DEF PastStart, Step
    <3>2. Range(wire'[s]) \subseteq Frame
      BY <3>1 DEF TypeOK, Range
    <3> QED BY <1>6, <3>2, FrameTypes
  <2>3. CASE f \in Range(wire[s])
    BY <1>1, <1>6, <2>3
  <2>4. CASE sent[Peer(s)][x[1]] < f.chunk[2]
    BY <1>1, <1>3, <1>4, <2>2, <2>4
  <2> QED BY <2>1, <2>3, <2>4
<1> QED BY <1>4, <1>5, <1>6

\* Nothing more is taken.
LEMMA PastKept ==
    ASSUME PastStart, NEW s \in Side, NEW c \in Conn,
           InOrder(got'[s][c]), InOrder(chan'[s][c]),
           \A x \in Range(got'[s][c]), y \in Range(chan'[s][c]) : x[1] = y[1] => x[2] < y[2],
           \A d \in Conn : Taken(s, d)' \subseteq Taken(s, d)
    PROVE  PastOK(s, c)'
<1>1. \A x \in Taken(s, c)' : x \in Taken(s, c) /\ \A d \in Conn \ {c} : x \notin Taken(s, d)'
  BY DEF PastStart, PastOK
<1> QED BY <1>1, TakenKept DEF PastOK

LEMMA PastSame ==
    ASSUME PastStart, NEW s \in Side, NEW c \in Conn, got'[s] = got[s], chan'[s] = chan[s]
    PROVE  PastOK(s, c)'
  BY PastKept DEF PastStart, PastOK, Taken

\* The frame at the head is in front of everything else, for the one stream with its id.
LEMMA PastTaken ==
    ASSUME PastStart, NEW s \in Side, DataTaken(s) PROVE \A t \in Side, c \in Conn : PastOK(t, c)'
<1>0. TypeOK /\ StartedInv /\ LineInv /\ wire[s] \in Seq(Frame) /\ wire[s] # <<>>
  BY DEF PastStart, Step, TypeOK, DataTaken, Arrives
<1>1. PICK h \in Frame : h = Head(wire[s])
  BY <1>0, HeadFrame
<1>2. /\ h.kind = "DATA" /\ h \in Range(wire[s]) /\ h.conn \in Conn /\ h.chunk \in Chunk
      /\ h.chunk[1] = h.conn /\ h.conn \in Accepted /\ h.chunk[2] <= sent[Peer(s)][h.conn]
      /\ h.chunk[2] \in Nat
  <2>1. h.kind = "DATA" /\ h \in Range(wire[s])
    BY <1>0, <1>1, HeadFrame DEF DataTaken, Arrives
  <2> QED BY <1>0, <2>1, WireFrames DEF LineInv, OnLine
<1>3. PICK x \in Chunk : x = h.chunk
  BY <1>2
<1>4. PICK c \in Conn : /\ c \in Lookup(s, h.conn)
                        /\ chan' = [chan EXCEPT ![s][c] = Append(@, x)]
  BY <1>0, <1>1, <1>3, HeadFrame DEF DataTaken
<1>5. c \in mapped[s] /\ id[c] = id[x[1]] /\ c \in Accepted /\ x[1] = h.conn
  BY <1>0, <1>2, <1>3, <1>4 DEF Lookup, StartedInv, StreamOK
<1>6. /\ got' = got /\ sent' = sent /\ \A t \in Side : t # s => chan'[t] = chan[t]
      /\ \A d \in Conn : d # c => chan'[s][d] = chan[s][d]
      /\ chan'[s][c] = Append(chan[s][c], x)
      /\ wire'[s] = Tail(wire[s])
  BY <1>0, <1>4 DEF DataTaken, Consume, TypeOK
<1>7. \A d \in Conn : \A y \in Taken(s, d) : y[1] = x[1] => y[2] < x[2]
  BY <1>2, <1>3, <1>5 DEF PastStart, PastOK
<1>8. \A d \in Conn : x \notin Taken(s, d)
  <2> SUFFICES ASSUME NEW d \in Conn, x \in Taken(s, d) PROVE FALSE
      OBVIOUS
  <2>1. x[2] < x[2] /\ x[2] \in Nat
    BY <1>2, <1>3, <1>7
  <2> QED BY <2>1
<1>9. Range(chan'[s][c]) = Range(chan[s][c]) \cup {x} /\ InOrder(chan'[s][c])
  <2>1. chan[s][c] \in Seq(Chunk) /\ \A y \in Range(chan[s][c]) : y[1] = x[1] => y[2] < x[2]
    BY <1>0, <1>7, TakenTypes DEF Taken
  <2> QED BY <1>6, <2>1, RangeAppend, InOrderAppend DEF PastStart, PastOK
<1>10. /\ Taken(s, c)' = Taken(s, c) \cup {x}
       /\ \A d \in Conn : d # c => Taken(s, d)' = Taken(s, d)
  BY <1>6, <1>9 DEF Taken
<1>11. ASSUME NEW t \in Side, t # s, NEW d \in Conn PROVE PastOK(t, d)'
  BY <1>6, <1>11, PastSame
<1>12. ASSUME NEW d \in Conn, d # c PROVE PastOK(s, d)'
  <2>1. \A y \in Taken(s, d) : \A e \in Conn \ {d} : y \notin Taken(s, e)'
    BY <1>8, <1>10 DEF PastStart, PastOK
  <2>2. /\ InOrder(got'[s][d]) /\ InOrder(chan'[s][d])
        /\ \A y \in Range(got'[s][d]), z \in Range(chan'[s][d]) : y[1] = z[1] => y[2] < z[2]
    BY <1>6, <1>12 DEF PastStart, PastOK
  <2> QED BY <1>10, <1>12, <2>1, <2>2, TakenKept DEF PastOK
<1>13. PastOK(s, c)'
  <2>1. InOrder(got'[s][c])
    BY <1>6 DEF PastStart, PastOK
  <2>2. ASSUME NEW y \in Range(got'[s][c]), NEW z \in Range(chan'[s][c]), y[1] = z[1] PROVE y[2] < z[2]
    <3>1. y \in Range(got[s][c]) /\ (z = x \/ z \in Range(chan[s][c]))
      BY <1>6, <1>9
    <3>2. y \in Taken(s, c)
      BY <3>1 DEF Taken
    <3> QED BY <1>7, <2>2, <3>1, <3>2 DEF PastStart, PastOK
  <2>3. ASSUME NEW y \in Taken(s, c)', NEW d \in Conn \ {c} PROVE y \notin Taken(s, d)'
    BY <1>8, <1>10 DEF PastStart, PastOK
  <2>4. x[1] \in Accepted' /\ id'[x[1]] = id'[c] /\ x[2] <= sent'[Peer(s)][x[1]]
    <3>1. x[1] \in Accepted
      BY <1>2, <1>5
    <3> QED BY <1>0, <1>2, <1>3, <1>5, <1>6, <3>1, AcceptedGrows DEF PastStart, Step
  <2>5. ASSUME NEW f \in Range(wire'[s]), f.kind = "DATA", f.conn = x[1] PROVE x[2] < f.chunk[2]
    <3>1. f \in Range(Tail(wire[s])) /\ Rising(wire[s])
      BY <1>0, <1>6 DEF LineInv
    <3> QED BY <1>0, <1>1, <1>2, <1>3, <1>5, <2>5, <3>1, RisingTail
  <2>6. \A y \in Taken(s, c)' : y = x \/ y \in Taken(s, c)
    BY <1>10
  <2> QED BY <1>9, <2>1, <2>2, <2>3, <2>4, <2>5, <2>6, TakenKept DEF PastOK
<1> QED BY <1>11, <1>12, <1>13

\* A writer takes the front of its channel.
LEMMA PastWritten ==
    ASSUME PastStart, NEW s \in Side, NEW c \in Conn, Drains(s, c) \/ WriterEnds(s, c)
    PROVE  \A t \in Side, d \in Conn : PastOK(t, d)'
<1>0. TypeOK /\ StartedInv /\ got[s][c] \in Seq(Chunk) /\ chan[s][c] \in Seq(Chunk)
  BY TakenTypes DEF PastStart, Step
<1>1. /\ \A t \in Side : t # s => got'[t] = got[t] /\ chan'[t] = chan[t]
      /\ \A d \in Conn : d # c => got'[s][d] = got[s][d] /\ chan'[s][d] = chan[s][d]
  <2>1. (got' = got \/ \E v : got' = [got EXCEPT ![s][c] = v])
        /\ (chan' = chan \/ \E v : chan' = [chan EXCEPT ![s][c] = v])
    BY DEF Drains, Receives, Writes, WriteFails, Drained, WriterEnds, dataVars
  <2>3. ASSUME NEW v, got' = [got EXCEPT ![s][c] = v]
        PROVE  /\ \A t \in Side : t # s => got'[t] = got[t]
               /\ \A d \in Conn : d # c => got'[s][d] = got[s][d]
    BY <1>0, <2>3 DEF TypeOK
  <2>4. ASSUME NEW v, chan' = [chan EXCEPT ![s][c] = v]
        PROVE  /\ \A t \in Side : t # s => chan'[t] = chan[t]
               /\ \A d \in Conn : d # c => chan'[s][d] = chan[s][d]
    BY <1>0, <2>4 DEF TypeOK
  <2> QED BY <2>1, <2>3, <2>4
<1>2. /\ InOrder(got'[s][c]) /\ InOrder(chan'[s][c])
      /\ \A x \in Range(got'[s][c]), y \in Range(chan'[s][c]) : x[1] = y[1] => x[2] < y[2]
      /\ Taken(s, c)' \subseteq Taken(s, c)
  <2>0. PastOK(s, c)
    BY DEF PastStart
  <2>1. CASE got' = got /\ chan' = chan
    BY <2>0, <2>1 DEF PastOK, Taken
  <2>2. CASE got'[s][c] = got[s][c] /\ chan'[s][c] = <<>>
    <3>1. DOMAIN <<>> = {} /\ Range(<<>>) = {}
      BY DEF Range
    <3>2. Range(chan'[s][c]) = {} /\ DOMAIN chan'[s][c] = {}
      BY ONLY <2>2, <3>1
    <3> QED BY <2>0, <2>2, <3>2 DEF PastOK, Taken, InOrder
  <2>3. ASSUME chan[s][c] # <<>>, chan'[s][c] = Tail(chan[s][c]) PROVE
            /\ InOrder(chan'[s][c]) /\ Range(chan'[s][c]) \subseteq Range(chan[s][c])
            /\ Head(chan[s][c]) \in Range(chan[s][c]) /\ Head(chan[s][c]) \in Chunk
            /\ \A y \in Range(chan'[s][c]) : y[1] = Head(chan[s][c])[1] => Head(chan[s][c])[2] < y[2]
    BY <1>0, <2>0, <2>3, InOrderTail, RangeTail, TailOf DEF PastOK
  <2>4. CASE Writes(s, c)
    <3>1. /\ chan[s][c] # <<>> /\ chan'[s][c] = Tail(chan[s][c])
          /\ got'[s][c] = Append(got[s][c], Head(chan[s][c]))
      BY <1>0, <2>4 DEF Writes, TypeOK, StartedInv, StreamOK
    <3>2. Range(got'[s][c]) = Range(got[s][c]) \cup {Head(chan[s][c])}
      BY <1>0, <2>3, <3>1, RangeAppend
    <3>3. InOrder(got'[s][c])
      <4>1. \A x \in Range(got[s][c]) :
                x[1] = Head(chan[s][c])[1] => x[2] < Head(chan[s][c])[2]
        BY <2>0, <2>3, <3>1 DEF PastOK
      <4> QED BY <1>0, <2>0, <2>3, <3>1, <4>1, InOrderAppend DEF PastOK
    <3>4. ASSUME NEW x \in Range(got'[s][c]), NEW y \in Range(chan'[s][c]), x[1] = y[1]
          PROVE  x[2] < y[2]
      BY <2>0, <2>3, <3>1, <3>2, <3>4 DEF PastOK
    <3>5. Taken(s, c)' \subseteq Taken(s, c)
      BY <2>3, <3>1, <3>2 DEF Taken
    <3> QED BY <2>3, <3>1, <3>3, <3>4, <3>5
  <2>5. CASE WriteFails(s, c)
    <3>1. chan[s][c] # <<>> /\ chan'[s][c] = Tail(chan[s][c]) /\ got' = got
      BY <1>0, <2>5 DEF WriteFails, TypeOK, StartedInv, StreamOK
    <3> QED BY <2>0, <2>3, <3>1 DEF PastOK, Taken
  <2>6. CASE WriterEnds(s, c)
    BY <1>0, <2>2, <2>6 DEF WriterEnds, TypeOK
  <2>7. CASE Receives(s, c) \/ Drained(s, c)
    BY <2>1, <2>7 DEF Receives, Drained, dataVars
  <2> QED BY <2>4, <2>5, <2>6, <2>7 DEF Drains
<1>3. ASSUME NEW t \in Side, t # s, NEW d \in Conn PROVE PastOK(t, d)'
  BY <1>1, <1>3, PastSame
<1>4. \A d \in Conn : Taken(s, d)' \subseteq Taken(s, d)
  BY <1>1, <1>2 DEF Taken
<1>5. ASSUME NEW d \in Conn, d # c PROVE PastOK(s, d)'
  <2>1. /\ InOrder(got'[s][d]) /\ InOrder(chan'[s][d])
        /\ \A x \in Range(got'[s][d]), y \in Range(chan'[s][d]) : x[1] = y[1] => x[2] < y[2]
    BY <1>1, <1>5 DEF PastStart, PastOK
  <2> QED BY <1>4, <2>1, PastKept
<1>6. PastOK(s, c)'
  BY <1>2, <1>4, PastKept
<1> QED BY <1>3, <1>5, <1>6

LEMMA PastStep == ASSUME PastStart PROVE PastInv'
<1> DEFINE Goal == \A s \in Side, c \in Conn : PastOK(s, c)'
<1> SUFFICES Goal
    BY DEF PastInv, PastOK
<1>1. CASE got' = got /\ chan' = chan
  BY <1>1, PastSame
<1>2. ASSUME NEW s \in Side, DataTaken(s) PROVE Goal
  BY <1>2, PastTaken
<1>3. ASSUME NEW s \in Side, NEW c \in Conn, Drains(s, c) \/ WriterEnds(s, c) PROVE Goal
  BY <1>3, PastWritten
<1>4. CASE Register \/ HostOpens \/ (\E c \in Conn : Accept(c)) \/ UNCHANGED vars
  BY <1>1, <1>4 DEF Register, HostOpens, HostOpen, Accept, dataVars, vars
<1>5. ASSUME NEW s \in Side, DataDropped(s) \/ DataWaits(s) \/ CloseArrives(s) PROVE Goal
  BY <1>1, <1>5 DEF DataDropped, DataWaits, CloseArrives, dataVars
<1>6. ASSUME NEW s \in Side, NEW c \in Conn, Sends(s, c) \/ Ends(s, c) \/ PumpEnds(s, c) PROVE Goal
  BY <1>1, <1>6 DEF Sends, Ends, PumpEnds, dataVars
<1>7. ASSUME NEW kept, Reconnect(kept) PROVE Goal
  BY <1>1, <1>7 DEF Reconnect, dataVars
<1> QED
  BY <1>2, <1>3, <1>4, <1>5, <1>6, <1>7 DEF PastStart, Step, ReconnectNext, Next, ReadFrame

-----------------------------------------------------------------------------
(* Reconnects: a reader loop that waits *)

HeldStart == Step /\ HeldInv

\* Only the loop itself takes the frame, and no stream with its id comes or goes.
LEMMA HeldSame ==
    ASSUME HeldStart, NEW s \in Side, held[s], ~DataTaken(s),
           NEW c \in Conn, c = Head(wire[s]).conn
    PROVE  /\ held'[s] /\ wire'[s] # <<>> /\ Head(wire'[s]) = Head(wire[s])
           /\ Lookup(s, c)' = Lookup(s, c)
<1> DEFINE Waits == held'[s]
           Front == wire'[s] # <<>> /\ Head(wire'[s]) = Head(wire[s])
           Found == Lookup(s, c)' = Lookup(s, c)
<1>0. /\ TypeOK /\ StartedInv /\ LineInv /\ wire[s] \in Seq(Frame) /\ wire[s] # <<>>
      /\ Head(wire[s]).kind = "DATA" /\ Lookup(s, c) # {} /\ Head(wire[s]) \in Range(wire[s])
      /\ "host" \in Side /\ "client" \in Side /\ Peer(s) # s
      /\ \A t, u \in Side : u = t \/ u = Peer(t)
  BY HeadFrame, Peers, Sides DEF HeldStart, Step, HeldInv, Arrives, TypeOK, Side
<1>1. c \in Accepted /\ mapped[s] \subseteq Accepted
  BY <1>0 DEF LineInv, OnLine, StartedInv, StreamOK, TypeOK
<1>2. ASSUME held' = held PROVE Waits
  BY <1>2
<1>3. ASSUME wire'[s] = wire[s] PROVE Front
  BY <1>0, <1>3
<1>4. ASSUME NEW t \in Side, NEW f \in Frame, wire' = [wire EXCEPT ![t] = Append(@, f)] PROVE Front
  <2>1. wire'[s] = wire[s] \/ wire'[s] = Append(wire[s], f)
    <3>1. CASE t = s
      BY <1>0, <1>4, <3>1 DEF TypeOK
    <3>2. CASE t # s
      BY <1>0, <1>4, <3>2 DEF TypeOK
    <3> QED BY <3>1, <3>2
  <2>2. Append(wire[s], f) # <<>> /\ Head(Append(wire[s], f)) = Head(wire[s])
    BY <1>0, <1>4
  <2> QED BY <1>0, <2>1, <2>2
<1>5. ASSUME NEW t \in Side, t # s, wire' = [wire EXCEPT ![t] = Tail(@)] PROVE Front
  BY <1>0, <1>5 DEF TypeOK
<1>6. ASSUME mapped'[s] = mapped[s], \A d \in Accepted : id'[d] = id[d],
             s = "client" => epoch' = epoch /\ \A d \in Accepted : born'[d] = born[d]
      PROVE  Found
  BY <1>1, <1>6 DEF Lookup
<1>7. \A d \in Accepted : id'[d] = id[d]
  BY AcceptedGrows DEF HeldStart, Step
<1>8. ASSUME mapped'[s] = mapped[s], UNCHANGED <<epoch, born>> PROVE Found
  BY <1>6, <1>7, <1>8
<1>9. ASSUME NEW d \in Conn, Accept(d) PROVE Waits /\ Front /\ Found
  <2>1. /\ UNCHANGED <<epoch, mapped, held>> /\ OpenFrame(d) \in Frame
        /\ wire' = [wire EXCEPT !["host"] = Append(@, OpenFrame(d))]
    BY <1>9, FrameTypes DEF Accept
  <2>2. \A e \in Accepted : born'[e] = born[e]
    <3>1. d \notin Accepted /\ Accepted \subseteq Conn
      BY <1>0, <1>9, Taking DEF Accepted
    <3>2. \A e \in Conn : e # d => born'[e] = born[e]
      BY <1>0, <1>9 DEF Accept, TypeOK
    <3> QED BY <3>1, <3>2
  <2>3. Front
    BY <1>0, <1>4, <2>1
  <2>4. Found
    BY <1>6, <1>7, <2>1, <2>2
  <2> QED BY <1>2, <2>1, <2>3, <2>4
<1>10. ASSUME Register PROVE Waits /\ Front /\ Found
  <2>1. /\ s # "client" /\ UNCHANGED <<epoch, born, held, wire>>
        /\ mapped' = [mapped EXCEPT !["client"] = @ \cup {opening}]
    BY <1>10 DEF Register, Start
  <2>2. mapped'[s] = mapped[s]
    BY <1>0, <2>1 DEF TypeOK
  <2> QED BY <1>2, <1>3, <1>8, <2>1, <2>2
<1>11. ASSUME HostOpens PROVE Waits /\ Front /\ Found
  <2>1. PICK refused \in BOOLEAN : HostOpen(refused)
    BY <1>11 DEF HostOpens
  <2>2. s # "host" /\ s = "client" /\ wire["host"] # <<>>
    BY <1>0, <2>1 DEF HostOpen, Arrives, Side
  <2>3. PICK d \in Conn : d = Head(wire["host"]).conn
    BY <1>0, <2>2, HeadFrame
  <2>4. /\ UNCHANGED <<epoch, born, held>>
        /\ mapped' = mapped \/ mapped' = [mapped EXCEPT !["host"] = @ \cup {d}]
        /\ \/ wire'["client"] = wire["client"]
           \/ wire'["client"] = wire["client"] \o <<ErrorFrame(d), CloseFrame(d)>>
    <3>1. UNCHANGED <<epoch, born, held>>
      BY <2>1 DEF HostOpen, linkVars
    <3>2. mapped' = mapped \/ mapped' = [mapped EXCEPT !["host"] = @ \cup {d}]
      BY <2>1, <2>3 DEF HostOpen, Start
    <3>3. \/ wire' = [wire EXCEPT !["host"] = Tail(@)]
          \/ wire' = [wire EXCEPT !["host"] = Tail(@),
                                  !["client"] = @ \o <<ErrorFrame(d), CloseFrame(d)>>]
      BY <2>1, <2>3 DEF HostOpen, Consume
    <3>4. \/ wire'["client"] = wire["client"]
          \/ wire'["client"] = wire["client"] \o <<ErrorFrame(d), CloseFrame(d)>>
      <4>1. CASE wire' = [wire EXCEPT !["host"] = Tail(@)]
        BY <1>0, <4>1 DEF TypeOK
      <4>2. CASE wire' = [wire EXCEPT !["host"] = Tail(@),
                                      !["client"] = @ \o <<ErrorFrame(d), CloseFrame(d)>>]
        BY <1>0, <4>2 DEF TypeOK
      <4> QED BY <3>3, <4>1, <4>2
    <3> QED BY <3>1, <3>2, <3>4
  <2>5. mapped'[s] = mapped[s]
    BY <1>0, <2>2, <2>4 DEF TypeOK
  <2>6. Front
    <3>1. \A u \in Seq(Frame), a, b \in Frame :
              u # <<>> => u \o <<a, b>> # <<>> /\ Head(u \o <<a, b>>) = Head(u)
      OBVIOUS
    <3>2. ErrorFrame(d) \in Frame /\ CloseFrame(d) \in Frame
      BY FrameTypes
    <3> QED BY <1>0, <2>2, <2>4, <3>1, <3>2
  <2> QED BY <1>2, <1>8, <2>4, <2>5, <2>6
<1>12. ASSUME NEW t \in Side, ReadFrame(t) PROVE Waits /\ Front /\ Found
  <2>1. CASE DataWaits(t)
    <3>1. UNCHANGED <<epoch, born, mapped, wire>> /\ held' = [held EXCEPT ![t] = TRUE]
      BY <2>1 DEF DataWaits, linkVars
    <3>2. Waits
      BY <1>0, <3>1 DEF TypeOK
    <3> QED BY <1>3, <1>8, <3>1, <3>2
  <2>2. CASE t = s /\ ~DataWaits(t)
    BY <1>0, <1>12, <2>2 DEF ReadFrame, DataDropped, CloseArrives, Arrives
  <2>3. CASE t # s /\ ~DataWaits(t)
    <3>1. /\ UNCHANGED <<epoch, born>> /\ wire' = [wire EXCEPT ![t] = Tail(@)]
          /\ held' = held \/ held' = [held EXCEPT ![t] = FALSE]
          /\ mapped' = mapped \/ mapped' = [mapped EXCEPT ![t] = @ \ Lookup(t, Head(wire[t]).conn)]
      BY <1>12, <2>3 DEF ReadFrame, DataDropped, DataTaken, CloseArrives, Consume, linkVars
    <3>2. held'[s] /\ mapped'[s] = mapped[s]
      BY <1>0, <2>3, <3>1 DEF TypeOK
    <3>3. Front
      BY <1>5, <2>3, <3>1
    <3> QED BY <1>8, <3>1, <3>2, <3>3
  <2> QED BY <2>1, <2>2, <2>3
<1>13. ASSUME NEW t \in Side, NEW d \in Conn, Sends(t, d) \/ Ends(t, d) PROVE Waits /\ Front /\ Found
  <2>1. /\ UNCHANGED <<epoch, born, mapped, held>>
        /\ \/ wire' = wire
           \/ wire' = [wire EXCEPT ![Peer(t)] = Append(@, DataFrame(d, sent[t][d] + 1))]
           \/ wire' = [wire EXCEPT ![Peer(t)] = Append(@, CloseFrame(d))]
    BY <1>13 DEF Sends, Ends, linkVars
  <2>2. sent[t][d] + 1 \in Nat /\ sent[t][d] + 1 # 0
    <3>1. sent[t][d] \in Nat
      BY <1>0 DEF TypeOK
    <3> QED BY <3>1
  <2>3. DataFrame(d, sent[t][d] + 1) \in Frame /\ CloseFrame(d) \in Frame /\ Peer(t) \in Side
    BY <2>2, FrameTypes, Peers
  <2>4. Front
    BY <1>3, <1>4, <2>1, <2>3
  <2> QED BY <1>2, <1>8, <2>1, <2>4
<1>14. ASSUME NEW t \in Side, NEW d \in Conn, PumpEnds(t, d) \/ Drains(t, d) \/ WriterEnds(t, d)
       PROVE  Waits /\ Front /\ Found
  <2>1. /\ UNCHANGED <<epoch, born, held, wire>>
        /\ mapped' = mapped \/ (~held[t] /\ mapped' = Removed(t, d))
    BY <1>14 DEF PumpEnds, Drains, Receives, Writes, WriteFails, Drained, WriterEnds, linkVars
  <2>2. mapped'[s] = mapped[s]
    BY <1>0, <2>1 DEF Removed, TypeOK
  <2> QED BY <1>2, <1>3, <1>8, <2>1, <2>2
<1>15. ASSUME NEW kept \in 0 .. Len(wire["host"]), Reconnect(kept) PROVE Waits /\ Front /\ Found
  <2>1. /\ s = "host" /\ UNCHANGED <<id, born, mapped, held>> /\ kept # 0
        /\ wire'["host"] = SubSeq(wire["host"], 1, kept)
    BY <1>0, <1>15 DEF Reconnect, TypeOK, Side
  <2>2. Front
    BY <1>0, <2>1, PrefixOf
  <2> QED BY <1>2, <1>6, <2>1, <2>2
<1>16. ASSUME UNCHANGED vars PROVE Waits /\ Front /\ Found
  BY <1>2, <1>3, <1>8, <1>16 DEF vars, linkVars
<1> QED
  BY <1>9, <1>10, <1>11, <1>12, <1>13, <1>14, <1>15, <1>16
  DEF HeldStart, Step, ReconnectNext, Next

LEMMA HeldStep == ASSUME HeldStart PROVE HeldInv'
<1>0. TypeOK /\ "host" \in Side /\ "client" \in Side
  BY DEF HeldStart, Step, Side
<1> SUFFICES ASSUME NEW s \in Side, held'[s]
             PROVE  Arrives(s, {"DATA"})' /\ (Lookup(s, Head(wire[s]).conn) # {})'
    BY DEF HeldInv
<1>1. CASE held[s] /\ ~DataTaken(s)
  <2>1. /\ wire[s] # <<>> /\ Head(wire[s]).kind = "DATA"
        /\ Lookup(s, Head(wire[s]).conn) # {} /\ Head(wire[s]).conn \in Conn
    BY <1>0, <1>1, HeadFrame DEF HeldStart, HeldInv, Arrives
  <2>2. PICK c \in Conn : c = Head(wire[s]).conn
    BY <2>1
  <2>3. /\ wire'[s] # <<>> /\ Head(wire'[s]) = Head(wire[s])
        /\ Lookup(s, c)' = Lookup(s, c)
    BY <1>1, <2>2, HeldSame
  <2>4. (Lookup(s, Head(wire[s]).conn))' = Lookup(s, c)'
    BY <2>2, <2>3
  <2> QED BY <2>1, <2>2, <2>3, <2>4 DEF Arrives
<1>2. CASE DataTaken(s)
  BY <1>0, <1>2 DEF DataTaken, TypeOK
<1>3. CASE ~held[s]
  <2>1. DataWaits(s)
    <3>1. ASSUME NEW t \in Side, ReadFrame(t), ~DataWaits(s) PROVE ~held'[s]
      <4>1. \/ held' = held \/ held' = [held EXCEPT ![t] = FALSE]
            \/ t # s /\ held' = [held EXCEPT ![t] = TRUE]
        BY <3>1 DEF ReadFrame, DataDropped, DataTaken, DataWaits, CloseArrives
      <4> QED BY <1>0, <1>3, <4>1 DEF TypeOK
    <3>2. ASSUME held' = held PROVE FALSE
      BY <1>3, <3>2
    <3>3. CASE Register \/ HostOpens \/ (\E c \in Conn : Accept(c)) \/ UNCHANGED vars
               \/ \E kept : Reconnect(kept)
      BY <3>2, <3>3 DEF Register, HostOpens, HostOpen, Accept, Reconnect, vars
    <3>4. ASSUME NEW t \in Side, NEW c \in Conn,
                 Sends(t, c) \/ Ends(t, c) \/ PumpEnds(t, c) \/ Drains(t, c) \/ WriterEnds(t, c)
          PROVE  FALSE
      BY <3>2, <3>4 DEF Sends, Ends, PumpEnds, Drains, Receives, Writes, WriteFails, Drained,
                        WriterEnds
    <3> QED BY <3>1, <3>3, <3>4 DEF HeldStart, Step, ReconnectNext, Next
  <2>2. /\ Arrives(s, {"DATA"}) /\ Lookup(s, Head(wire[s]).conn) # {}
        /\ UNCHANGED <<linkVars, mapped, wire>>
    BY <2>1 DEF DataWaits
  <2> QED BY <2>2 DEF Arrives, Lookup, linkVars
<1> QED BY <1>1, <1>2, <1>3

\* A writer that failed does nothing more while the lock is held.
LEMMA BrokenKept ==
    ASSUME Step, NEW s \in Side, held[s], ~DataTaken(s), NEW d \in Conn, writer[s][d] = "broken"
    PROVE  writer'[s][d] = "broken" /\ chan'[s][d] = chan[s][d]
<1> DEFINE Goal == writer'[s][d] = "broken" /\ chan'[s][d] = chan[s][d]
<1>0. TypeOK /\ StartedInv /\ LineInv /\ "host" \in Side /\ "client" \in Side
  BY DEF Step, Side
<1>1. ASSUME UNCHANGED <<writer, chan>> PROVE Goal
  BY <1>1
<1>2. ASSUME NEW t \in Side, NEW c \in Conn, ~(t = s /\ c = d),
             writer' = writer \/ \E v : writer' = [writer EXCEPT ![t][c] = v],
             chan' = chan \/ \E v : chan' = [chan EXCEPT ![t][c] = v]
      PROVE  Goal
  <2>1. writer \in [Side -> [Conn -> WriterStage]] /\ chan \in [Side -> [Conn -> Seq(Chunk)]]
    BY <1>0 DEF TypeOK
  <2>2. writer'[s][d] = writer[s][d]
    <3>1. ASSUME NEW v, writer' = [writer EXCEPT ![t][c] = v] PROVE writer'[s][d] = writer[s][d]
      BY <1>2, <2>1, <3>1
    <3> QED BY <1>2, <3>1
  <2>3. chan'[s][d] = chan[s][d]
    <3>1. ASSUME NEW v, chan' = [chan EXCEPT ![t][c] = v] PROVE chan'[s][d] = chan[s][d]
      BY <1>2, <2>1, <3>1
    <3> QED BY <1>2, <3>1
  <2> QED BY <2>2, <2>3
<1>3. ASSUME Register PROVE Goal
  <2>1. PICK c \in Conn : c = opening
    BY <1>0, <1>3 DEF Register, TypeOK
  <2>2. ~("client" = s /\ c = d)
    BY <1>0, <1>3, <2>1 DEF Register, StartedInv, StreamOK
  <2>3. chan' = chan /\ writer' = [writer EXCEPT !["client"][c] = "draining"]
    BY <1>3, <2>1 DEF Register, Start, dataVars
  <2> QED BY <1>0, <1>2, <2>2, <2>3
<1>4. ASSUME HostOpens PROVE Goal
  <2>1. PICK refused \in BOOLEAN : HostOpen(refused)
    BY <1>4 DEF HostOpens
  <2>2. /\ wire["host"] # <<>> /\ Head(wire["host"]).kind = "OPEN"
        /\ Head(wire["host"]) \in Range(wire["host"]) /\ Head(wire["host"]).conn \in Conn
    BY <1>0, <2>1, HeadFrame DEF HostOpen, Arrives
  <2>3. PICK c \in Conn : c = Head(wire["host"]).conn
    BY <2>2
  <2>4. ~("host" = s /\ c = d)
    BY <1>0, <2>2, <2>3 DEF LineInv, OnLine, StartedInv, StreamOK
  <2>5. chan' = chan /\ (writer' = writer \/ writer' = [writer EXCEPT !["host"][c] = "draining"])
    BY <2>1, <2>3 DEF HostOpen, Start, dataVars
  <2> QED BY <1>0, <1>2, <2>4, <2>5
<1>5. ASSUME NEW t \in Side, ReadFrame(t) PROVE Goal
  <2>1. CASE DataTaken(t)
    <3>1. wire[t] # <<>> /\ t # s
      BY <2>1 DEF DataTaken, Arrives
    <3>2. PICK c \in Conn : chan' = [chan EXCEPT ![t][c] = Append(@, Head(wire[t]).chunk)]
      BY <1>0, <2>1, <3>1, HeadFrame DEF DataTaken
    <3>3. writer' = writer
      BY <2>1 DEF DataTaken
    <3> QED BY <1>2, <3>1, <3>2, <3>3
  <2>2. CASE ~DataTaken(t)
    BY <1>1, <1>5, <2>2 DEF ReadFrame, DataDropped, DataWaits, CloseArrives, dataVars
  <2> QED BY <2>1, <2>2
<1>6. ASSUME NEW t \in Side, NEW c \in Conn, Drains(t, c) \/ WriterEnds(t, c) PROVE Goal
  <2>1. ~(t = s /\ c = d)
    BY <1>6 DEF Drains, Receives, Writes, WriteFails, Drained, WriterEnds
  <2>2. /\ \E v : writer' = [writer EXCEPT ![t][c] = v]
        /\ chan' = chan \/ \E v : chan' = [chan EXCEPT ![t][c] = v]
    BY <1>6 DEF Drains, Receives, Writes, WriteFails, Drained, WriterEnds, dataVars
  <2> QED BY <1>2, <2>1, <2>2
<1>7. ASSUME NEW t \in Side, NEW c \in Conn, Sends(t, c) \/ Ends(t, c) \/ PumpEnds(t, c) PROVE Goal
  BY <1>1, <1>7 DEF Sends, Ends, PumpEnds, dataVars
<1>8. ASSUME UNCHANGED vars \/ (\E c \in Conn : Accept(c)) \/ \E kept : Reconnect(kept) PROVE Goal
  BY <1>1, <1>8 DEF vars, Accept, Reconnect, dataVars
<1> QED BY <1>3, <1>4, <1>5, <1>6, <1>7, <1>8 DEF Step, ReconnectNext, Next

-----------------------------------------------------------------------------
(* Reconnects: the theorems *)

LEMMA ReconnectInvariant == ReconnectSpec => []ReconnectInv
<1>1. Init => ReconnectInv
  BY MuxStart, StartedStart DEF Inv, ReconnectInv
<1>2. ReconnectInv /\ [ReconnectNext]_vars => ReconnectInv'
  <2> SUFFICES ASSUME ReconnectInv, [ReconnectNext]_vars PROVE ReconnectInv'
      OBVIOUS
  <2>1. Step /\ PastStart /\ HeldStart
    BY DEF ReconnectInv, Step, PastStart, PastInv, PastOK, HeldStart
  <2> QED BY <2>1, ReconnectTypes, StartedStep, LineStep, PastStep, HeldStep DEF ReconnectInv
<1> QED BY <1>1, <1>2, PTL DEF ReconnectSpec

\* handle_host_frame, DATA, after any number of reconnects: what reaches a socket was
\* sent in a stream with its id, though perhaps not by its own connection.
THEOREM ReconnectKeepsIds == ReconnectSpec => []FromItsId
<1>1. ReconnectInv => FromItsId
  <2> SUFFICES ASSUME ReconnectInv, NEW s \in Side, NEW c \in Conn, NEW i \in DOMAIN got[s][c]
               PROVE  /\ id[got[s][c][i][1]] = id[c]
                      /\ got[s][c][i][2] <= sent[Peer(s)][got[s][c][i][1]]
      BY DEF FromItsId
  <2>1. got[s][c][i] \in Taken(s, c)
    BY InRange DEF Taken
  <2> QED BY <2>1 DEF ReconnectInv, PastInv
<1> QED BY <1>1, ReconnectInvariant, PTL

\* And no chunk reaches two sockets, or one of them twice or out of order.
THEOREM ReconnectKeepsOrder == ReconnectSpec => []OnceInOrder
<1>1. ReconnectInv => OnceInOrder
  <2> SUFFICES ASSUME ReconnectInv, NEW s \in Side, NEW c \in Conn, NEW d \in Conn,
                      NEW i \in DOMAIN got[s][c], NEW j \in DOMAIN got[s][d],
                      got[s][c][i][1] = got[s][d][j][1]
               PROVE  /\ c = d \/ got[s][c][i] # got[s][d][j]
                      /\ c = d /\ i < j => got[s][c][i][2] < got[s][d][j][2]
      BY DEF OnceInOrder
  <2>1. got[s][c][i] \in Taken(s, c) /\ got[s][d][j] \in Taken(s, d)
    BY InRange DEF Taken
  <2>2. c = d \/ got[s][c][i] # got[s][d][j]
    BY <2>1 DEF ReconnectInv, PastInv
  <2>3. ASSUME c = d, i < j PROVE got[s][c][i][2] < got[s][d][j][2]
    <3>1. InOrder(got[s][c]) /\ got[s][c] \in Seq(Chunk)
      BY TakenTypes DEF ReconnectInv, PastInv
    <3>2. i \in 1 .. j - 1 /\ j \in DOMAIN got[s][c]
      BY <2>3, <3>1
    <3> QED BY <2>3, <3>1, <3>2 DEF InOrder
  <2> QED BY <2>2, <2>3
<1> QED BY <1>1, ReconnectInvariant, PTL

\* The reader loops: where one waits with no writer at work, the write to that local
\* socket has failed.  Nothing else makes the circle, a reconnect neither.
THEOREM OnlyFailuresBlock == ReconnectSpec => []OnlyFailureBlocks
<1>1. ReconnectInv => OnlyFailureBlocks
  <2> SUFFICES ASSUME ReconnectInv, NEW s \in Side, held[s],
                      \A c \in Lookup(s, Head(wire[s]).conn) :
                          writer[s][c] \notin {"draining", "writing"} /\ ~Room(s, c)
               PROVE  Blocked(s)
      BY DEF OnlyFailureBlocks
  <2>1. \A c \in Lookup(s, Head(wire[s]).conn) : c \in mapped[s] /\ c \in Conn
    BY DEF Lookup, ReconnectInv, TypeOK
  <2>2. \A c \in Lookup(s, Head(wire[s]).conn) : writer[s][c] = "broken"
    BY <2>1 DEF ReconnectInv, StartedInv, StreamOK
  <2> QED BY <2>2 DEF ReconnectInv, HeldInv, Blocked
<1> QED BY <1>1, ReconnectInvariant, PTL

\* And it waits for ever, on the same frame: that writer needs the lock to go.
THEOREM BlockedStays == ReconnectSpec => BlockedForGood
<1>1. ReconnectInv /\ [ReconnectNext]_vars =>
          [\A s \in Side : Blocked(s) => Blocked(s)' /\ Head(wire'[s]) = Head(wire[s])]_vars
  <2> SUFFICES ASSUME ReconnectInv, [ReconnectNext]_vars, NEW s \in Side, Blocked(s)
               PROVE  Blocked(s)' /\ Head(wire'[s]) = Head(wire[s])
      OBVIOUS
  <2>0. HeldStart /\ TypeOK /\ held[s] /\ wire[s] # <<>> /\ Head(wire[s]).kind = "DATA"
    BY DEF ReconnectInv, HeldStart, Step, Blocked, Arrives
  <2>1. PICK c \in Conn : c = Head(wire[s]).conn
    BY <2>0, HeadFrame
  <2>2. /\ Lookup(s, c) # {} /\ Lookup(s, c) \subseteq Conn
        /\ \A d \in Lookup(s, c) : writer[s][d] = "broken" /\ ~Room(s, d)
    BY <2>0, <2>1, HeadFrame DEF Blocked
  <2>3. ~DataTaken(s)
    BY <2>1, <2>2 DEF DataTaken
  <2>4. /\ held'[s] /\ wire'[s] # <<>> /\ Head(wire'[s]) = Head(wire[s])
        /\ Lookup(s, c)' = Lookup(s, c)
    BY <2>0, <2>1, <2>3, HeldSame
  <2>5. ASSUME NEW d \in Conn, writer[s][d] = "broken"
        PROVE  writer'[s][d] = "broken" /\ chan'[s][d] = chan[s][d]
    BY <2>0, <2>3, <2>5, BrokenKept DEF HeldStart
  <2>6. \A d \in Lookup(s, c) : writer'[s][d] = "broken" /\ ~Room(s, d)'
    BY <2>2, <2>5 DEF Room
  <2>7. (Lookup(s, Head(wire[s]).conn))' = Lookup(s, c)
    BY <2>1, <2>4
  <2> QED BY <2>0, <2>2, <2>4, <2>6, <2>7 DEF Blocked, Arrives
<1> QED BY <1>1, ReconnectInvariant, PTL DEF ReconnectSpec, BlockedForGood
==============================================================================
