------------------------- MODULE UpgradeAnswersProofs -------------------------
(***************************************************************************)
(* The theorem on the answers of the connections, for any number of        *)
(* clients, requests, freezes and upgrades: a request is answered once at  *)
(* most, in this image or in the one it was carried to.                    *)
(***************************************************************************)
EXTENDS UpgradeProofs

-----------------------------------------------------------------------------
(* What a client is answered *)

\* What it was sent and what is to be written for it.
Said(k) == k.got \o k.out

\* The number of the last request that was read.
Seen(k) == k.sent - Len(k.sock) - Len(k.buf)

\* The requests that are to be answered.
Due(k) == k.running \cup {k.upgrade} \cup (IF k.at \in {"drain", "asking"} THEN {k.wait} ELSE {})

\* What was not read has the numbers after p; after a wait comes nothing.
Turns(s, p, after) ==
  \A i \in 1 .. Len(s) :
    /\ s[i][2] = p + i
    /\ s[i][1] = "hello" \/ s[i][2] # 0
    /\ s[i][1] = "wait" => i = Len(s) /\ after = <<>>

InTurn(k) ==
  /\ Turns(k.buf, Seen(k), k.sock)
  /\ Turns(k.sock, k.sent - Len(k.sock), <<>>)
  /\ k.wait # 0 => k.buf = <<>> /\ k.sock = <<>>

\* What is to be answered was read, and is one thing.
Owed(k) ==
  /\ k.running \subseteq 1 .. Seen(k)
  /\ k.upgrade # 0 => k.upgrade \in 1 .. Seen(k) /\ k.upgrade \notin k.running
  /\ k.wait # 0 => k.wait \in 1 .. Seen(k)
  /\ k.at \in {"drain", "asking"} => k.wait # 0 /\ k.wait \notin k.running /\ k.wait # k.upgrade
  /\ k.upgrade # 0 <=> k.attempt # "none"

\* A connection that is not accepted was asked nothing, a session has its wait, and one
\* that is to end after its wait has nothing else to answer.
Placed(k) ==
  /\ k.at \in {"away", "backlog"} => k.buf = <<>> /\ k.wait = 0 /\ k.reply.of = 0
  /\ k.at = "away" => k.sent = 0
  /\ k.at \in {"resuming", "session"} => k.wait # 0
  /\ k.at \in {"rpc", "freezing"} /\ k.wait # 0 => k.upgrade = 0 /\ k.running = {}

\* Of the requests up to n, those in `due` have no answer, and no other has two.
Given(said, n, due) ==
  /\ \A i \in 1 .. Len(said) : IsAnswer(said[i]) => said[i][2] \in 1 .. n /\ said[i][2] \notin due
  /\ \A i, j \in 1 .. Len(said) :
       IsAnswer(said[i]) /\ said[i][2] = said[j][2] /\ IsAnswer(said[j]) => i = j
  /\ \A i \in 1 .. Len(said) : IsLast(said[i]) => i = Len(said)

Ended(said) == \E i \in 1 .. Len(said) : IsLast(said[i])

\* There is nothing more to say.
Over(k) ==
  /\ k.running = {}
  /\ k.at = "gone" \/ (k.wait # 0 /\ k.at \in {"finish", "rpc", "freezing"})

Once(k) ==
  /\ InTurn(k) /\ Owed(k) /\ Placed(k)
  /\ Given(Said(k), Seen(k), Due(k))
  /\ Ended(Said(k)) => Over(k)

\* A connection that answered a freeze is what it handed over, though its client left.
Carries(k) ==
  LET s == k.reply.what
  IN /\ k.frozen \/ (k.at = "finish" /\ k.hung)
     /\ k.at \in {"rpc", "session", "finish"}
     /\ k.running = {}
     /\ s.buf = k.buf /\ s.out = k.out /\ s.wait = k.wait
     /\ s.kind = "Wait" <=> k.at = "session"
     /\ s.upgrade # 0 => s.upgrade = k.upgrade /\ k.wait = 0

Hands(k, n) == Here(k) /\ k.reply.of = n => Carries(k)

Answering ==
  /\ \A c \in Client : Once(conn[c])
  /\ Live /\ up.stage # "none" /\ up.by \in Client => conn[up.by].attempt = "running"
  /\ runner = "serving" /\ up.stage # "none" => \A c \in Client : Hands(conn[c], up.n)

\* One frame more.
LEMMA GivenMore ==
  ASSUME NEW said \in Seq(Frame), NEW f \in Frame, NEW n \in Int, NEW m \in Int, NEW d, NEW e,
         Given(said, n, d), ~Ended(said), n <= m,
         \A id \in 1 .. n : id \in e => id \in d,
         IsAnswer(f) => f[2] \in 1 .. m /\ f[2] \notin e /\ (f[2] \in d \/ f[2] > n)
  PROVE  /\ Given(Append(said, f), m, e)
         /\ Ended(Append(said, f)) <=> IsLast(f)
<1> DEFINE s == Append(said, f)
<1>1. /\ Len(s) = Len(said) + 1 /\ Len(said) \in Nat /\ s[Len(s)] = f
      /\ \A i \in 1 .. Len(said) : s[i] = said[i]
  OBVIOUS
<1> HIDE DEF s
<1>2. \A i \in 1 .. Len(s) : i \in 1 .. Len(said) \/ i = Len(s)
  BY <1>1
<1>3. Len(s) \in 1 .. Len(s)
  BY <1>1
<1>4. ASSUME NEW i \in 1 .. Len(said), IsAnswer(said[i])
      PROVE  /\ said[i][2] \in 1 .. n /\ said[i][2] \in 1 .. m
             /\ said[i][2] \notin d /\ said[i][2] \notin e
             /\ IsAnswer(f) => said[i][2] # f[2]
  <2>1. said[i][2] \in 1 .. n /\ said[i][2] \notin d
    BY <1>4 DEF Given
  <2> QED
    BY <2>1
<1>5. \A i \in 1 .. Len(s) : IsAnswer(s[i]) => s[i][2] \in 1 .. m /\ s[i][2] \notin e
  BY <1>1, <1>2, <1>4
<1>6. ASSUME NEW i \in 1 .. Len(s), NEW j \in 1 .. Len(s),
             IsAnswer(s[i]), s[i][2] = s[j][2], IsAnswer(s[j])
      PROVE  i = j
  <2>1. CASE i \in 1 .. Len(said) /\ j \in 1 .. Len(said)
    BY <1>1, <1>6, <2>1 DEF Given
  <2>2. CASE ~(i \in 1 .. Len(said) /\ j \in 1 .. Len(said))
    BY <1>1, <1>2, <1>4, <1>6, <2>2
  <2> QED
    BY <2>1, <2>2
<1>7. \A i \in 1 .. Len(s) : IsLast(s[i]) => i = Len(s)
  BY <1>1, <1>2 DEF Ended
<1>8. Ended(s) <=> IsLast(f)
  BY <1>1, <1>2, <1>3 DEF Ended
<1> QED
  BY <1>5, <1>6, <1>7, <1>8 DEF Given, s

\* What is due becomes less, or is read anew.
LEMMA GivenLess ==
  ASSUME NEW said, NEW n \in Int, NEW m \in Int, NEW d, NEW e,
         Given(said, n, d), n <= m, \A id \in 1 .. n : id \in e => id \in d
  PROVE  Given(said, m, e)
<1>1. ASSUME NEW i \in 1 .. Len(said), IsAnswer(said[i])
      PROVE  said[i][2] \in 1 .. m /\ said[i][2] \notin e
  <2>1. said[i][2] \in 1 .. n /\ said[i][2] \notin d
    BY <1>1 DEF Given
  <2> QED
    BY <2>1
<1> QED
  BY <1>1 DEF Given

\* What these are.
LEMMA Measured ==
  ASSUME NEW k \in Connection
  PROVE  /\ Seen(k) \in Int /\ Seen(k) <= k.sent /\ Said(k) \in Seq(Frame) /\ k.sent \in Nat
         /\ Len(k.sock) \in Nat /\ Len(k.buf) \in Nat
<1>1. /\ k.sent \in Nat /\ k.sock \in Seq(Msg) /\ k.buf \in Seq(Msg)
      /\ k.got \in Seq(Frame) /\ k.out \in Seq(Frame)
  BY DEF Connection
<1>2. Len(k.sock) \in Nat /\ Len(k.buf) \in Nat
  BY <1>1
<1>3. k.got \o k.out \in Seq(Frame)
  BY <1>1
<1> QED
  BY <1>1, <1>2, <1>3 DEF Seen, Said

\* A connection that says nothing more, or one frame more.
LEMMA OnceKept ==
  ASSUME NEW k \in Connection, NEW h \in Connection, Once(k), InTurn(h), Owed(h), Placed(h),
         Seen(k) <= Seen(h), \A id \in 1 .. Seen(k) : id \in Due(h) => id \in Due(k),
         Said(h) = Said(k), Ended(Said(k)) => Over(h)
  PROVE  Once(h)
<1>1. Seen(k) \in Int /\ Seen(h) \in Int
  BY Measured
<1>2. Given(Said(h), Seen(h), Due(h))
  BY <1>1, GivenLess DEF Once
<1> QED
  BY <1>2 DEF Once

LEMMA OnceMore ==
  ASSUME NEW k \in Connection, NEW h \in Connection, Once(k), InTurn(h), Owed(h), Placed(h),
         Seen(k) <= Seen(h), \A id \in 1 .. Seen(k) : id \in Due(h) => id \in Due(k),
         NEW f \in Frame, Said(h) = Append(Said(k), f), ~Ended(Said(k)),
         IsAnswer(f) => f[2] \in 1 .. Seen(h) /\ f[2] \notin Due(h) /\ (f[2] \in Due(k) \/ f[2] > Seen(k)),
         IsLast(f) => Over(h)
  PROVE  Once(h)
<1>1. Seen(k) \in Int /\ Seen(h) \in Int /\ Said(k) \in Seq(Frame)
  BY Measured
<1>2. Given(Said(h), Seen(h), Due(h)) /\ (Ended(Said(h)) <=> IsLast(f))
  BY <1>1, GivenMore DEF Once
<1> QED
  BY <1>2 DEF Once

\* Where the frames of a sequence come from.
LEMMA ConcatAt ==
  ASSUME NEW S, NEW a \in Seq(S), NEW b \in Seq(S)
  PROVE  /\ a \o b \in Seq(S) /\ Len(a \o b) = Len(a) + Len(b)
         /\ Len(a) \in Nat /\ Len(b) \in Nat
         /\ \A i \in 1 .. Len(a) : (a \o b)[i] = a[i]
         /\ \A i \in 1 .. Len(b) : (a \o b)[Len(a) + i] = b[i]
OBVIOUS

LEMMA ConcatTwice ==
  ASSUME NEW S, NEW a \in Seq(S), NEW b \in Seq(S), NEW c \in Seq(S)
  PROVE  a \o (b \o c) = (a \o b) \o c
<1> DEFINE x == a \o (b \o c)
           y == (a \o b) \o c
           l == Len(a)
           m == Len(b)
           n == Len(c)
<1>1. /\ b \o c \in Seq(S) /\ Len(b \o c) = m + n /\ l \in Nat /\ m \in Nat /\ n \in Nat
      /\ \A i \in 1 .. m : (b \o c)[i] = b[i]
      /\ \A i \in 1 .. n : (b \o c)[m + i] = c[i]
  BY ConcatAt
<1>2. /\ a \o b \in Seq(S) /\ Len(a \o b) = l + m
      /\ \A i \in 1 .. l : (a \o b)[i] = a[i]
      /\ \A i \in 1 .. m : (a \o b)[l + i] = b[i]
  BY ConcatAt
<1>3. /\ x \in Seq(S) /\ Len(x) = l + (m + n)
      /\ \A i \in 1 .. l : x[i] = a[i]
      /\ \A i \in 1 .. m + n : x[l + i] = (b \o c)[i]
  BY <1>1, ConcatAt
<1>4. /\ y \in Seq(S) /\ Len(y) = (l + m) + n
      /\ \A i \in 1 .. l + m : y[i] = (a \o b)[i]
      /\ \A i \in 1 .. n : y[(l + m) + i] = c[i]
  BY <1>2, ConcatAt
<1> HIDE DEF x, y, l, m, n
<1>5. ASSUME NEW i \in 1 .. Len(x) PROVE x[i] = y[i]
  <2>1. CASE i <= l
    <3>1. i \in 1 .. l /\ i \in 1 .. l + m
      BY <1>1, <1>3, <2>1
    <3> QED
      BY <1>2, <1>3, <1>4, <3>1
  <2>2. CASE i > l /\ i <= l + m
    <3> DEFINE j == i - l
    <3>1. j \in 1 .. m /\ l + j = i /\ j \in 1 .. m + n /\ i \in 1 .. l + m
      BY <1>1, <1>3, <2>2
    <3> HIDE DEF j
    <3>2. x[i] = (b \o c)[j] /\ y[i] = (a \o b)[i]
      BY <1>3, <1>4, <3>1
    <3>3. (b \o c)[j] = b[j] /\ (a \o b)[i] = b[j]
      BY <1>1, <1>2, <3>1
    <3> QED
      BY <3>2, <3>3
  <2>3. CASE i > l + m
    <3> DEFINE j == i - (l + m)
    <3>1. j \in 1 .. n /\ (l + m) + j = i /\ l + (m + j) = i /\ m + j \in 1 .. m + n
      BY <1>1, <1>3, <2>3
    <3> HIDE DEF j
    <3>2. x[i] = (b \o c)[m + j] /\ y[i] = c[j]
      BY <1>3, <1>4, <3>1
    <3> QED
      BY <1>1, <3>1, <3>2
  <2> QED
    BY <1>1, <1>3, <2>1, <2>2, <2>3
<1>6. Len(x) = Len(y)
  BY <1>1, <1>3, <1>4
<1>7. x = y
  BY <1>3, <1>4, <1>5, <1>6, SameSeq
<1> QED
  BY <1>7 DEF x, y

\* A sequence is its head and its tail, and one with a frame more is it and the frame.
LEMMA EndsOf ==
  ASSUME NEW S, NEW s \in Seq(S)
  PROVE  /\ s # <<>> => s = <<Head(s)>> \o Tail(s) /\ Head(s) \in S /\ Tail(s) \in Seq(S)
         /\ \A f \in S : Append(s, f) = s \o <<f>> /\ <<f>> \in Seq(S)
OBVIOUS

\* What is said is what was sent and what is to be written.
LEMMA SaidAt ==
  ASSUME NEW k, k.got \in Seq(Frame), k.out \in Seq(Frame)
  PROVE  /\ Said(k) \in Seq(Frame) /\ Len(k.got) \in Nat /\ Len(k.got) <= Len(Said(k))
         /\ \A i \in 1 .. Len(k.got) : i \in 1 .. Len(Said(k)) /\ Said(k)[i] = k.got[i]
         /\ \A q \in Seq(Frame) : k.got \o (k.out \o q) = Said(k) \o q
         /\ \A f \in Frame : k.got \o Append(k.out, f) = Append(Said(k), f)
<1> DEFINE g == k.got
           o == k.out
           s == g \o o
<1>1. g \in Seq(Frame) /\ o \in Seq(Frame)
  OBVIOUS
<1> HIDE DEF g, o
<1>2. /\ s \in Seq(Frame) /\ Len(s) = Len(g) + Len(o) /\ Len(g) \in Nat /\ Len(o) \in Nat
      /\ \A i \in 1 .. Len(g) : s[i] = g[i]
  BY <1>1, ConcatAt
<1>3. ASSUME NEW q \in Seq(Frame) PROVE g \o (o \o q) = s \o q
  BY <1>1, ConcatTwice
<1> HIDE DEF s
<1>4. ASSUME NEW f \in Frame PROVE g \o Append(o, f) = Append(s, f)
  <2>1. Append(o, f) = o \o <<f>> /\ Append(s, f) = s \o <<f>> /\ <<f>> \in Seq(Frame)
    BY <1>1, <1>2, EndsOf
  <2> QED
    BY <1>3, <2>1
<1>5. Said(k) = s
  BY DEF Said, s, g, o
<1>6. Len(g) <= Len(s) /\ \A i \in 1 .. Len(g) : i \in 1 .. Len(s) /\ s[i] = g[i]
  BY <1>2
<1> QED
  BY <1>2, <1>3, <1>4, <1>5, <1>6 DEF g, o

\* A connection that neither hears nor says anything, and may go on to where it does.
Onward(k, h) ==
  \/ h.at = k.at
  \/ k.at = "backlog" /\ h.at = "rpc"
  \/ k.at = "rpc" /\ h.at = "freezing"
  \/ k.at = "freezing" /\ h.at = "rpc"
  \/ k.at = "rpc" /\ h.at = "finish" /\ k.running = {}
  \/ k.at = "session" /\ h.at = "finish"
  \/ k.at = "drain" /\ h.at = "asking"

LEMMA OnceOnward ==
  ASSUME NEW k \in Connection, NEW h \in Connection, Once(k), Onward(k, h),
         h.sent = k.sent, h.sock = k.sock, h.buf = k.buf, h.got = k.got, h.out = k.out,
         h.running = k.running, h.upgrade = k.upgrade, h.wait = k.wait,
         k.upgrade # 0 <=> h.attempt # "none",
         h.reply.of = k.reply.of \/ h.reply.of = 0 \/ h.at \notin {"away", "backlog"}
  PROVE  Once(h)
<1>1. Seen(h) = Seen(k) /\ Said(h) = Said(k) /\ Seen(k) \in Int
  BY Measured DEF Seen, Said
<1>2. InTurn(h)
  BY <1>1 DEF Once, InTurn
<1>3. Owed(h)
  BY <1>1 DEF Once, Owed, Onward
<1>4. Placed(h)
  BY DEF Once, Placed, Onward
<1>5. \A id \in 1 .. Seen(k) : id \in Due(h) => id \in Due(k)
  BY DEF Due, Onward
<1>6. Ended(Said(k)) => Over(h)
  BY DEF Once, Over, Onward, Placed
<1> QED
  BY <1>1, <1>2, <1>3, <1>4, <1>5, <1>6, OnceKept

\* A frame is written.
LEMMA FlushOnce ==
  ASSUME NEW k \in Connection, NEW h \in Connection, Once(k), k.out # <<>>,
         h = [k EXCEPT !.out = Tail(@), !.got = Append(@, Head(k.out))]
  PROVE  Once(h)
<1>1. k.got \in Seq(Frame) /\ k.out \in Seq(Frame)
  BY DEF Connection
<1>2. Append(k.got, Head(k.out)) \o Tail(k.out) = k.got \o k.out
  <2> DEFINE f == Head(k.out)
             r == Tail(k.out)
             g == k.got
  <2>1. f \in Frame /\ r \in Seq(Frame) /\ k.out = <<f>> \o r /\ g \in Seq(Frame)
    BY <1>1, EndsOf
  <2> HIDE DEF f, r, g
  <2>2. Append(g, f) = g \o <<f>> /\ <<f>> \in Seq(Frame)
    BY <2>1, EndsOf
  <2>3. g \o (<<f>> \o r) = (g \o <<f>>) \o r
    BY <2>1, <2>2, ConcatTwice
  <2> QED
    BY <2>1, <2>2, <2>3 DEF f, r, g
<1>3. /\ h.at = k.at /\ h.sent = k.sent /\ h.sock = k.sock /\ h.buf = k.buf
      /\ h.running = k.running /\ h.upgrade = k.upgrade /\ h.wait = k.wait
      /\ h.attempt = k.attempt /\ h.reply = k.reply
      /\ h.got = Append(k.got, Head(k.out)) /\ h.out = Tail(k.out)
  BY DEF Connection
<1>4. Seen(h) = Seen(k) /\ Said(h) = Said(k) /\ Seen(k) \in Int
  BY <1>2, <1>3, Measured DEF Seen, Said
<1>5. InTurn(h) /\ Owed(h) /\ Placed(h)
  BY <1>3, <1>4 DEF Once, InTurn, Owed, Placed
<1>6. Due(h) = Due(k) /\ (Over(k) => Over(h))
  BY <1>3 DEF Due, Over
<1> QED
  BY <1>4, <1>5, <1>6, OnceKept DEF Once

\* What was sent of a connection that is closed.
LEMMA GoneOnce ==
  ASSUME NEW k \in Connection, Once(k)
  PROVE  Once(Gone(k))
<1> DEFINE h == Gone(k)
<1>1. /\ h.at = "gone" /\ h.sent = k.sent /\ h.sock = <<>> /\ h.buf = <<>> /\ h.got = k.got
      /\ h.out = <<>> /\ h.running = {} /\ h.upgrade = k.upgrade /\ h.wait = 0
      /\ h.attempt = k.attempt
  BY DEF Gone, Away
<1> HIDE DEF h
<1>2. k.got \in Seq(Frame) /\ k.out \in Seq(Frame)
  BY DEF Connection
<1>3. Said(h) = k.got
  BY <1>1, <1>2 DEF Said
<1>4. /\ Len(k.got) \in Nat /\ Len(Said(k)) >= Len(k.got)
      /\ \A i \in 1 .. Len(k.got) : i \in 1 .. Len(Said(k)) /\ Said(k)[i] = k.got[i]
  BY <1>2, SaidAt
<1>5. Seen(h) = k.sent /\ Seen(k) \in Int /\ Seen(k) <= k.sent /\ k.sent \in Nat
  BY <1>1, Measured DEF Seen
<1>6. InTurn(h) /\ Placed(h) /\ Over(h)
  <2>1. \A p, q : Turns(<<>>, p, q)
    BY DEF Turns
  <2> QED
    BY <1>1, <2>1 DEF InTurn, Placed, Over
<1>7. Owed(h)
  BY <1>1, <1>5 DEF Once, Owed
<1>8. Due(h) = {k.upgrade} /\ k.upgrade \in Due(k)
  BY <1>1 DEF Due
<1>9. Given(k.got, Seen(h), Due(h))
  <2>1. ASSUME NEW i \in 1 .. Len(k.got), IsAnswer(k.got[i])
        PROVE  k.got[i][2] \in 1 .. Seen(h) /\ k.got[i][2] \notin Due(h)
    <3>1. k.got[i][2] \in 1 .. Seen(k) /\ k.got[i][2] \notin Due(k)
      BY <1>4, <2>1 DEF Once, Given
    <3> QED
      BY <1>5, <1>8, <3>1
  <2>2. \A i, j \in 1 .. Len(k.got) :
          IsAnswer(k.got[i]) /\ k.got[i][2] = k.got[j][2] /\ IsAnswer(k.got[j]) => i = j
    BY <1>4 DEF Once, Given
  <2>3. ASSUME NEW i \in 1 .. Len(k.got), IsLast(k.got[i]) PROVE i = Len(k.got)
    <3>1. i = Len(Said(k))
      BY <1>4, <2>3 DEF Once, Given
    <3> QED
      BY <1>4, <3>1
  <2> QED
    BY <2>1, <2>2, <2>3 DEF Given
<1> QED
  BY <1>3, <1>6, <1>7, <1>9 DEF Once, h

\* The replies of handlers.
LEMMA RepliedOnce ==
  ASSUME NEW k, Conn(k), Once(k), NEW ids \in SUBSET Nat
  PROVE  Once(Replied(k, ids))
<1> DEFINE S == {<<"answer", id>> : id \in ids \cap k.running}
           q == SetToSeq(S)
           h == Replied(k, ids)
<1> SUFFICES Once(h)
  OBVIOUS
<1>1. k \in Connection /\ h \in Connection /\ k.running \in SUBSET Nat /\ IsFiniteSet(ids \cap k.running)
  BY ConnKept, FS_Subset DEF Conn, Connection
<1>2. /\ h.at = k.at /\ h.sent = k.sent /\ h.sock = k.sock /\ h.buf = k.buf
      /\ h.upgrade = k.upgrade /\ h.wait = k.wait /\ h.attempt = k.attempt /\ h.reply = k.reply
      /\ h.got = k.got /\ h.running = k.running \ ids /\ h.out = k.out \o q
  BY <1>1 DEF Replied, Connection
<1>3. IsFiniteSet(S)
  <2> DEFINE T == ids \cap k.running
             f == [id \in T |-> <<"answer", id>>]
  <2>1. f \in Surjection(T, S)
    BY DEF Surjection
  <2> HIDE DEF f, S
  <2> QED
    BY <1>1, <2>1, FS_Surjection
<1>4. \A e \in S : e \in Frame /\ e[1] = "answer" /\ e[2] \in ids /\ e[2] \in k.running /\ e = <<"answer", e[2]>>
  BY <1>1 DEF Frame
<1>5. k.running = {} => S = {}
  OBVIOUS
<1> HIDE DEF S
<1>6. /\ q \in Seq(S) /\ \A i, j \in 1 .. Len(q) : q[i] = q[j] => i = j
      /\ S = {} => q = <<>>
  BY <1>3, SeqOfSet
<1>7. Said(k) \in Seq(Frame) /\ k.got \in Seq(Frame) /\ k.out \in Seq(Frame) /\ q \in Seq(Frame)
      /\ Seen(k) \in Int
  <2>1. k.got \in Seq(Frame) /\ k.out \in Seq(Frame)
    BY <1>1 DEF Connection
  <2>2. S \subseteq Frame
    BY <1>4
  <2> HIDE DEF q
  <2>3. q \in Seq(Frame)
    BY <1>6, <2>2
  <2> QED
    BY <1>1, <2>1, <2>3, Measured
<1> HIDE DEF q, h
<1>8. Said(h) = Said(k) \o q
  <2>1. Said(h) = k.got \o (k.out \o q)
    BY <1>2 DEF Said
  <2> QED
    BY <1>7, <2>1, SaidAt
<1>9. Seen(h) = Seen(k)
  BY <1>2 DEF Seen
<1>10. InTurn(h) /\ Owed(h) /\ Placed(h)
  BY <1>2, <1>9 DEF Once, InTurn, Owed, Placed
<1>11. CASE k.running = {}
  <2>1. Said(h) = Said(k) /\ h.running = {}
    BY <1>2, <1>5, <1>6, <1>7, <1>8, <1>11
  <2>2. Due(h) = Due(k) /\ (Over(k) => Over(h))
    BY <1>2, <1>11, <2>1 DEF Due, Over
  <2> QED
    BY <1>1, <1>7, <1>9, <1>10, <2>1, <2>2, OnceKept DEF Once
<1>12. CASE k.running # {}
  <2>1. ~Ended(Said(k))
    BY <1>12 DEF Once, Over
  <2> DEFINE s == Said(k) \o q
             n == Len(Said(k))
  <2>2. /\ n \in Nat /\ Len(s) = n + Len(q) /\ Len(q) \in Nat
        /\ \A i \in 1 .. n : s[i] = Said(k)[i]
        /\ \A i \in 1 .. Len(q) : s[n + i] = q[i]
    BY <1>7
  <2> HIDE DEF s, n
  <2>3. ASSUME NEW i \in 1 .. Len(s)
        PROVE  i \in 1 .. n \/ (i - n \in 1 .. Len(q) /\ s[i] = q[i - n])
    <3>1. CASE i <= n
      BY <2>2, <3>1
    <3>2. CASE i > n
      <4>1. i - n \in 1 .. Len(q) /\ n + (i - n) = i
        BY <2>2, <3>2
      <4> QED
        BY <2>2, <4>1
    <3> QED
      BY <2>2, <3>1, <3>2
  <2>4. ASSUME NEW i \in 1 .. Len(q)
        PROVE  /\ IsAnswer(q[i]) /\ ~IsLast(q[i]) /\ q[i] = <<"answer", q[i][2]>>
               /\ q[i][2] \in Due(k) /\ q[i][2] \notin Due(h) /\ q[i][2] \in 1 .. Seen(k)
    <3>1. q[i] \in S
      BY <1>6, <2>4
    <3>2. q[i][1] = "answer" /\ q[i][2] \in ids /\ q[i][2] \in k.running /\ q[i] = <<"answer", q[i][2]>>
      BY <1>4, <3>1
    <3>3. q[i][2] \in 1 .. Seen(k) /\ q[i][2] # 0
      BY <1>7, <3>2 DEF Once, Owed
    <3>4. q[i][2] # k.upgrade /\ (k.at \in {"drain", "asking"} => q[i][2] # k.wait)
      BY <3>2, <3>3 DEF Once, Owed
    <3> QED
      BY <1>2, <3>2, <3>3, <3>4 DEF IsAnswer, IsLast, Due
  <2>5. ASSUME NEW i \in 1 .. n
        PROVE  /\ IsAnswer(s[i]) => s[i][2] \in 1 .. Seen(k) /\ s[i][2] \notin Due(k)
               /\ ~IsLast(s[i])
    BY <2>1, <2>2 DEF Once, Given, Ended, n
  <2>6. \A id : id \in Due(h) => id \in Due(k)
    BY <1>2 DEF Due
  <2>7. ASSUME NEW i \in 1 .. Len(s)
        PROVE  /\ IsAnswer(s[i]) => s[i][2] \in 1 .. Seen(k) /\ s[i][2] \notin Due(h)
               /\ ~IsLast(s[i])
    BY <2>3, <2>4, <2>5, <2>6
  <2>8. ASSUME NEW i \in 1 .. Len(s), NEW j \in 1 .. Len(s),
               IsAnswer(s[i]), s[i][2] = s[j][2], IsAnswer(s[j])
        PROVE  i = j
    <3>1. CASE i \in 1 .. n /\ j \in 1 .. n
      BY <2>2, <2>8, <3>1 DEF Once, Given, n
    <3>2. CASE i \in 1 .. n /\ j \notin 1 .. n
      BY <2>3, <2>4, <2>5, <2>8, <3>2
    <3>3. CASE i \notin 1 .. n /\ j \in 1 .. n
      BY <2>3, <2>4, <2>5, <2>8, <3>3
    <3>4. CASE i \notin 1 .. n /\ j \notin 1 .. n
      <4>1. /\ i - n \in 1 .. Len(q) /\ s[i] = q[i - n]
            /\ j - n \in 1 .. Len(q) /\ s[j] = q[j - n]
        BY <2>3, <3>4
      <4>2. q[i - n] = q[j - n]
        BY <2>4, <2>8, <4>1
      <4>3. i - n = j - n
        BY <1>6, <4>1, <4>2
      <4> QED
        BY <2>2, <4>3
    <3> QED
      BY <3>1, <3>2, <3>3, <3>4
  <2>9. Given(s, Seen(h), Due(h)) /\ ~Ended(s)
    BY <1>9, <2>7, <2>8 DEF Given, Ended
  <2> QED
    BY <1>8, <1>10, <2>9 DEF Once, s
<1> QED
  BY <1>11, <1>12

\* The rest of a sequence, and a part of it.
LEMMA NoneLeft ==
  ASSUME NEW S, NEW s \in Seq(S), Len(s) = 0
  PROVE  s = <<>>
OBVIOUS

LEMMA TailAt ==
  ASSUME NEW S, NEW s \in Seq(S), s # <<>>
  PROVE  /\ Len(s) \in Nat /\ Len(s) > 0 /\ Tail(s) \in Seq(S) /\ Len(Tail(s)) = Len(s) - 1
         /\ Head(s) = s[1] /\ Head(s) \in S
         /\ \A i \in 1 .. Len(Tail(s)) : i + 1 \in 1 .. Len(s) /\ Tail(s)[i] = s[i + 1]
OBVIOUS

\* x is the part of s past the first m; and what comes first of s.
PartOf(x, s, m) ==
  /\ Len(s) \in Nat /\ Len(x) \in Nat /\ m + Len(x) <= Len(s)
  /\ \A i \in 1 .. Len(x) : x[i] = s[m + i]

First(s, p, after) ==
  /\ s[1][2] = p + 1
  /\ s[1][1] = "hello" \/ s[1][2] # 0
  /\ s[1][1] = "wait" => Len(s) = 1 /\ after = <<>>

LEMMA TurnsPart ==
  ASSUME NEW s, NEW x, NEW p \in Int, NEW q \in Int, NEW a, NEW b, Turns(s, p, a),
         NEW m \in Nat, PartOf(x, s, m), q = p + m, m + Len(x) = Len(s) => a = b
  PROVE  Turns(x, q, b)
<1> DEFINE l == Len(x)
<1>0. /\ Len(s) \in Nat /\ l \in Nat /\ m + l <= Len(s)
      /\ \A i \in 1 .. l : x[i] = s[m + i]
  BY DEF PartOf
<1> HIDE DEF l
<1> SUFFICES ASSUME NEW i \in 1 .. l
             PROVE  /\ x[i][2] = q + i
                    /\ x[i][1] = "hello" \/ x[i][2] # 0
                    /\ x[i][1] = "wait" => i = l /\ b = <<>>
  BY DEF Turns, l
<1>1. m + i \in 1 .. Len(s) /\ x[i] = s[m + i] /\ p + (m + i) = q + i
      /\ (m + i = Len(s) => i = l /\ m + l = Len(s))
  BY <1>0
<1>2. /\ s[m + i][2] = p + (m + i)
      /\ s[m + i][1] = "hello" \/ s[m + i][2] # 0
      /\ s[m + i][1] = "wait" => m + i = Len(s) /\ a = <<>>
  BY <1>1 DEF Turns
<1> QED
  BY <1>1, <1>2 DEF l

LEMMA TurnsFirst ==
  ASSUME NEW s, NEW p \in Int, NEW a, Turns(s, p, a), Len(s) \in Nat, Len(s) > 0
  PROVE  First(s, p, a)
<1>1. 1 \in 1 .. Len(s)
  OBVIOUS
<1> QED
  BY <1>1 DEF Turns, First

LEMMA PartAt ==
  ASSUME NEW S, NEW s \in Seq(S), NEW m \in 1 .. Len(s) + 1, NEW n \in m - 1 .. Len(s)
  PROVE  /\ SubSeq(s, m, n) \in Seq(S) /\ Len(SubSeq(s, m, n)) = n - m + 1
         /\ \A i \in 1 .. Len(SubSeq(s, m, n)) : SubSeq(s, m, n)[i] = s[m - 1 + i]
OBVIOUS

\* The first request that was not read is read: k is j without it.
NextUp(j, k, msg) ==
  /\ InTurn(k) /\ Seen(k) = Seen(j) + 1 /\ msg[2] = Seen(k)
  /\ msg[1] = "hello" \/ msg[2] # 0
  /\ msg[1] = "wait" => k.buf = <<>> /\ k.sock = <<>>

LEMMA FromBuf ==
  ASSUME NEW j \in Connection, NEW k \in Connection, InTurn(j), j.buf # <<>>,
         k.buf = Tail(j.buf), k.sock = j.sock, k.sent = j.sent, k.wait = j.wait
  PROVE  NextUp(j, k, Head(j.buf)) /\ j.wait = 0
<1>1. j.buf \in Seq(Msg) /\ j.wait = 0 /\ Seen(j) \in Int
  BY Measured DEF Connection, InTurn
<1> DEFINE b == j.buf
           r == Tail(b)
<1>2. /\ Len(b) \in Nat /\ Len(b) > 0 /\ Len(r) = Len(b) - 1 /\ Head(b) = b[1]
      /\ \A i \in 1 .. Len(r) : i + 1 \in 1 .. Len(b) /\ r[i] = b[i + 1]
      /\ Len(r) = 0 => r = <<>>
  <2> HIDE DEF b
  <2>1. b \in Seq(Msg) /\ b # <<>>
    BY <1>1 DEF b
  <2> QED
    BY <2>1, TailAt, NoneLeft
<1>3. Seen(k) = Seen(j) + 1
  <2>1. Seen(j) = j.sent - Len(j.sock) - Len(b) /\ Seen(k) = j.sent - Len(j.sock) - Len(r)
    BY DEF Seen
  <2>2. j.sent \in Nat /\ Len(j.sock) \in Nat
    BY Measured
  <2> HIDE DEF b, r
  <2> QED
    BY <1>2, <2>1, <2>2
<1>4. Turns(b, Seen(j), j.sock) /\ Turns(j.sock, j.sent - Len(j.sock), <<>>) /\ k.buf = r
  BY DEF InTurn
<1> HIDE DEF b, r
<1>5. Turns(r, Seen(k), j.sock)
  <2>1. PartOf(r, b, 1)
    BY <1>1, <1>2 DEF PartOf
  <2>2. 1 \in Nat /\ Seen(k) \in Int
    BY <1>1, <1>3
  <2> QED
    BY <1>1, <1>3, <1>4, <2>1, <2>2, TurnsPart
<1>6. InTurn(k)
  BY <1>1, <1>4, <1>5 DEF InTurn
<1>7. First(b, Seen(j), j.sock)
  BY <1>1, <1>2, <1>4, TurnsFirst
<1>8. Len(b) = 1 => r = <<>>
  BY <1>2
<1> QED
  BY <1>1, <1>2, <1>3, <1>4, <1>6, <1>7, <1>8 DEF NextUp, First, b

LEMMA FromSock ==
  ASSUME NEW j \in Connection, NEW k \in Connection, InTurn(j), j.buf = <<>>,
         NEW n \in 1 .. Len(j.sock),
         k.buf = SubSeq(j.sock, 2, n), k.sock = SubSeq(j.sock, n + 1, Len(j.sock)),
         k.sent = j.sent, k.wait = j.wait
  PROVE  NextUp(j, k, Head(j.sock)) /\ j.wait = 0
<1> DEFINE s == j.sock
           b == SubSeq(s, 2, n)
           r == SubSeq(s, n + 1, Len(s))
<1>1. /\ s \in Seq(Msg) /\ Len(s) \in Nat /\ Seen(j) \in Int /\ j.sent \in Nat
      /\ n \in Nat /\ n >= 1 /\ n <= Len(s)
  <2>1. s \in Seq(Msg)
    BY DEF Connection
  <2>2. Len(j.sock) \in Nat /\ Seen(j) \in Int /\ j.sent \in Nat
    BY Measured
  <2> QED
    BY <2>1, <2>2
<1>3. j.wait = 0
  <2>1. j.sock # <<>>
    BY <1>1
  <2> QED
    BY <2>1 DEF InTurn
<1>7. k.buf = b /\ k.sock = r
  OBVIOUS
<1>8. Seen(j) = j.sent - Len(s)
  BY <1>1 DEF Seen
<1> HIDE DEF s
<1>2. s # <<>> /\ Head(s) = s[1]
  BY <1>1
<1>4. b \in Seq(Msg) /\ Len(b) = n - 1 /\ \A i \in 1 .. Len(b) : b[i] = s[i + 1]
  <2>1. 2 \in 1 .. Len(s) + 1 /\ n \in 2 - 1 .. Len(s)
    BY <1>1
  <2>2. /\ b \in Seq(Msg) /\ Len(b) = n - 2 + 1
        /\ \A i \in 1 .. Len(b) : b[i] = s[2 - 1 + i]
    BY <1>1, <2>1, PartAt
  <2> HIDE DEF b
  <2> QED
    BY <1>1, <2>2
<1>5. r \in Seq(Msg) /\ Len(r) = Len(s) - n /\ \A i \in 1 .. Len(r) : r[i] = s[n + i]
  <2>1. n + 1 \in 1 .. Len(s) + 1 /\ Len(s) \in (n + 1) - 1 .. Len(s)
    BY <1>1
  <2>2. /\ r \in Seq(Msg) /\ Len(r) = Len(s) - (n + 1) + 1
        /\ \A i \in 1 .. Len(r) : r[i] = s[(n + 1) - 1 + i]
    BY <1>1, <2>1, PartAt
  <2> HIDE DEF r
  <2> QED
    BY <1>1, <2>2
<1> HIDE DEF b, r
<1>6. (n = 1 => b = <<>>) /\ (n = Len(s) => r = <<>>)
  BY <1>1, <1>4, <1>5, NoneLeft
<1>9. Seen(k) = Seen(j) + 1 /\ k.sent - Len(r) = Seen(j) + n
  <2>1. Seen(k) = j.sent - Len(r) - Len(b) /\ k.sent = j.sent
    BY <1>7 DEF Seen
  <2> QED
    BY <1>1, <1>4, <1>5, <1>8, <2>1
<1>10. Turns(s, Seen(j), <<>>)
  BY <1>8 DEF InTurn, s
<1>11. Turns(b, Seen(k), r)
  <2>1. PartOf(b, s, 1) /\ (1 + Len(b) = Len(s) => <<>> = r)
    BY <1>1, <1>4, <1>6 DEF PartOf
  <2>2. 1 \in Nat /\ Seen(k) \in Int
    BY <1>1, <1>9
  <2> QED
    BY <1>1, <1>9, <1>10, <2>1, <2>2, TurnsPart
<1>12. Turns(r, k.sent - Len(r), <<>>)
  <2>1. PartOf(r, s, n) /\ k.sent - Len(r) \in Int
    BY <1>1, <1>5, <1>9 DEF PartOf
  <2> QED
    BY <1>1, <1>5, <1>9, <1>10, <2>1, TurnsPart
<1>13. InTurn(k)
  BY <1>3, <1>7, <1>11, <1>12 DEF InTurn
<1>15. First(s, Seen(j), <<>>)
  <2>1. Len(s) \in Nat /\ Len(s) > 0
    BY <1>1
  <2> QED
    BY <1>1, <1>10, <2>1, TurnsFirst
<1>16. Len(s) = 1 => b = <<>> /\ r = <<>>
  <2>1. Len(s) = 1 => n = 1 /\ n = Len(s)
    BY <1>1
  <2> QED
    BY <1>6, <2>1
<1> QED
  BY <1>2, <1>3, <1>7, <1>9, <1>13, <1>15, <1>16 DEF NextUp, First, s

\* It is handled, and has a number past all that were.
LEMMA TakenOnce ==
  ASSUME NEW j \in Connection, NEW k, Conn(k), Once(j), NEW msg \in Msg, NextUp(j, k, msg),
         j.at = "rpc", j.wait = 0, NEW c \in Client, kern \in KernelState,
         k.at = j.at, k.sent = j.sent, k.got = j.got, k.out = j.out, k.running = j.running,
         k.upgrade = j.upgrade, k.attempt = j.attempt, k.wait = j.wait, k.reply = j.reply
  PROVE  /\ Once(Taken(k, c, msg).conn)
         /\ j.attempt = "running" => Taken(k, c, msg).conn.attempt = "running"
<1> DEFINE h == Taken(k, c, msg).conn
           n == msg[2]
<1>0. /\ k \in Connection /\ h \in Connection /\ n \in Nat
      /\ msg[1] \in {"hello", "call", "quit", "wait", "upgrade"} /\ msg = <<msg[1], n>>
      /\ Seen(j) \in Int /\ k.got \in Seq(Frame) /\ k.out \in Seq(Frame)
  <2>1. k \in Connection /\ h \in Connection
    BY TakenTyped DEF Conn
  <2>2. /\ n \in Nat /\ msg = <<msg[1], n>>
        /\ msg[1] \in {"hello", "call", "quit", "wait", "upgrade"}
    BY DEF Msg
  <2>3. k.got \in Seq(Frame) /\ k.out \in Seq(Frame)
    BY <2>1 DEF Connection
  <2> QED
    BY <2>1, <2>2, <2>3, Measured
<1> SUFFICES Once(h) /\ (j.attempt = "running" => h.attempt = "running")
  OBVIOUS
<1>1. ~Ended(Said(j)) /\ Said(k) = Said(j)
  BY DEF Once, Over, Said
<1>2. n = Seen(j) + 1 /\ Seen(k) = n /\ (msg[1] = "hello" \/ n # 0)
  BY DEF NextUp
<1>3. /\ j.running \subseteq 1 .. Seen(j)
      /\ j.upgrade # 0 => j.upgrade \in 1 .. Seen(j) /\ j.upgrade \notin j.running
      /\ j.upgrade # 0 <=> j.attempt # "none"
  BY DEF Once, Owed
<1>4. n \notin j.running /\ (n # 0 => n # j.upgrade) /\ 1 .. Seen(j) \subseteq 1 .. n
      /\ Seen(j) <= n /\ n > Seen(j)
  BY <1>0, <1>2, <1>3
<1>5. Due(j) = j.running \cup {j.upgrade}
  BY DEF Due
<1>6. ASSUME h.sent = k.sent, h.buf = k.buf, h.sock = k.sock, h.wait = 0 \/ msg[1] = "wait"
      PROVE  InTurn(h) /\ Seen(h) = n
  <2>1. Seen(h) = Seen(k)
    BY <1>6 DEF Seen
  <2>2. InTurn(h)
    BY <1>6, <2>1 DEF NextUp, InTurn
  <2> QED
    BY <1>2, <2>1, <2>2
<1>7. CASE msg[1] = "hello"
  <2> DEFINE o == Append(k.out, msg)
  <2>1. h = [k EXCEPT !.hello = TRUE, !.out = o]
    BY <1>0, <1>7 DEF Taken, Connection
  <2>6. msg \in Frame
    BY <1>0, <1>7 DEF Frame
  <2>7. k.got \o o = Append(Said(j), msg)
    BY <1>0, <1>1, <2>6, SaidAt
  <2> HIDE DEF o, h
  <2>2. /\ h.at = "rpc" /\ h.sent = k.sent /\ h.buf = k.buf /\ h.sock = k.sock /\ h.wait = 0
        /\ h.running = j.running /\ h.upgrade = j.upgrade /\ h.attempt = j.attempt
        /\ h.got = k.got /\ h.out = o /\ h.reply = j.reply
    BY <1>0, <2>1 DEF Connection
  <2>3. InTurn(h) /\ Seen(h) = n /\ Owed(h) /\ Placed(h) /\ Due(h) = Due(j)
    BY <1>3, <1>4, <1>6, <2>2 DEF Owed, Placed, Due
  <2>4. msg \in Frame /\ ~IsAnswer(msg) /\ ~IsLast(msg)
    BY <1>0, <1>7 DEF Frame, IsAnswer, IsLast
  <2>5. Said(h) = Append(Said(j), msg)
    BY <2>2, <2>7 DEF Said
  <2> QED
    BY <1>0, <1>1, <1>4, <2>2, <2>3, <2>4, <2>5, OnceMore
<1>8. CASE msg[1] \in {"call", "quit"}
  <2> DEFINE r == k.running \cup {n}
  <2>1. h = [k EXCEPT !.running = r]
    BY <1>0, <1>8 DEF Taken, Handle, Connection
  <2> HIDE DEF r, h
  <2>2. /\ h.at = "rpc" /\ h.sent = k.sent /\ h.buf = k.buf /\ h.sock = k.sock /\ h.wait = 0
        /\ h.running = r /\ h.upgrade = j.upgrade /\ h.attempt = j.attempt
        /\ h.got = k.got /\ h.out = k.out /\ h.reply = j.reply
    BY <1>0, <2>1 DEF Connection
  <2>3. r = j.running \cup {n} /\ n # 0 /\ n \in 1 .. n
    BY <1>0, <1>2, <1>8 DEF r
  <2>4. InTurn(h) /\ Seen(h) = n
    BY <1>6, <2>2
  <2>5. Owed(h)
    BY <1>3, <1>4, <2>2, <2>3, <2>4 DEF Owed
  <2>6. Placed(h)
    BY <2>2 DEF Placed
  <2>7. \A id \in 1 .. Seen(j) : id \in Due(h) => id \in Due(j)
    BY <1>0, <1>4, <1>5, <2>2, <2>3 DEF Due
  <2>8. Said(h) = Said(j)
    BY <1>1, <2>2 DEF Said
  <2> QED
    BY <1>0, <1>1, <1>4, <2>2, <2>4, <2>5, <2>6, <2>7, <2>8, OnceKept
<1>9. CASE msg[1] = "wait"
  <2>1. h = [k EXCEPT !.at = "drain", !.wait = n, !.dropped = k.upgrade]
    BY <1>0, <1>9 DEF Taken, Connection
  <2> HIDE DEF h
  <2>2. /\ h.at = "drain" /\ h.sent = k.sent /\ h.buf = k.buf /\ h.sock = k.sock /\ h.wait = n
        /\ h.running = j.running /\ h.upgrade = j.upgrade /\ h.attempt = j.attempt
        /\ h.got = k.got /\ h.out = k.out /\ h.reply = j.reply
    BY <1>0, <2>1 DEF Connection
  <2>3. n # 0 /\ n \in 1 .. n
    BY <1>0, <1>2, <1>9
  <2>4. InTurn(h) /\ Seen(h) = n
    BY <1>6, <1>9, <2>2
  <2>5. Owed(h)
    BY <1>3, <1>4, <2>2, <2>3, <2>4 DEF Owed
  <2>6. Placed(h)
    BY <2>2 DEF Placed
  <2>7. \A id \in 1 .. Seen(j) : id \in Due(h) => id \in Due(j)
    BY <1>0, <1>4, <1>5, <2>2, <2>3 DEF Due
  <2>8. Said(h) = Said(j)
    BY <1>1, <2>2 DEF Said
  <2> QED
    BY <1>0, <1>1, <1>4, <2>2, <2>4, <2>5, <2>6, <2>7, <2>8, OnceKept
<1>10. CASE msg[1] = "upgrade" /\ k.upgrade # 0
  <2> DEFINE f == <<"error", n>>
             o == Append(k.out, f)
  <2>1. h = [k EXCEPT !.out = o]
    BY <1>0, <1>10 DEF Taken, Connection
  <2>2. f \in Frame /\ IsAnswer(f) /\ ~IsLast(f) /\ f[2] = n
    BY <1>0 DEF Frame, IsAnswer, IsLast
  <2> HIDE DEF f
  <2>3. k.got \o o = Append(Said(j), f)
    BY <1>0, <1>1, <2>2, SaidAt
  <2> HIDE DEF o, h
  <2>4. /\ h.at = "rpc" /\ h.sent = k.sent /\ h.buf = k.buf /\ h.sock = k.sock /\ h.wait = 0
        /\ h.running = j.running /\ h.upgrade = j.upgrade /\ h.attempt = j.attempt
        /\ h.got = k.got /\ h.out = o /\ h.reply = j.reply
    BY <1>0, <2>1 DEF Connection
  <2>5. InTurn(h) /\ Seen(h) = n /\ Owed(h) /\ Placed(h) /\ Due(h) = Due(j)
    BY <1>3, <1>4, <1>6, <2>4 DEF Owed, Placed, Due
  <2>6. n \in 1 .. n /\ n \notin Due(h)
    BY <1>0, <1>2, <1>4, <1>5, <1>10, <2>5
  <2>7. Said(h) = Append(Said(j), f)
    BY <2>3, <2>4 DEF Said
  <2> QED
    BY <1>0, <1>1, <1>4, <2>2, <2>4, <2>5, <2>6, <2>7, OnceMore
<1>11. CASE msg[1] = "upgrade" /\ k.upgrade = 0
  <2>1. h = [k EXCEPT !.upgrade = n, !.attempt = "spawned"]
    BY <1>0, <1>11 DEF Taken, Connection
  <2> HIDE DEF h
  <2>2. /\ h.at = "rpc" /\ h.sent = k.sent /\ h.buf = k.buf /\ h.sock = k.sock /\ h.wait = 0
        /\ h.running = j.running /\ h.upgrade = n /\ h.attempt = "spawned"
        /\ h.got = k.got /\ h.out = k.out /\ h.reply = j.reply
    BY <1>0, <2>1 DEF Connection
  <2>3. n # 0 /\ n \in 1 .. n
    BY <1>0, <1>2, <1>11
  <2>4. InTurn(h) /\ Seen(h) = n
    BY <1>6, <2>2
  <2>5. Owed(h)
    BY <1>3, <1>4, <2>2, <2>3, <2>4 DEF Owed
  <2>6. Placed(h)
    BY <2>2 DEF Placed
  <2>7. \A id \in 1 .. Seen(j) : id \in Due(h) => id \in Due(j)
    BY <1>0, <1>4, <1>5, <2>2, <2>3 DEF Due
  <2>8. Said(h) = Said(j) /\ j.attempt = "none"
    BY <1>1, <1>3, <1>11, <2>2 DEF Said
  <2> QED
    BY <1>0, <1>1, <1>4, <2>2, <2>4, <2>5, <2>6, <2>7, <2>8, OnceKept
<1> QED
  BY <1>0, <1>7, <1>8, <1>9, <1>10, <1>11

-----------------------------------------------------------------------------
(* What a step does to what its connection was asked and handed over *)

\* Where it hands over what it handed over, it goes on to.
HandsOn(k, h, n) ==
  /\ Hands(k, n) /\ n # 0
  /\ k.closing => k.hung
  /\ Here(k) /\ k.reply.of = n => k.ctl = <<>>
  => Hands(h, n)

Fares(k, h) ==
  /\ Once(h)
  /\ k.attempt = "running" => h.attempt = "running"
  /\ \A n \in Nat : HandsOn(k, h, n)

\* One that did not hand over anything, or does not go on.
LEMMA NotHanded ==
  ASSUME NEW k, NEW h, Placed(k), NEW n \in Nat,
         \/ ~Here(h)
         \/ /\ h.reply = k.reply
            /\ k.at # "gone"
            /\ \/ k.at \notin {"rpc", "session", "finish"}
               \/ ~k.frozen /\ ~(k.at = "finish" /\ k.hung)
  PROVE  HandsOn(k, h, n)
BY DEF HandsOn, Hands, Here, Carries, Placed

\* One that stays as it is.
LEMMA StillHanded ==
  ASSUME NEW k, NEW h, NEW n \in Nat, h.reply = k.reply, h.at = k.at, h.frozen = k.frozen, k.hung => h.hung,
         h.running = k.running, h.buf = k.buf, h.out = k.out, h.wait = k.wait,
         h.upgrade = k.upgrade
  PROVE  HandsOn(k, h, n)
BY DEF HandsOn, Hands, Here, Carries

\* What is asked and said stays.
SameBut(k, h) ==
  /\ h.sent = k.sent /\ h.sock = k.sock /\ h.buf = k.buf /\ h.got = k.got /\ h.out = k.out
  /\ h.running = k.running /\ h.upgrade = k.upgrade /\ h.wait = k.wait /\ h.attempt = k.attempt

\* What comes from a client, and the accept loop.
LEMMA ComingFares ==
  ASSUME ConnTypes, ConnTypes', NEW c \in Client, Once(conn[c]),
         \/ Connect(c) \/ HangUp(c) \/ Accept(c) \/ Verdict(c)
  PROVE  Fares(conn[c], conn'[c])
<1> DEFINE k == conn[c]
           h == conn'[c]
<1>0. conn \in [Client -> Connection] /\ k \in Connection /\ h \in Connection /\ Once(k)
      /\ Placed(k) /\ (k.upgrade # 0 <=> k.attempt # "none")
  BY DEF ConnTypes, Once, Owed
<1> SUFFICES Fares(k, h)
  OBVIOUS
<1>1. CASE Connect(c)
  <2> DEFINE s == <<<<"hello", 0>>>>
  <2>1. h = [k EXCEPT !.at = "backlog", !.sock = s] /\ k.at = "away"
    BY <1>0, <1>1 DEF Connect
  <2>2. Len(s) = 1 /\ Turns(s, -1, <<>>) /\ \A p : Turns(<<>>, p, s)
    BY DEF Turns
  <2> HIDE DEF s, k, h
  <2>3. /\ h.at = "backlog" /\ h.sent = k.sent /\ h.buf = k.buf /\ h.sock = s /\ h.wait = k.wait
        /\ h.running = k.running /\ h.upgrade = k.upgrade /\ h.attempt = k.attempt
        /\ h.got = k.got /\ h.out = k.out /\ h.reply = k.reply
    BY <1>0, <2>1 DEF Connection
  <2>4. k.buf = <<>> /\ k.wait = 0 /\ k.sent = 0 /\ k.reply.of = 0
    BY <1>0, <2>1 DEF Placed
  <2>5. Seen(h) = -1 /\ h.sent - Len(h.sock) = -1 /\ Seen(k) \in Int /\ Seen(k) <= 0 /\ Said(h) = Said(k) /\ Due(h) = Due(k)
    <3>1. Len(h.buf) = 0 /\ Len(h.sock) = 1 /\ h.sent = 0
      BY <2>2, <2>3, <2>4
    <3>2. Seen(h) = -1 /\ h.sent - Len(h.sock) = -1
      BY <3>1 DEF Seen
    <3>3. Seen(k) \in Int /\ Seen(k) <= 0
      BY <1>0, <2>4, Measured
    <3>4. Said(h) = Said(k) /\ Due(h) = Due(k)
      BY <2>1, <2>3 DEF Said, Due
    <3> QED
      BY <3>2, <3>3, <3>4
  <2>6. /\ \A i \in 1 .. Len(Said(k)) : ~IsAnswer(Said(k)[i])
        /\ \A i \in 1 .. Len(Said(k)) : ~IsLast(Said(k)[i])
    <3>1. ASSUME NEW i \in 1 .. Len(Said(k)), IsAnswer(Said(k)[i]) PROVE FALSE
      <4>1. Said(k)[i][2] \in 1 .. Seen(k)
        BY <1>0, <3>1 DEF Once, Given
      <4> QED
        BY <2>5, <4>1
    <3>2. ~Ended(Said(k))
      BY <1>0, <2>1 DEF Once, Over
    <3> QED
      BY <3>1, <3>2 DEF Ended
  <2>7. Given(Said(h), Seen(h), Due(h)) /\ ~Ended(Said(h))
    BY <2>5, <2>6 DEF Given, Ended
  <2>8. InTurn(h)
    BY <2>2, <2>3, <2>4, <2>5 DEF InTurn
  <2>9. Owed(h)
    <3>1. 1 .. Seen(k) = {} /\ k.running = {} /\ k.upgrade = 0
      BY <1>0, <2>5 DEF Once, Owed
    <3> QED
      BY <1>0, <2>3, <2>4, <3>1 DEF Owed
  <2>10. Once(h)
    BY <2>3, <2>4, <2>7, <2>8, <2>9 DEF Once, Placed
  <2> QED
    BY <1>0, <2>1, <2>3, <2>10, NotHanded DEF Fares
<1>2. CASE HangUp(c)
  <2>1. h = [k EXCEPT !.hung = TRUE]
    BY <1>0, <1>2 DEF HangUp
  <2> HIDE DEF k, h
  <2>2. SameBut(k, h) /\ h.at = k.at /\ h.reply = k.reply /\ h.frozen = k.frozen /\ h.hung
    BY <1>0, <2>1 DEF SameBut, Connection
  <2>3. Once(h)
    BY <1>0, <2>2, OnceOnward DEF SameBut, Onward
  <2> QED
    BY <2>2, <2>3, StillHanded DEF Fares, SameBut
<1>3. CASE Accept(c)
  <2>1. h = [k EXCEPT !.at = "rpc"] /\ k.at = "backlog"
    BY <1>0, <1>3 DEF Accept
  <2> HIDE DEF k, h
  <2>2. SameBut(k, h) /\ h.at = "rpc" /\ h.reply = k.reply
    BY <1>0, <2>1 DEF SameBut, Connection
  <2>3. Once(h)
    BY <1>0, <2>1, <2>2, OnceOnward DEF SameBut, Onward
  <2> QED
    BY <1>0, <2>1, <2>2, <2>3, NotHanded DEF Fares, SameBut
<1>4. CASE Verdict(c)
  <2> DEFINE e == Append(k.events, "Done")
  <2>1. h = [k EXCEPT !.events = e]
    BY <1>0, <1>4 DEF Verdict
  <2> HIDE DEF k, h, e
  <2>2. SameBut(k, h) /\ h.at = k.at /\ h.reply = k.reply /\ h.frozen = k.frozen /\ h.hung = k.hung
    BY <1>0, <2>1 DEF SameBut, Connection
  <2>3. Once(h)
    BY <1>0, <2>2, OnceOnward DEF SameBut, Onward
  <2> QED
    BY <2>2, <2>3, StillHanded DEF Fares, SameBut
<1> QED
  BY <1>1, <1>2, <1>3, <1>4

LEMMA AskedFares ==
  ASSUME ConnTypes, ConnTypes', NEW c \in Client, Once(conn[c]),
         NEW kind \in {"call", "quit", "wait", "upgrade"}, AskFor(c, kind)
  PROVE  Fares(conn[c], conn'[c])
<1> DEFINE k == conn[c]
           h == conn'[c]
           n == k.sent + 1
           e == <<kind, n>>
           q == k.sock
           s == Append(q, e)
<1>0. /\ conn \in [Client -> Connection] /\ k \in Connection /\ h \in Connection /\ Once(k)
      /\ k.sock \in Seq(Msg) /\ k.buf \in Seq(Msg) /\ k.sent \in Nat
  BY DEF ConnTypes, Connection
<1>1. /\ h = [k EXCEPT !.sent = n, !.sock = s]
      /\ k.at \notin {"away", "gone"} /\ k.wait = 0
      /\ \A msg \in ToSet(k.buf \o k.sock) : msg[1] # "wait"
  BY <1>0 DEF AskFor
<1> SUFFICES Fares(k, h)
  OBVIOUS
<1>2. /\ \A i \in 1 .. Len(k.buf) : k.buf[i][1] # "wait"
      /\ \A i \in 1 .. Len(k.sock) : k.sock[i][1] # "wait"
  <2> DEFINE a == k.buf
             b == k.sock
             x == a \o b
  <2>1. a \in Seq(Msg) /\ b \in Seq(Msg) /\ \A msg \in ToSet(x) : msg[1] # "wait"
    BY <1>0, <1>1
  <2> HIDE DEF a, b
  <2>5. /\ Len(x) = Len(a) + Len(b) /\ Len(a) \in Nat /\ Len(b) \in Nat
        /\ \A i \in 1 .. Len(a) : x[i] = a[i]
        /\ \A i \in 1 .. Len(b) : x[Len(a) + i] = b[i]
        /\ x \in Seq(Msg)
    BY <2>1, ConcatAt
  <2> HIDE DEF x
  <2>2. \A i \in 1 .. Len(x) : x[i][1] # "wait"
    BY <2>1, <2>5 DEF ToSet
  <2>3. /\ \A i \in 1 .. Len(a) : i \in 1 .. Len(x)
        /\ \A i \in 1 .. Len(b) : Len(a) + i \in 1 .. Len(x)
    BY <2>5
  <2>4. /\ \A i \in 1 .. Len(a) : a[i][1] # "wait"
        /\ \A i \in 1 .. Len(b) : b[i][1] # "wait"
    BY <2>2, <2>3, <2>5
  <2> QED
    BY <2>4 DEF a, b
<1>3. /\ Turns(k.buf, Seen(k), q) /\ Turns(q, k.sent - Len(q), <<>>)
      /\ \A i \in 1 .. Len(q) : q[i][1] # "wait"
      /\ q \in Seq(Msg)
  BY <1>0, <1>2 DEF Once, InTurn
<1>4. n \in Nat /\ n = k.sent + 1 /\ n # 0 /\ e[1] = kind /\ e[2] = n /\ kind # "hello"
  BY <1>0
<1> HIDE DEF q
<1>5. e \in Msg
  BY <1>4 DEF Msg, e
<1> HIDE DEF e
<1>6. /\ Len(s) = Len(q) + 1 /\ Len(q) \in Nat /\ s[Len(s)] = e
      /\ \A i \in 1 .. Len(q) : s[i] = q[i]
  BY <1>3, <1>5
<1> HIDE DEF s, k, h, n
<1>7. /\ h.at = k.at /\ h.sent = n /\ h.buf = k.buf /\ h.sock = s /\ h.wait = k.wait
      /\ h.running = k.running /\ h.upgrade = k.upgrade /\ h.attempt = k.attempt
      /\ h.got = k.got /\ h.out = k.out /\ h.reply = k.reply /\ h.frozen = k.frozen
      /\ h.hung = k.hung
  BY <1>0, <1>1 DEF Connection
<1>8. n - Len(s) = k.sent - Len(q) /\ Seen(h) = Seen(k) /\ Seen(k) \in Int
  <2>1. Len(k.buf) \in Nat /\ Seen(k) \in Int
    BY <1>0, Measured
  <2>2. n - Len(s) = k.sent - Len(q)
    <3>1. k.sent \in Nat
      BY <1>0 DEF Connection
    <3> QED
      BY <1>4, <1>6, <3>1
  <2>3. Seen(h) = n - Len(s) - Len(k.buf) /\ Seen(k) = k.sent - Len(q) - Len(k.buf)
    BY <1>7 DEF Seen, q
  <2> QED
    BY <2>1, <2>2, <2>3
<1>9. Turns(s, k.sent - Len(q), <<>>)
  <2> SUFFICES ASSUME NEW i \in 1 .. Len(s)
               PROVE  /\ s[i][2] = k.sent - Len(q) + i
                      /\ s[i][1] = "hello" \/ s[i][2] # 0
                      /\ s[i][1] = "wait" => i = Len(s)
    BY DEF Turns
  <2>1. CASE i \in 1 .. Len(q)
    BY <1>3, <1>6, <2>1 DEF Turns
  <2>2. CASE i = Len(s)
    <3>1. k.sent - Len(q) + i = n
      BY <1>0, <1>4, <1>6, <2>2
    <3> QED
      BY <1>4, <1>6, <2>2, <3>1
  <2> QED
    BY <1>6, <2>1, <2>2
<1>10. Turns(k.buf, Seen(k), s)
  BY <1>2, <1>3 DEF Turns
<1>11. InTurn(h)
  BY <1>1, <1>7, <1>8, <1>9, <1>10 DEF InTurn
<1>12. Owed(h) /\ Placed(h)
  BY <1>0, <1>1, <1>7, <1>8 DEF Once, Owed, Placed
<1>13. Said(h) = Said(k) /\ Due(h) = Due(k) /\ (Over(k) => Over(h))
  BY <1>7 DEF Said, Due, Over
<1>14. Once(h)
  BY <1>0, <1>8, <1>11, <1>12, <1>13, OnceKept DEF Once
<1> QED
  BY <1>7, <1>14, StillHanded DEF Fares

\* Reading.
LEMMA ReadFares ==
  ASSUME ConnTypes, ConnTypes', NEW c \in Client, Once(conn[c]), Read(c)
  PROVE  Fares(conn[c], conn'[c])
<1> DEFINE k == conn[c]
           h == conn'[c]
<1>0. /\ Conn(k) /\ k \in Connection /\ h \in Connection /\ kern \in KernelState
      /\ conn \in [Client -> Connection] /\ k.buf \in Seq(Msg) /\ k.sock \in Seq(Msg) /\ Once(k)
      /\ Placed(k) /\ InTurn(k) /\ (k.upgrade # 0 <=> k.attempt # "none")
  BY DEF ConnTypes, Conn, Connection, Once, Owed
<1>1. k.at = "rpc" /\ ~k.frozen
  BY DEF Read, Reading
<1> SUFFICES Fares(k, h)
  OBVIOUS
<1>2. ASSUME NEW b \in Seq(Msg), NEW s \in Seq(Msg), NEW msg \in Msg, NEW g,
             g = [k EXCEPT !.buf = b, !.sock = s],
             conn' = [conn EXCEPT ![c] = Taken(g, c, msg).conn],
             \A j \in Connection :
               j.buf = b /\ j.sock = s /\ j.sent = k.sent /\ j.wait = k.wait =>
                 NextUp(k, j, msg) /\ k.wait = 0
      PROVE  Fares(k, h)
  <2>0. h = Taken(g, c, msg).conn
    BY <1>0, <1>2
  <2> HIDE DEF k
  <2>1. /\ g \in Connection /\ g.running = k.running /\ g.at = k.at /\ g.sent = k.sent
        /\ g.got = k.got /\ g.out = k.out /\ g.upgrade = k.upgrade /\ g.attempt = k.attempt
        /\ g.wait = k.wait /\ g.reply = k.reply /\ g.buf = b /\ g.sock = s
    BY <1>0, <1>2 DEF Connection
  <2>2. Conn(g)
    BY <1>0, <2>1 DEF Conn
  <2>3. NextUp(k, g, msg) /\ k.wait = 0
    BY <1>2, <2>1
  <2>4. Once(h) /\ (k.attempt = "running" => h.attempt = "running")
    BY <1>0, <1>1, <2>0, <2>1, <2>2, <2>3, TakenOnce
  <2>5. h.reply = k.reply
    BY <1>0, <1>1, <2>0, <2>1, <2>2, TakenCalm
  <2> QED
    BY <1>0, <1>1, <2>4, <2>5, NotHanded DEF Fares
<1>3. CASE /\ k.buf # <<>>
           /\ LET taken == Taken([k EXCEPT !.buf = Tail(@)], c, Head(k.buf))
              IN conn' = [conn EXCEPT ![c] = taken.conn] /\ kern' = taken.kern
  <2> DEFINE b == Tail(k.buf)
             msg == Head(k.buf)
             s == k.sock
             g == [k EXCEPT !.buf = b, !.sock = s]
  <2>1. b \in Seq(Msg) /\ s \in Seq(Msg) /\ msg \in Msg
    BY <1>0, <1>3
  <2>2. [k EXCEPT !.buf = Tail(@)] = g
    BY <1>0 DEF Connection
  <2>3. conn' = [conn EXCEPT ![c] = Taken(g, c, msg).conn]
    BY <1>3, <2>2
  <2>4. ASSUME NEW j \in Connection, j.buf = b, j.sock = s, j.sent = k.sent, j.wait = k.wait
        PROVE  NextUp(k, j, msg) /\ k.wait = 0
    <3> HIDE DEF k
    <3> QED
      BY <1>0, <1>3, <2>4, FromBuf
  <2>5. g = [k EXCEPT !.buf = b, !.sock = s]
    OBVIOUS
  <2> HIDE DEF b, s, msg, k, h, g
  <2> QED
    BY <1>2, <2>1, <2>3, <2>4, <2>5
<1>4. ASSUME NEW n \in 1 .. Len(k.sock), k.buf = <<>>,
             LET g == [k EXCEPT !.buf = SubSeq(k.sock, 2, n), !.sock = SubSeq(@, n + 1, Len(@))]
                 taken == Taken(g, c, Head(k.sock))
             IN conn' = [conn EXCEPT ![c] = taken.conn] /\ kern' = taken.kern
      PROVE  Fares(k, h)
  <2> DEFINE b == SubSeq(k.sock, 2, n)
             s == SubSeq(k.sock, n + 1, Len(k.sock))
             msg == Head(k.sock)
             g == [k EXCEPT !.buf = b, !.sock = s]
  <2>1. b \in Seq(Msg) /\ s \in Seq(Msg) /\ msg \in Msg
    BY <1>0, <1>4
  <2>2. conn' = [conn EXCEPT ![c] = Taken(g, c, msg).conn]
    BY <1>0, <1>4 DEF Connection
  <2>4. ASSUME NEW j \in Connection, j.buf = b, j.sock = s, j.sent = k.sent, j.wait = k.wait
        PROVE  NextUp(k, j, msg) /\ k.wait = 0
    <3> HIDE DEF k
    <3> QED
      BY <1>0, <1>4, <2>4, FromSock
  <2>5. g = [k EXCEPT !.buf = b, !.sock = s]
    OBVIOUS
  <2> HIDE DEF b, s, msg, k, h, g
  <2> QED
    BY <1>2, <2>1, <2>2, <2>4, <2>5
<1>5. CASE conn' = [conn EXCEPT ![c].closing = TRUE]
  <2>1. h = [k EXCEPT !.closing = TRUE]
    BY <1>0, <1>5
  <2> HIDE DEF k, h
  <2>2. SameBut(k, h) /\ h.at = k.at /\ h.reply = k.reply /\ h.frozen = k.frozen /\ h.hung = k.hung
    BY <1>0, <2>1 DEF SameBut, Connection
  <2>3. Once(h)
    BY <1>0, <2>2, OnceOnward DEF SameBut, Onward
  <2> QED
    BY <2>2, <2>3, StillHanded DEF Fares, SameBut
<1> QED
  BY <1>3, <1>4, <1>5 DEF Read

\* Writing, and what ends a connection.
LEMMA WriteFares ==
  ASSUME ConnTypes, ConnTypes', NEW c \in Client, Once(conn[c]),
         UpgradeFailed(c) \/ Flush(c) \/ Finish(c) \/ End(c)
  PROVE  Fares(conn[c], conn'[c])
<1> DEFINE k == conn[c]
           h == conn'[c]
<1>0. /\ conn \in [Client -> Connection] /\ k \in Connection /\ h \in Connection /\ Once(k)
      /\ Placed(k) /\ Owed(k) /\ k.upgrade \in Nat /\ k.got \in Seq(Frame) /\ k.out \in Seq(Frame)
  BY DEF ConnTypes, Once, Connection
<1> SUFFICES Fares(k, h)
  OBVIOUS
<1>1. CASE conn' = [conn EXCEPT ![c] = Gone(@)]
  <2>1. h = Gone(k)
    BY <1>0, <1>1
  <2>2. Gone(k).at = "gone" /\ Gone(k).attempt = k.attempt
    BY DEF Gone, Away
  <2> HIDE DEF k, h
  <2>3. ~Here(h)
    BY <2>1, <2>2 DEF Here
  <2>4. Once(h)
    BY <1>0, <2>1, GoneOnce
  <2> QED
    BY <1>0, <2>1, <2>2, <2>3, <2>4, NotHanded DEF Fares
<1>2. CASE UpgradeFailed(c)
  <2> DEFINE f == <<"error", k.upgrade>>
             o == Append(k.out, f)
  <2>1. h = [k EXCEPT !.upgrade = 0, !.attempt = "none", !.out = o]
        /\ k.at = "rpc" /\ ~k.frozen /\ k.attempt = "failed"
    BY <1>0, <1>2 DEF UpgradeFailed
  <2>2. f \in Frame /\ IsAnswer(f) /\ ~IsLast(f) /\ f[2] = k.upgrade
    BY <1>0 DEF Frame, IsAnswer, IsLast
  <2> HIDE DEF f, k
  <2>3. k.got \o o = Append(Said(k), f)
    BY <1>0, <2>2, SaidAt
  <2> HIDE DEF o, h
  <2>4. /\ h.at = k.at /\ h.sent = k.sent /\ h.buf = k.buf /\ h.sock = k.sock /\ h.wait = k.wait
        /\ h.running = k.running /\ h.upgrade = 0 /\ h.attempt = "none"
        /\ h.got = k.got /\ h.out = o /\ h.reply = k.reply
    BY <1>0, <2>1 DEF Connection
  <2>5. Seen(h) = Seen(k) /\ Seen(k) \in Int
    BY <1>0, <2>4, Measured DEF Seen
  <2>6. InTurn(h) /\ Owed(h) /\ Placed(h)
    BY <1>0, <2>4, <2>5 DEF Once, InTurn, Owed, Placed
  <2>7. k.upgrade # 0 /\ k.upgrade \in 1 .. Seen(k) /\ k.upgrade \notin k.running /\ k.wait = 0
    BY <1>0, <2>1 DEF Owed, Placed
  <2>8. ~Ended(Said(k))
    BY <1>0, <2>1, <2>7 DEF Once, Over
  <2>9. Due(k) = k.running \cup {k.upgrade} /\ Due(h) = k.running \cup {0}
    BY <2>1, <2>4 DEF Due
  <2>10. Said(h) = Append(Said(k), f)
    BY <2>3, <2>4 DEF Said
  <2>11. \A id \in 1 .. Seen(k) : id \in Due(h) => id \in Due(k)
    BY <2>5, <2>9
  <2>12. f[2] \in 1 .. Seen(h) /\ f[2] \notin Due(h) /\ f[2] \in Due(k) /\ Seen(k) <= Seen(h)
    BY <2>2, <2>5, <2>7, <2>9
  <2>13. Once(h)
    BY <1>0, <2>2, <2>6, <2>8, <2>10, <2>11, <2>12, OnceMore
  <2> QED
    BY <1>0, <2>1, <2>4, <2>13, NotHanded DEF Fares
<1>3. CASE Flush(c) /\ ~conn[c].hung
  <2> DEFINE o == Tail(k.out)
             g == Append(k.got, Head(k.out))
  <2>1. /\ h = [k EXCEPT !.out = Tail(@), !.got = Append(@, Head(k.out))]
        /\ k.out # <<>> /\ ~k.frozen /\ ~k.hung /\ k.at \in {"rpc", "session", "finish"}
    BY <1>0, <1>3 DEF Flush
  <2>2. h = [k EXCEPT !.out = o, !.got = g]
    BY <2>1
  <2> HIDE DEF k, h, o, g
  <2>3. Once(h)
    BY <1>0, <2>1, FlushOnce
  <2>4. h.reply = k.reply /\ h.attempt = k.attempt
    BY <1>0, <2>2 DEF Connection
  <2> QED
    BY <1>0, <2>1, <2>3, <2>4, NotHanded DEF Fares
<1>4. CASE Finish(c)
  <2>1. /\ h = [k EXCEPT !.at = "finish", !.frozen = FALSE]
        /\ k.at = "rpc" /\ k.closing /\ k.running = {}
    BY <1>0, <1>4 DEF Finish
  <2> HIDE DEF k, h
  <2>2. SameBut(k, h) /\ h.at = "finish" /\ h.reply = k.reply /\ h.hung = k.hung
    BY <1>0, <2>1 DEF SameBut, Connection
  <2>3. Once(h)
    <3>1. Onward(k, h) /\ (k.upgrade # 0 <=> h.attempt # "none")
      BY <1>0, <2>1, <2>2 DEF Onward, Owed, SameBut
    <3> QED
      BY <1>0, <2>2, <3>1, OnceOnward DEF SameBut
  <2>4. \A n \in Nat : HandsOn(k, h, n)
    BY <2>1, <2>2 DEF HandsOn, Hands, Here, Carries, SameBut
  <2> QED
    BY <2>2, <2>3, <2>4 DEF Fares, SameBut
<1> QED
  BY <1>1, <1>2, <1>3, <1>4 DEF Flush, End

LEMMA TwoMore ==
  ASSUME NEW S, NEW s \in Seq(S), NEW f \in S, NEW g \in S
  PROVE  s \o <<f>> \o <<g>> = Append(Append(s, f), g)
<1> DEFINE x == Append(s, f)
<1>1. s \o <<f>> = x /\ x \in Seq(S)
  BY EndsOf, LastOfAppend
<1> HIDE DEF x
<1>2. x \o <<g>> = Append(x, g)
  BY <1>1, EndsOf
<1> QED
  BY <1>1, <1>2, Zenon DEF x

\* A wait, and its session.
LEMMA SessionFares ==
  ASSUME ConnTypes, ConnTypes', NEW c \in Client, Once(conn[c]), RunsNone(conn[c]),
         Ask(c) \/ Begin(c) \/ SessionEvent(c) \/ SessionTimeout(c) \/ SessionHungUp(c)
  PROVE  Fares(conn[c], conn'[c])
<1> DEFINE k == conn[c]
           h == conn'[c]
<1>0. /\ conn \in [Client -> Connection] /\ k \in Connection /\ h \in Connection /\ Once(k)
      /\ Placed(k) /\ Owed(k) /\ InTurn(k) /\ k.wait \in Nat
      /\ k.got \in Seq(Frame) /\ k.out \in Seq(Frame) /\ Said(k) \in Seq(Frame)
      /\ RunsNone(k) /\ Seen(k) \in Int
  <2>1. conn \in [Client -> Connection] /\ k \in Connection /\ h \in Connection
    BY DEF ConnTypes
  <2>2. k.wait \in Nat /\ k.got \in Seq(Frame) /\ k.out \in Seq(Frame)
    BY <2>1 DEF Connection
  <2> QED
    BY <2>1, <2>2, Measured DEF Once
<1> SUFFICES Fares(k, h)
  OBVIOUS
<1>1. CASE Ask(c)
  <2>1. h = [k EXCEPT !.at = "asking"] /\ k.at = "drain"
    BY <1>0, <1>1 DEF Ask
  <2> HIDE DEF k, h
  <2>2. SameBut(k, h) /\ h.at = "asking" /\ h.reply = k.reply
    BY <1>0, <2>1 DEF SameBut, Connection
  <2>3. Onward(k, h) /\ (k.upgrade # 0 <=> h.attempt # "none")
    BY <1>0, <2>1, <2>2 DEF Onward, Owed, SameBut
  <2>4. Once(h)
    BY <1>0, <2>2, <2>3, OnceOnward DEF SameBut
  <2> QED
    BY <1>0, <2>1, <2>2, <2>4, NotHanded DEF Fares, SameBut
<1>2. CASE SessionHungUp(c)
  <2>1. h = Gone(k)
    BY <1>0, <1>2 DEF SessionHungUp
  <2>2. Gone(k).at = "gone" /\ Gone(k).attempt = k.attempt
    BY DEF Gone, Away
  <2> HIDE DEF k, h
  <2>3. ~Here(h)
    BY <2>1, <2>2 DEF Here
  <2>4. Once(h)
    BY <1>0, <2>1, GoneOnce
  <2> QED
    BY <1>0, <2>1, <2>2, <2>3, <2>4, NotHanded DEF Fares
\* What it says next is nothing of the kind, the answer, or the last.
<1>3. ASSUME NEW e, NEW f \in Frame, NEW a \in {"session", "finish"},
             h = [k EXCEPT !.at = a, !.events = e, !.out = Append(k.out, f)],
             k.at \in {"asking", "resuming", "session"}, ~k.frozen \/ k.at # "session",
             IsAnswer(f) => f[2] = k.wait /\ k.at = "asking",
             IsLast(f) => a = "finish"
      PROVE  Fares(k, h)
  <2> DEFINE o == Append(k.out, f)
  <2>1. k.got \o o = Append(Said(k), f)
    BY <1>0, SaidAt
  <2>2. h = [k EXCEPT !.at = a, !.events = e, !.out = o]
    BY <1>3
  <2> HIDE DEF k, h, o
  <2>3. /\ h.at = a /\ h.sent = k.sent /\ h.buf = k.buf /\ h.sock = k.sock /\ h.wait = k.wait
        /\ h.running = k.running /\ h.upgrade = k.upgrade /\ h.attempt = k.attempt
        /\ h.got = k.got /\ h.out = o /\ h.reply = k.reply
    BY <1>0, <2>2 DEF Connection
  <2>4. /\ k.running = {} /\ k.wait # 0 /\ k.wait \in 1 .. Seen(k)
        /\ k.at = "asking" => k.wait # k.upgrade
    BY <1>0, <1>3 DEF RunsNone, Owed, Placed
  <2>5. Seen(h) = Seen(k) /\ Said(h) = Append(Said(k), f)
    BY <2>1, <2>3 DEF Seen, Said
  <2>6. InTurn(h) /\ Owed(h) /\ Placed(h)
    BY <1>0, <1>3, <2>3, <2>4, <2>5 DEF InTurn, Owed, Placed
  <2>7. ~Ended(Said(k))
    BY <1>0, <1>3 DEF Once, Over
  <2>8. /\ Due(h) = {h.upgrade} /\ k.upgrade \in Due(k) /\ h.upgrade = k.upgrade
        /\ k.at = "asking" => k.wait \in Due(k)
    BY <1>3, <2>3, <2>4 DEF Due
  <2>9. IsLast(f) => Over(h)
    BY <1>3, <2>3, <2>4 DEF Over
  <2>10. \A id \in 1 .. Seen(k) : id \in Due(h) => id \in Due(k)
    BY <2>8
  <2>11. IsAnswer(f) => f[2] \in 1 .. Seen(h) /\ f[2] \notin Due(h) /\ f[2] \in Due(k)
    BY <1>3, <2>4, <2>5, <2>8
  <2>12. Seen(k) <= Seen(h)
    BY <1>0, <2>5
  <2>13. Once(h)
    BY <1>0, <2>5, <2>6, <2>7, <2>9, <2>10, <2>11, <2>12, OnceMore
  <2> QED
    BY <1>0, <1>3, <2>3, <2>13, NotHanded DEF Fares
\* The wait is answered, and its set follows.
<1>4. ASSUME NEW e, NEW f \in Frame, NEW g \in Frame,
             h = [k EXCEPT !.at = "session", !.events = e, !.out = Append(Append(k.out, f), g)],
             k.at = "asking", IsAnswer(f), f[2] = k.wait, ~IsLast(f), ~IsAnswer(g), ~IsLast(g)
      PROVE  Fares(k, h)
  <2> DEFINE x == Append(k.out, f)
             o == Append(x, g)
             s == Append(Said(k), f)
  <2>1. k.got \o x = s /\ x \in Seq(Frame) /\ s \in Seq(Frame)
    <3>1. x \in Seq(Frame) /\ s \in Seq(Frame)
      BY <1>0, LastOfAppend
    <3> QED
      BY <1>0, <3>1, SaidAt
  <2>2. h = [k EXCEPT !.at = "session", !.events = e, !.out = o]
    BY <1>4
  <2> DEFINE j == [k EXCEPT !.out = x]
  <2> HIDE DEF k, h, s, x
  <2>3. j.got = k.got /\ j.out = x /\ Said(j) = s
    BY <1>0, <2>1 DEF Connection, Said
  <2> HIDE DEF j
  <2>4. k.got \o o = Append(s, g)
    BY <1>0, <2>1, <2>3, SaidAt
  <2> HIDE DEF o
  <2>5. /\ h.at = "session" /\ h.sent = k.sent /\ h.buf = k.buf /\ h.sock = k.sock /\ h.wait = k.wait
        /\ h.running = k.running /\ h.upgrade = k.upgrade /\ h.attempt = k.attempt
        /\ h.got = k.got /\ h.out = o /\ h.reply = k.reply
    BY <1>0, <2>2 DEF Connection
  <2>6. k.running = {} /\ k.wait # 0 /\ k.wait \in 1 .. Seen(k) /\ k.wait # k.upgrade
    BY <1>0, <1>4 DEF RunsNone, Owed, Placed
  <2>7. Seen(h) = Seen(k) /\ Said(h) = Append(s, g)
    BY <2>4, <2>5 DEF Seen, Said
  <2>8. InTurn(h) /\ Owed(h) /\ Placed(h)
    BY <1>0, <1>4, <2>5, <2>6, <2>7 DEF InTurn, Owed, Placed
  <2>9. ~Ended(Said(k)) /\ Given(Said(k), Seen(k), Due(k))
    BY <1>0, <1>4 DEF Once, Over
  <2>10. Due(h) = {k.upgrade} /\ Due(k) = {k.upgrade, k.wait}
    BY <1>4, <2>5, <2>6 DEF Due
  <2>11. \A id \in 1 .. Seen(k) : id \in Due(h) => id \in Due(k)
    BY <2>10
  <2>12. f[2] \in 1 .. Seen(k) /\ f[2] \notin Due(h) /\ f[2] \in Due(k)
    BY <1>4, <2>6, <2>10
  <2>13. Given(s, Seen(k), Due(h)) /\ ~Ended(s)
    <3>1. /\ Seen(k) <= Seen(k)
          /\ IsAnswer(f) => f[2] \in 1 .. Seen(k) /\ f[2] \notin Due(h) /\ (f[2] \in Due(k) \/ f[2] > Seen(k))
          /\ ~IsLast(f)
      BY <1>0, <1>4, <2>12
    <3> DEFINE z == Said(k)
               p == Due(k)
               q == Due(h)
               m == Seen(k)
    <3>2. z \in Seq(Frame) /\ m \in Int /\ Given(z, m, p) /\ ~Ended(z) /\ \A id \in 1 .. m : id \in q => id \in p
      BY <1>0, <2>9, <2>11
    <3> HIDE DEF z, p, q, m
    <3>3. Given(Append(z, f), m, q) /\ (Ended(Append(z, f)) <=> IsLast(f))
      BY <3>1, <3>2, GivenMore DEF m, p, q
    <3> QED
      BY <3>1, <3>3 DEF s, z, m, q
  <2>14. Given(Append(s, g), Seen(k), Due(h)) /\ ~Ended(Append(s, g))
    BY <1>0, <1>4, <2>1, <2>13, GivenMore
  <2>15. Once(h)
    BY <2>7, <2>8, <2>14 DEF Once
  <2> QED
    BY <1>0, <1>4, <2>5, <2>15, NotHanded DEF Fares
<1>5. CASE Begin(c)
  <2>1. CASE k.at = "asking" /\ k.events # <<>> /\ Head(k.events) = "Set"
    <3> DEFINE f == <<"ok", k.wait>>
               g == <<"tasks", k.wait>>
    <3>1. h = [k EXCEPT !.at = "session", !.events = Tail(k.events), !.out = k.out \o <<f>> \o <<g>>]
      BY <1>0, <1>5, <2>1 DEF Begin
    <3>2. f \in Frame /\ g \in Frame /\ IsAnswer(f) /\ f[2] = k.wait /\ ~IsLast(f) /\ ~IsAnswer(g) /\ ~IsLast(g)
      BY <1>0 DEF Frame, IsAnswer, IsLast
    <3> HIDE DEF f, g
    <3>3. k.out \o <<f>> \o <<g>> = Append(Append(k.out, f), g)
      BY <1>0, <3>2, TwoMore
    <3> DEFINE e == Tail(k.events)
    <3>4. h = [k EXCEPT !.at = "session", !.events = e, !.out = Append(Append(k.out, f), g)]
      BY <3>1, <3>3
    <3> HIDE DEF k, h, e
    <3> QED
      BY <1>4, <2>1, <3>2, <3>4
  <2>2. CASE k.at = "resuming" /\ k.events # <<>> /\ Head(k.events) = "Set"
    <3> DEFINE g == <<"tasks", k.wait>>
    <3>1. h = [k EXCEPT !.at = "session", !.events = Tail(k.events), !.out = k.out \o <<>> \o <<g>>]
      BY <1>0, <1>5, <2>2 DEF Begin
    <3>2. g \in Frame /\ ~IsAnswer(g) /\ ~IsLast(g)
      BY <1>0 DEF Frame, IsAnswer, IsLast
    <3> HIDE DEF g
    <3>3. k.out \o <<>> \o <<g>> = Append(k.out, g)
      <4>1. k.out \o <<>> = k.out
        BY <1>0
      <4> QED
        BY <1>0, <3>2, <4>1, EndsOf
    <3> QED
      BY <1>3, <2>2, <3>1, <3>2, <3>3
  <2>3. CASE ~(k.events # <<>> /\ Head(k.events) = "Set") /\ k.at = "asking"
    <3> DEFINE f == <<"error", k.wait>>
    <3>1. h = [k EXCEPT !.at = "finish", !.events = <<>>, !.out = Append(k.out, f)]
      BY <1>0, <1>5, <2>3 DEF Begin
    <3>2. f \in Frame /\ IsAnswer(f) /\ f[2] = k.wait
      BY <1>0 DEF Frame, IsAnswer
    <3> HIDE DEF f
    <3> QED
      BY <1>3, <2>3, <3>1, <3>2
  <2>4. CASE ~(k.events # <<>> /\ Head(k.events) = "Set") /\ k.at = "resuming"
    <3> DEFINE f == <<"bye", 0>>
    <3>1. h = [k EXCEPT !.at = "finish", !.events = <<>>, !.out = Append(k.out, f)]
      BY <1>0, <1>5, <2>4 DEF Begin
    <3>2. f \in Frame /\ ~IsAnswer(f)
      BY <1>0 DEF Frame, IsAnswer
    <3> HIDE DEF f
    <3> QED
      BY <1>3, <2>4, <3>1, <3>2
  <2> QED
    BY <1>5, <2>1, <2>2, <2>3, <2>4 DEF Begin
<1>6. CASE SessionTimeout(c)
  <2> DEFINE f == <<"timeout", k.wait>>
  <2>1. /\ h = [k EXCEPT !.at = "finish", !.events = k.events, !.out = Append(k.out, f)]
        /\ k.at = "session" /\ ~k.frozen
    BY <1>0, <1>6 DEF SessionTimeout, Connection
  <2>2. f \in Frame /\ ~IsAnswer(f)
    BY <1>0 DEF Frame, IsAnswer
  <2> HIDE DEF f
  <2> QED
    BY <1>3, <2>1, <2>2
<1>7. CASE SessionEvent(c) /\ k.events # <<>>
  <2> DEFINE f == <<"done", k.wait>>
  <2>1. /\ h = [k EXCEPT !.at = "finish", !.events = <<>>, !.out = Append(k.out, f)]
        /\ k.at = "session" /\ ~k.frozen
    BY <1>0, <1>7 DEF SessionEvent, Connection
  <2>2. f \in Frame /\ ~IsAnswer(f)
    BY <1>0 DEF Frame, IsAnswer
  <2> HIDE DEF f
  <2> QED
    BY <1>3, <2>1, <2>2
<1>8. CASE SessionEvent(c) /\ k.events = <<>>
  <2>1. /\ h = [k EXCEPT !.at = "finish", !.events = <<>>]
        /\ k.at = "session" /\ ~k.frozen
    BY <1>0, <1>8 DEF SessionEvent, Connection
  <2> HIDE DEF k, h
  <2>2. SameBut(k, h) /\ h.at = "finish" /\ h.reply = k.reply
    BY <1>0, <2>1 DEF SameBut, Connection
  <2>3. Once(h)
    <3>1. Onward(k, h) /\ (k.upgrade # 0 <=> h.attempt # "none")
      BY <1>0, <2>1, <2>2 DEF Onward, Owed, SameBut
    <3> QED
      BY <1>0, <2>2, <3>1, OnceOnward DEF SameBut
  <2> QED
    BY <1>0, <2>1, <2>2, <2>3, NotHanded DEF Fares, SameBut
<1> QED
  BY <1>1, <1>2, <1>5, <1>6, <1>7, <1>8

\* A connection that answers a freeze.
LEMMA FrozenFares ==
  ASSUME NEW k \in Connection, Once(k), k.running = {}, NEW m, NEW a \in {"rpc", "session", "finish"},
         k.at = a \/ (k.at = "freezing" /\ a = "rpc"), NEW h \in Connection,
         NEW g, NEW r, g = [k EXCEPT !.at = a, !.ctl = r], h = Frozen(g, m)
  PROVE  Fares(k, h)
<1> DEFINE s == carried(g)
           w == [of |-> m, what |-> s]
<1>1. h = [g EXCEPT !.frozen = TRUE, !.reply = w]
  BY DEF Frozen
<1>2. w.what = s
  OBVIOUS
<1> HIDE DEF w
<1>3. /\ g.at = a /\ g.hello = k.hello /\ g.buf = k.buf /\ g.out = k.out /\ g.upgrade = k.upgrade
      /\ g.wait = k.wait
  BY DEF Connection
<1>4. /\ h.at = a /\ SameBut(k, h) /\ h.reply = w /\ h.frozen
  BY <1>1 DEF SameBut, Connection
<1>5. /\ s.kind = (IF a = "session" THEN "Wait" ELSE "Rpc") /\ s.buf = k.buf /\ s.out = k.out
      /\ s.wait = k.wait /\ s.upgrade = (IF a = "rpc" THEN k.upgrade ELSE 0)
  BY <1>3 DEF carried
<1> HIDE DEF s
<1>6. k.upgrade # 0 /\ a = "rpc" => k.wait = 0
  BY DEF Once, Placed
<1>7. Carries(h)
  <2>1. /\ h.frozen /\ h.at = a /\ h.running = {} /\ h.reply.what = s /\ h.buf = k.buf
        /\ h.out = k.out /\ h.wait = k.wait /\ h.upgrade = k.upgrade
    BY <1>2, <1>4 DEF SameBut
  <2>2. /\ s.kind = "Wait" <=> a = "session"
        /\ s.upgrade # 0 => s.upgrade = k.upgrade /\ k.wait = 0
    BY <1>5, <1>6
  <2>3. s.buf = k.buf /\ s.out = k.out /\ s.wait = k.wait
    BY <1>5
  <2>4. s.kind = "Wait" <=> h.at = "session"
    BY <2>1, <2>2
  <2>5. s.upgrade # 0 => s.upgrade = h.upgrade /\ h.wait = 0
    BY <2>1, <2>2
  <2> QED
    BY <2>1, <2>3, <2>4, <2>5, Zenon DEF Carries
<1>8. Onward(k, h) /\ (k.upgrade # 0 <=> h.attempt # "none")
  BY <1>4 DEF Onward, Once, Owed, SameBut
<1>9. Once(h)
  BY <1>4, <1>8, OnceOnward DEF SameBut
<1> QED
  BY <1>4, <1>7, <1>9 DEF Fares, HandsOn, Hands, SameBut

\* The verdict that came before the end.
LEMMA ClosedFares ==
  ASSUME NEW k \in Connection, Once(k), RunsNone(k), Here(k), NEW h \in Connection, NEW r,
         h = Closed([k EXCEPT !.ctl = r])
  PROVE  Once(h) /\ h.reply = k.reply /\ h.attempt = k.attempt
<1> DEFINE g == [k EXCEPT !.ctl = r]
<1>1. /\ g.at = k.at /\ g.events = k.events /\ g.out = k.out /\ g.wait = k.wait
      /\ k.wait \in Nat /\ k.got \in Seq(Frame) /\ k.out \in Seq(Frame) /\ Said(k) \in Seq(Frame)
      /\ Seen(k) \in Int
  BY Measured DEF Connection
<1>2. CASE k.at = "session" /\ k.events # <<>>
  <2> DEFINE f == <<"done", k.wait>>
             o == Append(k.out, f)
  <2>1. h = [g EXCEPT !.at = "finish", !.frozen = FALSE, !.events = <<>>, !.out = o]
    BY <1>1, <1>2 DEF Closed, Connection
  <2>2. f \in Frame /\ ~IsAnswer(f)
    BY <1>1 DEF Frame, IsAnswer
  <2> HIDE DEF f
  <2>3. k.got \o o = Append(Said(k), f)
    BY <1>1, <2>2, SaidAt
  <2> HIDE DEF o
  <2>4. /\ h.at = "finish" /\ h.sent = k.sent /\ h.buf = k.buf /\ h.sock = k.sock /\ h.wait = k.wait
        /\ h.running = k.running /\ h.upgrade = k.upgrade /\ h.attempt = k.attempt
        /\ h.got = k.got /\ h.out = o /\ h.reply = k.reply
    BY <2>1 DEF Connection
  <2>5. Seen(h) = Seen(k) /\ Said(h) = Append(Said(k), f) /\ Due(h) = Due(k)
    BY <1>2, <2>3, <2>4 DEF Seen, Said, Due
  <2>6. InTurn(h) /\ Owed(h) /\ Placed(h) /\ Over(h)
    BY <1>2, <2>4, <2>5 DEF Once, InTurn, Owed, Placed, Over, RunsNone
  <2>7. ~Ended(Said(k)) /\ Seen(k) <= Seen(h)
    BY <1>1, <1>2, <2>5 DEF Once, Over
  <2>8. Once(h)
    BY <2>2, <2>5, <2>6, <2>7, OnceMore
  <2> QED
    BY <2>4, <2>8
<1>3. CASE ~(k.at = "session" /\ k.events # <<>>)
  <2> HIDE DEF g
  <2>0. \/ k.at = "rpc" /\ h = [g EXCEPT !.closing = TRUE]
        \/ k.at = "session" /\ h = [g EXCEPT !.at = "finish", !.frozen = FALSE, !.events = <<>>, !.out = k.out]
        \/ h = g
    BY <1>1, <1>3 DEF Closed, g
  <2>2. /\ SameBut(k, h) /\ h.reply = k.reply
        /\ h.at = k.at \/ (k.at = "session" /\ h.at = "finish")
    <3>1. /\ g.sent = k.sent /\ g.sock = k.sock /\ g.buf = k.buf /\ g.got = k.got /\ g.reply = k.reply
          /\ g.running = k.running /\ g.upgrade = k.upgrade /\ g.attempt = k.attempt
      BY DEF g, Connection
    <3> DEFINE p == [g EXCEPT !.closing = TRUE]
               q == [g EXCEPT !.at = "finish", !.frozen = FALSE, !.events = <<>>, !.out = k.out]
    <3>2. SameBut(k, p) /\ p.reply = k.reply /\ p.at = k.at
      BY <1>1, <3>1 DEF g, SameBut, Connection
    <3>3. SameBut(k, q) /\ q.reply = k.reply /\ q.at = "finish"
      BY <1>1, <3>1 DEF g, SameBut, Connection
    <3>4. SameBut(k, g) /\ g.reply = k.reply /\ g.at = k.at
      BY <1>1, <3>1 DEF SameBut
    <3> HIDE DEF p, q
    <3> QED
      BY <2>0, <3>2, <3>3, <3>4 DEF p, q
  <2>3. Onward(k, h) /\ (k.upgrade # 0 <=> h.attempt # "none")
    BY <2>2 DEF Onward, Once, Owed, SameBut
  <2>4. Once(h)
    BY <2>2, <2>3, OnceOnward DEF SameBut
  <2> QED
    BY <2>2, <2>4 DEF SameBut
<1> QED
  BY <1>2, <1>3

\* What is heard of a freeze, a thaw and the end.
LEMMA CtlFares ==
  ASSUME ConnTypes, ConnTypes', NEW c \in Client, Once(conn[c]), RunsNone(conn[c]), Obeying(conn[c]),
         TakeCtl(c) \/ Freeze(c)
  PROVE  Fares(conn[c], conn'[c])
<1> DEFINE k == conn[c]
           h == conn'[c]
<1>0. /\ conn \in [Client -> Connection] /\ k \in Connection /\ h \in Connection /\ Once(k)
      /\ Placed(k) /\ Owed(k) /\ InTurn(k) /\ RunsNone(k) /\ Obeying(k)
      /\ k.ctl \in Seq(Ctl) /\ k.wait \in Nat /\ (k.upgrade # 0 <=> k.attempt # "none")
      /\ k.got \in Seq(Frame) /\ k.out \in Seq(Frame) /\ Seen(k) \in Int
  <2>1. conn \in [Client -> Connection] /\ k \in Connection /\ h \in Connection
    BY DEF ConnTypes
  <2>2. k.wait \in Nat /\ k.got \in Seq(Frame) /\ k.out \in Seq(Frame) /\ k.ctl \in Seq(Ctl)
    BY <2>1 DEF Connection
  <2> QED
    BY <2>1, <2>2, Measured DEF Once, Owed
<1> SUFFICES Fares(k, h)
  OBVIOUS
\* Who has something to hear has not answered this freeze.
<1>1. ASSUME k.ctl # <<>>, h.reply = k.reply, k.at \in {"rpc", "session", "finish"}
      PROVE  \A n \in Nat : HandsOn(k, h, n)
  <2> HIDE DEF k, h
  <2> QED
    BY <1>0, <1>1 DEF HandsOn, Hands, Here, Placed
<1> DEFINE msg == Head(k.ctl)
           r == Tail(k.ctl)
           g == [k EXCEPT !.ctl = Tail(@)]
<1>2. g.at = k.at /\ g = [k EXCEPT !.ctl = r]
  BY <1>0 DEF Connection
<1>3. CASE Freeze(c)
  <2>1. k.running = {} /\ k.at = "freezing"
    BY <1>3 DEF Freeze
  <2> DEFINE f == [k EXCEPT !.at = "rpc", !.ctl = r]
  <2>2. h = Frozen(f, msg[2])
    BY <1>0, <1>3 DEF Freeze
  <2>3. f = [k EXCEPT !.at = "rpc", !.ctl = r]
    OBVIOUS
  <2> HIDE DEF k, h, msg, f, r
  <2> QED
    BY <1>0, <2>1, <2>2, <2>3, FrozenFares
<1>4. CASE TakeCtl(c)
  <2>0. k.ctl # <<>> /\ k.at \in {"rpc", "session", "finish"}
    BY <1>4 DEF TakeCtl
  <2>1. h = CASE msg[1] = "Freeze" /\ g.at = "rpc" -> [k EXCEPT !.at = "freezing"]
              [] msg[1] = "Freeze" /\ g.at # "rpc" -> Frozen(g, msg[2])
              [] msg[1] = "Thaw" -> [g EXCEPT !.frozen = FALSE]
              [] msg[1] = "Close" -> Closed(g)
    BY <1>0, <1>4 DEF TakeCtl
  <2>2. msg[1] \in {"Freeze", "Thaw", "Close"}
    <3>1. msg \in Ctl
      BY <1>0, <2>0
    <3> QED
      BY <3>1 DEF Ctl
  <2>3. CASE msg[1] = "Freeze" /\ k.at = "rpc"
    <3>1. h = [k EXCEPT !.at = "freezing"]
      BY <1>2, <2>1, <2>3
    <3> HIDE DEF k, h
    <3>2. SameBut(k, h) /\ h.at = "freezing" /\ h.reply = k.reply
      BY <1>0, <3>1 DEF SameBut, Connection
    <3>3. Onward(k, h)
      BY <2>3, <3>2 DEF Onward
    <3>4. Once(h)
      BY <1>0, <3>2, <3>3, OnceOnward DEF SameBut
    <3> QED
      BY <1>1, <2>0, <3>2, <3>4 DEF Fares, SameBut
  <2>4. CASE msg[1] = "Freeze" /\ k.at # "rpc"
    <3>1. h = Frozen(g, msg[2]) /\ k.running = {} /\ k.at \in {"session", "finish"}
      BY <1>0, <1>2, <2>0, <2>1, <2>4 DEF RunsNone
    <3>2. g = [k EXCEPT !.at = k.at, !.ctl = r]
      BY <1>0, <1>2 DEF Connection
    <3> HIDE DEF k, h, g, msg, r
    <3> QED
      BY <1>0, <3>1, <3>2, FrozenFares
  <2>5. CASE msg[1] = "Thaw"
    <3>1. h = [g EXCEPT !.frozen = FALSE]
      BY <2>1, <2>5
    <3>2. h = [[k EXCEPT !.ctl = r] EXCEPT !.frozen = FALSE]
      BY <1>2, <3>1
    <3> HIDE DEF k, h, r, g
    <3>3. SameBut(k, h) /\ h.at = k.at /\ h.reply = k.reply
      BY <1>0, <3>2 DEF SameBut, Connection
    <3>4. Onward(k, h)
      BY <3>3 DEF Onward
    <3>5. Once(h)
      BY <1>0, <3>3, <3>4, OnceOnward DEF SameBut
    <3> QED
      BY <1>1, <2>0, <3>3, <3>5 DEF Fares, SameBut
  <2>6. CASE msg[1] = "Close"
    <3>1. h = Closed(g) /\ Here(k)
      BY <2>0, <2>1, <2>6 DEF Here
    <3>2. h = Closed([k EXCEPT !.ctl = r])
      BY <1>2, <3>1
    <3> HIDE DEF k, h, r, g
    <3>3. Once(h) /\ h.reply = k.reply /\ h.attempt = k.attempt
      BY <1>0, <3>1, <3>2, ClosedFares
    <3> QED
      BY <1>1, <2>0, <3>3 DEF Fares
  <2> QED
    BY <2>2, <2>3, <2>4, <2>5, <2>6
<1> QED
  BY <1>3, <1>4

\* When each connection fares well, or stays as it is, the upgrade's are what they were.
LEMMA AnswersOn ==
  ASSUME Types, Numbers, ConnsHeld, Answering, UNCHANGED <<runner, up>>,
         \A c \in Client : Fares(conn[c], conn'[c]) \/ conn'[c] = conn[c]
  PROVE  Answering'
<1>1. \A c \in Client : Once(conn[c])
  BY DEF Answering
<1>2. \A c \in Client : Once(conn'[c])
  BY <1>1 DEF Fares
<1>3. ASSUME Live', up'.stage # "none", up'.by \in Client PROVE conn'[up'.by].attempt = "running"
  <2>1. up.by \in Client /\ conn[up.by].attempt = "running"
    BY <1>3 DEF Answering, Live
  <2> QED
    BY <2>1 DEF Fares
<1>4. ASSUME runner' = "serving", up'.stage # "none", NEW c \in Client
      PROVE  Hands(conn'[c], up'.n)
  <2>1. /\ runner = "serving" /\ up.stage # "none" /\ up.n \in Nat /\ up.n # 0
        /\ Hands(conn[c], up.n)
    BY <1>4 DEF Types, Attempt, Numbers, Answering
  <2>2. conn[c].closing => conn[c].hung
    BY <2>1 DEF ConnsHeld, Open
  <2>3. Here(conn[c]) /\ conn[c].reply.of = up.n => conn[c].ctl = <<>>
    <3>1. Here(conn[c]) => Answers(conn[c], up.n) \/ Awaits(conn[c], up.n)
      BY <2>1 DEF ConnsHeld
    <3> QED
      BY <2>1, <3>1 DEF Answers, Awaits
  <2>4. CASE Fares(conn[c], conn'[c])
    <3>1. HandsOn(conn[c], conn'[c], up.n)
      BY <2>1, <2>4 DEF Fares
    <3> QED
      BY <2>1, <2>2, <2>3, <3>1 DEF HandsOn
  <2> QED
    BY <1>4, <2>1, <2>4
<1> QED
  BY <1>2, <1>3, <1>4 DEF Answering

\* The clients' steps.
LEMMA ClientAnswers ==
  ASSUME Types, Types', Numbers, ConnsHeld, Answering, ClientStep
  PROVE  Answering'
<1>0. /\ ConnTypes /\ ConnTypes' /\ UNCHANGED up
      /\ here.kinds \subseteq {"call", "quit", "wait", "upgrade"}
      /\ \A c \in Client : /\ conn[c] \in Connection /\ Once(conn[c])
                           /\ Obeying(conn[c]) /\ RunsNone(conn[c])
  BY UpgradeAssumption DEF Types, ConnTypes, ClientStep, ConnsHeld, Population, Answering
<1>1. PICK c \in Client :
        \/ Connect(c) \/ HangUp(c) \/ Accept(c) \/ Serve(c) \/ SessionTimeout(c)
        \/ Verdict(c)
        \/ \E kind \in {"call", "quit", "wait", "upgrade"} : AskFor(c, kind)
  BY <1>0 DEF ClientStep
<1>2. UNCHANGED runner
  <2>1. CASE Connect(c) \/ HangUp(c) \/ Accept(c) \/ SessionTimeout(c) \/ Verdict(c)
    BY <2>1 DEF Connect, HangUp, Accept, SessionTimeout, Verdict
  <2>2. CASE \E kind \in {"call", "quit", "wait", "upgrade"} : AskFor(c, kind)
    BY <2>2 DEF AskFor
  <2>3. CASE Serve(c)
    BY <2>3 DEF Serve, Read, UpgradeFailed, Flush, Finish, End, Ask, Begin, SessionEvent,
                SessionHungUp, TakeCtl, Freeze
  <2> QED
    BY <1>1, <2>1, <2>2, <2>3
<1>3. Fares(conn[c], conn'[c])
  <2>1. CASE Connect(c) \/ HangUp(c) \/ Accept(c) \/ Verdict(c)
    BY <1>0, <2>1, ComingFares
  <2>2. CASE \E kind \in {"call", "quit", "wait", "upgrade"} : AskFor(c, kind)
    BY <1>0, <2>2, AskedFares
  <2>3. CASE Read(c)
    BY <1>0, <2>3, ReadFares
  <2>4. CASE UpgradeFailed(c) \/ Flush(c) \/ Finish(c) \/ End(c)
    BY <1>0, <2>4, WriteFares
  <2>5. CASE Ask(c) \/ Begin(c) \/ SessionEvent(c) \/ SessionTimeout(c) \/ SessionHungUp(c)
    BY <1>0, <2>5, SessionFares
  <2>6. CASE TakeCtl(c) \/ Freeze(c)
    BY <1>0, <2>6, CtlFares
  <2> QED
    BY <1>1, <2>1, <2>2, <2>3, <2>4, <2>5, <2>6 DEF Serve
<1>4. \A d \in Client : d # c => conn'[d] = conn[d]
  <2>1. CASE TakeCtl(c) \/ Freeze(c)
    BY <1>0, <2>1, CtlKept DEF Types, Attempt, ConnsHeld
  <2>2. CASE ~(TakeCtl(c) \/ Freeze(c))
    <3>1. ASSUME \/ Connect(c) \/ HangUp(c) \/ Accept(c) \/ SessionTimeout(c) \/ Verdict(c)
                 \/ \E kind \in {"call", "quit", "wait", "upgrade"} : AskFor(c, kind)
          PROVE  Moves(c)
      BY <1>0, <3>1, ComingCalm
    <3>2. ASSUME Read(c) PROVE Moves(c)
      BY <1>0, <3>2, ReadCalm
    <3>3. ASSUME UpgradeFailed(c) \/ Flush(c) \/ Finish(c) \/ End(c) PROVE Moves(c)
      BY <1>0, <3>3, WriteCalm
    <3>4. ASSUME Ask(c) \/ Begin(c) \/ SessionEvent(c) \/ SessionHungUp(c) PROVE Moves(c)
      BY <1>0, <3>4, SessionCalm
    <3>5. Moves(c)
      BY <1>1, <2>2, <3>1, <3>2, <3>3, <3>4 DEF Serve
    <3> QED
      BY <3>5 DEF Moves
  <2> QED
    BY <2>1, <2>2
<1> QED
  BY <1>0, <1>2, <1>3, <1>4, AnswersOn

\* A reply is owed, and none is to one that handed over what it is.
LEMMA RepliedFares ==
  ASSUME NEW k, Conn(k), Once(k), NEW ids \in SUBSET Nat
  PROVE  Fares(k, Replied(k, ids))
<1> DEFINE S == {<<"answer", id>> : id \in ids \cap k.running}
           r == k.running \ ids
           o == k.out \o SetToSeq(S)
           h == [k EXCEPT !.running = r, !.out = o]
<1>1. k \in Connection /\ k.running \in SUBSET Nat /\ k.out \in Seq(Frame)
  BY DEF Conn, Connection
<1>2. Replied(k, ids) = h
  BY DEF Replied
<1>3. k.running = {} => o = k.out /\ r = k.running
  <2>1. k.running = {} => S = {}
    OBVIOUS
  <2>2. k.running = {} => SetToSeq(S) = <<>>
    BY <2>1, SeqOfSet, FS_EmptySet
  <2> HIDE DEF S
  <2> QED
    BY <1>1, <2>2
<1>4. Once(h)
  BY <1>2, RepliedOnce
<1> HIDE DEF r, o
<1>5. /\ h.attempt = k.attempt /\ h.reply = k.reply /\ h.at = k.at /\ h.frozen = k.frozen
      /\ h.hung = k.hung /\ h.running = r /\ h.buf = k.buf /\ h.out = o /\ h.wait = k.wait
      /\ h.upgrade = k.upgrade
  BY <1>1 DEF Connection
<1> HIDE DEF h
<1>6. ASSUME NEW n \in Nat PROVE HandsOn(k, h, n)
  <2>1. CASE k.running = {}
    BY <1>3, <1>5, <2>1, StillHanded
  <2>2. CASE k.running # {}
    BY <1>5, <2>2 DEF HandsOn, Hands, Here, Carries
  <2> QED
    BY <2>1, <2>2
<1> QED
  BY <1>2, <1>4, <1>5, <1>6 DEF Fares

\* So is what a session is told.
LEMMA EventFares ==
  ASSUME NEW k \in Connection, Once(k), NEW e \in Seq(Event)
  PROVE  Fares(k, [k EXCEPT !.events = e])
<1> DEFINE h == [k EXCEPT !.events = e]
<1>1. h \in Connection /\ SameBut(k, h) /\ h.at = k.at /\ h.reply = k.reply /\ h.frozen = k.frozen
      /\ h.hung = k.hung
  BY DEF SameBut, Connection
<1> HIDE DEF h
<1>2. Onward(k, h)
  BY <1>1 DEF Onward
<1>3. k.upgrade # 0 <=> k.attempt # "none"
  BY DEF Once, Owed
<1>4. Once(h)
  BY <1>1, <1>2, <1>3, OnceOnward DEF SameBut
<1>5. \A n \in Nat : HandsOn(k, h, n)
  BY <1>1, StillHanded DEF SameBut
<1>6. Fares(k, h)
  BY <1>1, <1>4, <1>5 DEF Fares, SameBut
<1> QED
  BY <1>6 DEF h

\* The kernel's turns.
LEMMA KernelAnswers ==
  ASSUME Types, Types', Numbers, ConnsHeld, Answering, KernelTurn
  PROVE  Answering'
<1> DEFINE msg == Head(kern.queue)
<1>0. /\ conn \in [Client -> Connection] /\ kern \in KernelState /\ kern.queue \in Seq(KernelMsg)
      /\ kern.queue # <<>> /\ UNCHANGED <<runner, up>>
      /\ \A c \in Client : Conn(conn[c]) /\ conn[c] \in Connection /\ Once(conn[c])
  BY DEF Types, KernelState, KernelTurn, Answering
<1>1. msg \in KernelMsg
  BY <1>0
<1>2. /\ msg[1] \in {"call", "quit", "wait"} => msg[2] \in Client /\ msg[3] \in Nat
      /\ msg[1] = "Freeze" => msg[2] \in Nat
  <2> HIDE DEF msg
  <2> QED
    BY <1>1 DEF KernelMsg
<1>3. \/ /\ msg[1] \in {"call", "quit"}
         /\ conn' = [conn EXCEPT ![msg[2]] = Replied(@, {msg[3]})]
      \/ /\ msg[1] = "wait"
         /\ \E e \in {"Set", "Nothing"} : conn' = [conn EXCEPT ![msg[2]].events = Append(@, e)]
      \/ conn' = conn
  BY DEF KernelTurn
<1>4. \A c \in Client : Fares(conn[c], conn'[c]) \/ conn'[c] = conn[c]
  <2>1. CASE msg[1] \in {"call", "quit"} /\ conn' = [conn EXCEPT ![msg[2]] = Replied(@, {msg[3]})]
    <3>1. /\ msg[2] \in Client /\ {msg[3]} \in SUBSET Nat
          /\ conn'[msg[2]] = Replied(conn[msg[2]], {msg[3]})
          /\ \A c \in Client : c # msg[2] => conn'[c] = conn[c]
      BY <1>0, <1>2, <2>1
    <3> HIDE DEF msg
    <3>2. Fares(conn[msg[2]], conn'[msg[2]])
      BY <1>0, <3>1, RepliedFares
    <3> QED
      BY <3>1, <3>2
  <2>2. ASSUME msg[1] = "wait", NEW e \in {"Set", "Nothing"},
               conn' = [conn EXCEPT ![msg[2]].events = Append(@, e)]
        PROVE  \A c \in Client : Fares(conn[c], conn'[c]) \/ conn'[c] = conn[c]
    <3> DEFINE d == msg[2]
               ev == Append(conn[d].events, e)
    <3>1. /\ d \in Client /\ conn'[d] = [conn[d] EXCEPT !.events = ev]
          /\ \A c \in Client : c # d => conn'[c] = conn[c]
      BY <1>0, <1>2, <2>2
    <3>2. ev \in Seq(Event)
      <4>1. conn[d].events \in Seq(Event) /\ e \in Event
        BY <1>0, <3>1 DEF Connection, Event
      <4> QED
        BY <4>1
    <3> HIDE DEF d, ev
    <3>3. Fares(conn[d], conn'[d])
      BY <1>0, <3>1, <3>2, EventFares
    <3> QED
      BY <3>1, <3>3
  <2> QED
    BY <1>3, <2>1, <2>2
<1> QED
  BY <1>0, <1>4, AnswersOn

\* A client that has not connected was told nothing, nor was one that will not.
LEMMA AwayOnce ==
  /\ Away \in Connection /\ Once(Away)
  /\ Once([Away EXCEPT !.at = "gone"])
<1>1. Away \in Connection
  BY Empties DEF Away, Connection, At
<1>2. /\ Away.at = "away" /\ Away.sock = <<>> /\ Away.buf = <<>> /\ Away.sent = 0
      /\ Away.running = {} /\ Away.upgrade = 0 /\ Away.attempt = "none" /\ Away.wait = 0
      /\ Away.out = <<>> /\ Away.got = <<>> /\ Away.reply.of = 0
  BY DEF Away, NoReply
<1>3. Said(Away) = <<>>
  BY <1>2 DEF Said
<1>4. Len(Away.sock) = 0 /\ Len(Away.buf) = 0 /\ Len(Said(Away)) = 0 /\ Seen(Away) = 0
  <2>1. Len(<<>>) = 0
    OBVIOUS
  <2>2. Len(Away.sock) = 0 /\ Len(Away.buf) = 0
    BY <1>2, <2>1
  <2>3. \A k : k.sent = 0 /\ Len(k.sock) = 0 /\ Len(k.buf) = 0 => Seen(k) = 0
    BY DEF Seen
  <2>4. Seen(Away) = 0
    BY <1>2, <2>2, <2>3
  <2> QED
    BY <1>3, <2>1, <2>2, <2>4
<1>5. Once(Away)
  <2>1. InTurn(Away)
    BY <1>2, <1>4 DEF InTurn, Turns
  <2>2. Owed(Away)
    BY <1>2 DEF Owed
  <2>3. Placed(Away)
    BY <1>2 DEF Placed
  <2>4. Given(Said(Away), Seen(Away), Due(Away)) /\ ~Ended(Said(Away))
    BY <1>4 DEF Given, Ended
  <2> QED
    BY <2>1, <2>2, <2>3, <2>4 DEF Once
<1>6. Gone(Away) = [Away EXCEPT !.at = "gone"]
  BY <1>1 DEF Gone, Connection
<1>7. Once(Gone(Away))
  BY <1>1, <1>5, GoneOnce
<1> QED
  BY <1>1, <1>5, <1>6, <1>7

\* The runner's end: what the handlers still have to say is said, and nothing after it.
LEMMA RunnerAnswers ==
  ASSUME Types, Types', ConnsHeld, Answering, RunnerStep
  PROVE  Answering'
<1>0. /\ UNCHANGED up
      /\ \A c \in Client : Conn(conn[c]) /\ conn[c] \in Connection /\ Once(conn[c])
                           /\ conn'[c] \in Connection
  BY DEF Types, RunnerStep, Answering
<1>1. CASE KernelEnds
  <2>1. runner = "serving" /\ runner' = "closing"
    BY <1>1 DEF KernelEnds
  <2>2. PICK those \in SUBSET kern.waits :
          conn' = [c \in Client |->
            [Replied(conn[c], conn[c].running) EXCEPT
               !.events = IF c \in those THEN Append(@, "Done") ELSE @,
               !.ctl = IF Registered(c) THEN Append(@, <<"Close">>) ELSE @]]
    BY <1>1 DEF KernelEnds
  <2>3. ASSUME NEW c \in Client
        PROVE  Once(conn'[c]) /\ (conn[c].attempt = "running" => conn'[c].attempt = "running")
    <3> DEFINE k == Replied(conn[c], conn[c].running)
               ev == IF c \in those THEN Append(k.events, "Done") ELSE k.events
               l == IF Registered(c) THEN Append(k.ctl, <<"Close">>) ELSE k.ctl
               h == [k EXCEPT !.events = ev, !.ctl = l]
    <3>1. k \in Connection
      BY <1>0, ConnKept DEF Conn, Connection
    <3>2. Fares(conn[c], k)
      <4>1. conn[c].running \in SUBSET Nat
        BY <1>0 DEF Connection
      <4> QED
        BY <1>0, <4>1, RepliedFares
    <3>3. conn'[c] = h
      BY <2>2, <3>1 DEF Connection
    <3> HIDE DEF k, ev, l
    <3>4. /\ SameBut(k, h) /\ h.at = k.at /\ h.reply = k.reply
      BY <3>1 DEF SameBut, Connection
    <3>5. h \in Connection
      BY <1>0, <3>3
    <3> HIDE DEF h
    <3>6. Once(k) /\ (k.upgrade # 0 <=> k.attempt # "none")
      BY <3>2 DEF Fares, Once, Owed
    <3>7. Onward(k, h)
      BY <3>4 DEF Onward
    <3>8. Once(h)
      BY <3>1, <3>4, <3>5, <3>6, <3>7, OnceOnward DEF SameBut
    <3> QED
      BY <3>2, <3>3, <3>4, <3>8 DEF Fares, SameBut
  <2> QED
    BY <1>0, <2>1, <2>3 DEF Answering, Live
<1>2. CASE ProcessEnds
  <2>1. runner' \in {"cut", "ended"} /\ \A c \in Client : conn'[c] = Away \/ conn'[c] = Gone(conn[c])
    BY <1>2 DEF ProcessEnds
  <2>2. \A c \in Client : Once(conn'[c])
    BY <1>0, <2>1, AwayOnce, GoneOnce
  <2> QED
    BY <2>1, <2>2 DEF Answering, Live
<1> QED
  BY <1>1, <1>2 DEF RunnerStep

\* A connection that hears of an upgrade, or whose own upgrade comes further.
Hearer(k, h) ==
  /\ h.sent = k.sent /\ h.sock = k.sock /\ h.buf = k.buf /\ h.got = k.got /\ h.out = k.out
  /\ h.running = k.running /\ h.upgrade = k.upgrade /\ h.wait = k.wait /\ h.at = k.at
  /\ h.reply = k.reply \/ h.reply = NoReply
  /\ h.attempt = "none" <=> k.attempt = "none"

LEMMA HearerOnce ==
  ASSUME NEW k \in Connection, NEW h \in Connection, Once(k), Hearer(k, h)
  PROVE  Once(h)
<1>1. Onward(k, h)
  BY DEF Onward, Hearer
<1>2. k.upgrade # 0 <=> h.attempt # "none"
  BY DEF Once, Owed, Hearer
<1>3. h.reply.of = k.reply.of \/ h.reply.of = 0
  BY DEF NoReply, Hearer
<1> QED
  BY <1>1, <1>2, <1>3, OnceOnward DEF Hearer

\* An upgrade starts: nobody has answered a freeze of its number.
LEMMA StartAnswers ==
  ASSUME Types, Types', ConnsHeld, Answering, NEW by \in Client \cup {Other}, Start(by),
         by \in Client => conn[by].attempt = "spawned"
  PROVE  Answering'
<1> DEFINE m == up.n + 1
           a == {c \in Client : Registered(c)}
<1>0. /\ up \in Attempt /\ up.n \in Nat /\ m \in Nat /\ up.n < m
      /\ \A c \in Client : /\ conn[c] \in Connection /\ conn'[c] \in Connection
                           /\ Once(conn[c]) /\ Within(conn[c], up.n)
  BY DEF Types, Attempt, ConnsHeld, Answering
<1>1. up' = [up EXCEPT !.stage = "freezing", !.by = by, !.n = m, !.asked = a]
  BY <1>0 DEF Start, Attempt
<1>2. up'.by = by /\ up'.n = m
  <2> HIDE DEF m, a
  <2> QED
    BY <1>0, <1>1 DEF Attempt
<1>3. ASSUME NEW c \in Client
      PROVE  /\ Once(conn'[c]) /\ Hands(conn'[c], m)
             /\ c = by => conn'[c].attempt = "running"
  <2> DEFINE l == IF Registered(c) THEN Append(conn[c].ctl, <<"Freeze", m>>) ELSE conn[c].ctl
             at == IF c = by THEN "running" ELSE conn[c].attempt
             h == [conn[c] EXCEPT !.ctl = l, !.attempt = at]
  <2>1. conn'[c] = h
    BY <1>0 DEF Start, Connection
  <2>2. (at = "none" <=> conn[c].attempt = "none") /\ (c = by => at = "running")
    OBVIOUS
  <2> HIDE DEF l, at
  <2>3. Hearer(conn[c], h) /\ h.attempt = at /\ h.reply = conn[c].reply
    BY <1>0, <2>2 DEF Hearer, Connection
  <2> HIDE DEF h
  <2>4. Once(h)
    BY <1>0, <2>1, <2>3, HearerOnce
  <2>5. conn[c].reply.of # m
    <3>1. conn[c].reply.of \in Nat /\ conn[c].reply.of <= up.n
      BY <1>0 DEF Connection, Answer, NoReply, Within
    <3> QED
      BY <1>0, <3>1
  <2> HIDE DEF m
  <2>6. Hands(h, m)
    BY <2>3, <2>5 DEF Hands
  <2> QED
    BY <2>1, <2>2, <2>3, <2>4, <2>6
<1> HIDE DEF m
<1> QED
  BY <1>2, <1>3 DEF Answering

\* One that is refused was not under way.
LEMMA RefuseAnswers ==
  ASSUME Types, Types', Answering, NEW c \in Client, RefuseUpgrade(c)
  PROVE  Answering'
<1> DEFINE h == [conn[c] EXCEPT !.attempt = "failed"]
<1>0. /\ UNCHANGED <<runner, up>> /\ conn \in [Client -> Connection]
      /\ conn[c] \in Connection /\ conn'[c] \in Connection
      /\ Live /\ conn[c].attempt = "spawned" /\ \A d \in Client : Once(conn[d])
  BY DEF Types, RefuseUpgrade, Answering
<1>1. conn'[c] = h /\ \A d \in Client : d # c => conn'[d] = conn[d]
  BY <1>0 DEF RefuseUpgrade, Connection
<1>2. /\ h.reply = conn[c].reply /\ h.at = conn[c].at /\ h.frozen = conn[c].frozen
      /\ h.hung = conn[c].hung /\ h.running = conn[c].running /\ h.buf = conn[c].buf
      /\ h.out = conn[c].out /\ h.wait = conn[c].wait /\ h.upgrade = conn[c].upgrade
  BY <1>0 DEF Connection
<1>3. Hearer(conn[c], h)
  BY <1>0 DEF Hearer, Connection
<1> HIDE DEF h
<1>4. Once(h)
  BY <1>0, <1>1, <1>3, HearerOnce
<1>5. \A n : Hands(conn[c], n) => Hands(h, n)
  BY <1>2 DEF Hands, Here, Carries
<1>6. up.stage # "none" /\ up.by \in Client => up.by # c /\ conn[up.by].attempt = "running"
  BY <1>0 DEF Answering
<1> QED
  BY <1>0, <1>1, <1>5, <1>6, <1>4 DEF Answering, Live

\* The kernel is asked; or the upgrade fails, and what its requester is to hear is known.
LEMMA FailAnswers ==
  ASSUME Types, Types', Answering, FreezeKernel \/ Fail
  PROVE  Answering'
<1>0. /\ up \in Attempt
      /\ \A c \in Client : conn[c] \in Connection /\ conn'[c] \in Connection /\ Once(conn[c])
  BY DEF Types, Answering
<1>1. CASE FreezeKernel
  <2>1. /\ UNCHANGED <<conn, runner>> /\ up'.by = up.by /\ up'.n = up.n /\ up.stage # "none"
    BY <1>0, <1>1 DEF FreezeKernel, Attempt
  <2> QED
    BY <2>1 DEF Answering, Live
<1>2. CASE Fail
  <2>1. up'.stage = "none" /\ Live /\ up.stage # "none"
    BY <1>2 DEF Fail, NoUpgrade
  <2>2. up.by \in Client => conn[up.by].attempt = "running"
    BY <2>1 DEF Answering
  <2>3. ASSUME NEW c \in Client PROVE Once(conn'[c])
    <3> DEFINE l == IF c \in ToThaw THEN Append(conn[c].ctl, <<"Thaw">>) ELSE conn[c].ctl
               at == IF c = up.by THEN "failed" ELSE conn[c].attempt
               h == [conn[c] EXCEPT !.ctl = l, !.attempt = at, !.reply = NoReply]
    <3>1. conn'[c] = h
      BY <1>0, <1>2 DEF Fail, Connection
    <3>2. at = "none" <=> conn[c].attempt = "none"
      BY <2>2
    <3> HIDE DEF l, at
    <3>3. Hearer(conn[c], h)
      BY <1>0, <3>2 DEF Hearer, Connection
    <3> HIDE DEF h
    <3> QED
      BY <1>0, <3>1, <3>3, HearerOnce
  <2> QED
    BY <2>1, <2>3 DEF Answering
<1> QED
  BY <1>1, <1>2

-----------------------------------------------------------------------------
(* Answers across the exec *)

\* A connection that is taken up as it was handed over, its upgrade answered.
TakenUp(k, h) ==
  /\ h.sent = k.sent /\ h.sock = k.sock /\ h.buf = k.buf /\ h.got = k.got /\ h.wait = k.wait
  /\ h.running = {} /\ h.upgrade = 0 /\ h.attempt = "none"
  /\ h.at = IF k.at = "session" THEN "resuming" ELSE "rpc"
  /\ \/ h.out = k.out
     \/ k.upgrade # 0 /\ k.wait = 0 /\ h.out = Append(k.out, <<"upgraded", k.upgrade>>)

LEMMA TakenUpOnce ==
  ASSUME NEW k \in Connection, NEW h \in Connection, Once(k), k.at # "gone", TakenUp(k, h)
  PROVE  Once(h)
<1>0. /\ InTurn(k) /\ Owed(k) /\ Placed(k) /\ (Ended(Said(k)) => Over(k))
      /\ h.sent = k.sent /\ h.sock = k.sock /\ h.buf = k.buf /\ h.got = k.got /\ h.wait = k.wait
      /\ h.running = {} /\ h.upgrade = 0 /\ h.attempt = "none"
      /\ h.at = IF k.at = "session" THEN "resuming" ELSE "rpc"
      /\ k.upgrade \in Nat /\ k.got \in Seq(Frame) /\ k.out \in Seq(Frame)
  BY DEF Once, TakenUp, Connection
<1>1. Seen(h) = Seen(k) /\ Seen(k) \in Int
  BY <1>0, Measured DEF Seen
<1>2. InTurn(h)
  BY <1>0, <1>1 DEF InTurn
<1>3. Owed(h)
  BY <1>0, <1>1 DEF Owed
<1>4. Placed(h)
  BY <1>0 DEF Placed
<1>5. \A id : id \in Due(h) => id = 0
  BY <1>0 DEF Due
<1>6. \A id \in 1 .. Seen(k) : id \in Due(h) => id \in Due(k)
  BY <1>1, <1>5
<1>7. CASE h.out = k.out
  <2>1. Said(h) = Said(k)
    BY <1>0, <1>7 DEF Said
  <2>2. Ended(Said(k)) => Over(h)
    BY <1>0 DEF Over
  <2> QED
    BY <1>1, <1>2, <1>3, <1>4, <1>6, <2>1, <2>2, OnceKept
<1>8. CASE k.upgrade # 0 /\ k.wait = 0 /\ h.out = Append(k.out, <<"upgraded", k.upgrade>>)
  <2> DEFINE f == <<"upgraded", k.upgrade>>
  <2>1. f \in Frame /\ f[1] = "upgraded" /\ f[2] = k.upgrade /\ ~IsLast(f)
    BY <1>0 DEF Frame, IsLast
  <2>2. h.out = Append(k.out, f)
    BY <1>8
  <2> HIDE DEF f
  <2>3. Said(h) = Append(Said(k), f)
    <3>1. k.got \o Append(k.out, f) = Append(Said(k), f)
      BY <1>0, <2>1, SaidAt
    <3>2. Said(h) = k.got \o Append(k.out, f)
      BY <1>0, <2>2 DEF Said
    <3> QED
      BY <3>1, <3>2
  <2>4. ~Ended(Said(k))
    BY <1>0, <1>8 DEF Over
  <2>5. f[2] \in 1 .. Seen(h) /\ f[2] \notin Due(h) /\ f[2] \in Due(k)
    <3>1. k.upgrade \in 1 .. Seen(k)
      BY <1>0, <1>8 DEF Owed
    <3>2. k.upgrade \in Due(k)
      BY DEF Due
    <3>3. k.upgrade \notin Due(h)
      BY <1>5, <1>8
    <3> QED
      BY <1>1, <2>1, <3>1, <3>2, <3>3
  <2>6. Seen(k) <= Seen(h)
    BY <1>1
  <2> QED
    BY <1>2, <1>3, <1>4, <1>6, <2>1, <2>3, <2>4, <2>5, <2>6, OnceMore
<1> QED
  BY <1>7, <1>8 DEF TakenUp

\* What the new image resumes is what was handed over.
LEMMA ResumedOnce ==
  ASSUME Types, up.n > 0, NEW c \in Carried, Once(conn[c]), conn[c].at # "gone",
         Hands(conn[c], up.n)
  PROVE  Once(Resumed(c))
<1> DEFINE k == conn[c]
           s == k.reply.what
           h == Resumed(c)
           a == IF s.kind = "Wait" THEN "resuming" ELSE "rpc"
           o == IF s.upgrade # 0 THEN Append(s.out, <<"upgraded", s.upgrade>>) ELSE s.out
<1>1. /\ c \in Client /\ k \in Connection /\ h \in Connection /\ s \in Handed /\ k.reply.of = up.n
  <2>1. c \in Client /\ Conn(h) /\ s \in Handed
    BY ResumedTyped
  <2> QED
    BY <2>1 DEF Types, Conn, Carried, HasReplied
<1>2. Here(k)
  <2>1. k.reply.of # 0
    BY <1>1
  <2> QED
    BY <2>1 DEF Once, Placed, Here
<1>3. Carries(k)
  BY <1>1, <1>2 DEF Hands
<1>4. /\ h.sent = k.sent /\ h.sock = k.sock /\ h.got = k.got /\ h.buf = s.buf /\ h.wait = s.wait
      /\ h.running = {} /\ h.upgrade = 0 /\ h.attempt = "none" /\ h.at = a /\ h.out = o
  BY DEF Resumed, Away
<1>5. /\ s.buf = k.buf /\ s.out = k.out /\ s.wait = k.wait
      /\ s.kind = "Wait" <=> k.at = "session"
      /\ s.upgrade # 0 => s.upgrade = k.upgrade /\ k.wait = 0
  BY <1>3 DEF Carries
<1>6. a = IF k.at = "session" THEN "resuming" ELSE "rpc"
  BY <1>5
<1>7. o = k.out \/ (k.upgrade # 0 /\ k.wait = 0 /\ o = Append(k.out, <<"upgraded", k.upgrade>>))
  BY <1>5
<1> HIDE DEF h, s, a, o
<1>8. TakenUp(k, h)
  BY <1>4, <1>5, <1>6, <1>7 DEF TakenUp
<1>9. Once(h)
  BY <1>1, <1>8, TakenUpOnce
<1> QED
  BY <1>9 DEF h

\* The new image goes on where the snapshot is, or ends.
LEMMA ExecAnswers ==
  ASSUME Types, Types', Numbers, ConnsHeld, Answering, Exec \/ ResumeFails
  PROVE  Answering'
<1>0. /\ up.n > 0 /\ kern.freeze = up.n /\ up.stage = "kernel" /\ Live
      /\ \A c \in Client : conn[c] \in Connection /\ Once(conn[c])
  BY DEF Exec, ResumeFails, KernelFrozen, Numbers, Types, Answering
<1>1. runner = "serving"
  BY <1>0 DEF ConnsHeld, Live
<1>2. \A c \in Client : Hands(conn[c], up.n)
  BY <1>0, <1>1 DEF Answering
<1>3. up'.stage = "none"
  <2>1. up' = NoUpgrade(up.n, up.images + 1)
    BY DEF Exec, ResumeFails
  <2> QED
    BY <2>1 DEF NoUpgrade
<1>4. ASSUME NEW c \in Client PROVE Once(conn'[c])
  <2>1. CASE Exec
    <3>1. conn'[c] = AfterExec(c) /\ \A d \in Carried : conn[d].at # "gone"
      BY <2>1 DEF Exec
    <3>2. \/ AfterExec(c) = Resumed(c) /\ c \in Carried
          \/ AfterExec(c) \in {Gone(conn[c]), conn[c]}
      BY DEF AfterExec
    <3> QED
      BY <1>0, <1>2, <3>1, <3>2, ResumedOnce, GoneOnce
  <2>2. CASE ResumeFails
    <3>1. conn'[c] = Away \/ conn'[c] = Gone(conn[c])
      BY <2>2 DEF ResumeFails
    <3> QED
      BY <1>0, <3>1, AwayOnce, GoneOnce
  <2> QED
    BY <2>1, <2>2
<1> QED
  BY <1>3, <1>4 DEF Answering

\* Every step answers nothing twice.
LEMMA AnsweringNext ==
  ASSUME ChildInv, Answering, [Next]_vars
  PROVE  Answering'
<1>0. Types /\ Types' /\ Numbers /\ ConnsHeld
  BY TypesKept DEF ChildInv
<1>1. CASE UNCHANGED <<conn, runner, up>>
  BY <1>1 DEF Answering, Live
<1>2. CASE ClientStep
  BY <1>0, <1>2, ClientAnswers
<1>3. CASE RunnerStep
  BY <1>0, <1>3, RunnerAnswers
<1>4. CASE KernelTurn
  BY <1>0, <1>4, KernelAnswers
<1>5. ASSUME NEW c \in Client, StartFor(c) PROVE Answering'
  BY <1>0, <1>5, StartAnswers DEF StartFor
<1>6. ASSUME NEW c \in Client, RefuseUpgrade(c) PROVE Answering'
  BY <1>0, <1>6, RefuseAnswers
<1>7. CASE Start(Other)
  BY <1>0, <1>7, StartAnswers, UpgradeAssumption
<1>8. CASE FreezeKernel \/ Fail
  BY <1>0, <1>8, FailAnswers
<1>9. CASE Exec \/ ResumeFails
  BY <1>0, <1>9, ExecAnswers
<1> QED
  BY <1>1, <1>2, <1>3, <1>4, <1>5, <1>6, <1>7, <1>8, <1>9 DEF Next, UpgradeStep, ReaperStep, vars

\* Nobody has asked anything at first.
LEMMA AnsweringInit == Init => Answering
<1> SUFFICES ASSUME Init PROVE Answering
  OBVIOUS
<1>1. /\ up.stage = "none"
      /\ \A c \in Client : conn[c] = Away \/ conn[c] = [Away EXCEPT !.at = "gone"]
  BY DEF Init, ConnectionsInit, NoUpgrade
<1> QED
  BY <1>1, AwayOnce DEF Answering

\* What is known of the state, whole.
LEMMA AnsweredTypes ==
  ASSUME ChildInv, Answering
  PROVE  TypeOK
<1>0. Types /\ ChildTypes /\ Children
  BY DEF ChildInv
<1>1. ASSUME NEW c \in Client
      PROVE  /\ conn[c].at \in At
             /\ conn[c].at \in {"drain", "asking", "resuming", "session"} =>
                  conn[c].wait \in 1 .. conn[c].sent
             /\ conn[c].running \subseteq 1 .. conn[c].sent
             /\ conn[c].upgrade # 0 <=> conn[c].attempt # "none"
  <2>1. conn[c] \in Connection /\ Owed(conn[c]) /\ Placed(conn[c])
    BY <1>0 DEF Types, Answering, Once
  <2>2. conn[c].at \in At /\ conn[c].wait \in Nat
    BY <2>1 DEF Connection
  <2>3. Seen(conn[c]) \in Int /\ Seen(conn[c]) <= conn[c].sent /\ conn[c].sent \in Nat
    BY <2>1, Measured
  <2>4. \A id \in 1 .. Seen(conn[c]) : id \in 1 .. conn[c].sent
    BY <2>3
  <2>5. conn[c].at \in {"drain", "asking", "resuming", "session"} => conn[c].wait # 0
    BY <2>1 DEF Owed, Placed
  <2> QED
    BY <2>1, <2>2, <2>4, <2>5 DEF Owed
<1>2. ASSUME NEW p \in Pid PROVE reaper.listeners[p] \in 0 .. Started
  <2>1. reaper.listeners[p] \in Nat /\ Started \in Nat
    BY <1>0 DEF ChildTypes, ReaperState, Started
  <2>2. reaper.listeners[p] # 0 => reaper.listeners[p] \in 1 .. Started
    BY <1>0 DEF Children, Listening, OnePlace
  <2> QED
    BY <2>1, <2>2
<1>3. kern.waits \subseteq Client /\ up.stage \in {"none", "freezing", "kernel"}
  BY <1>0 DEF Types, KernelState, Attempt
<1>4. \A t \in Task : task[t].frozen \in BOOLEAN /\ task[t].child \in Pid \cup {0}
  BY <1>0 DEF ChildTypes, Handler
<1> QED
  BY <1>1, <1>2, <1>3, <1>4 DEF TypeOK, At

(* dispatch_connection, carried, resume: whatever a client sends, in however
   many reads it comes, and however often its connection is frozen, thawed and
   carried into a new image meanwhile, a request is answered once at most, and
   after a session's verdict its client hears nothing. *)
THEOREM AnswersOnce == Spec => []AnsweredOnce
<1>1. Init => ChildInv /\ Answering
  BY ChildInit, AnsweringInit
<1>2. ChildInv /\ Answering /\ [Next]_vars => (ChildInv /\ Answering)'
  BY ChildNext, AnsweringNext
<1>3. ChildInv /\ Answering => AnsweredOnce
  <2> SUFFICES ASSUME ChildInv, Answering PROVE AnsweredOnce
    OBVIOUS
  <2>1. TypeOK
    BY AnsweredTypes
  <2>2. \A c \in Client : Given(Frames(c), Seen(conn[c]), Due(conn[c]))
    BY DEF Answering, Once, Said, Frames
  <2> QED
    BY <2>1, <2>2 DEF AnsweredOnce, Given
<1> QED
  BY <1>1, <1>2, <1>3, PTL DEF Spec
=============================================================================
