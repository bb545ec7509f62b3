---------------------------- MODULE UpgradeProofs ----------------------------
(***************************************************************************)
(* Theorems on the upgrade, for any number of clients, tasks, pids, runs   *)
(* and upgrades: what becomes of the children, what the snapshot is, and   *)
(* what a session is told.                                                 *)
(***************************************************************************)
EXTENDS UpgradeProperties, FiniteSetTheorems, TLAPS

-----------------------------------------------------------------------------
(* The types *)

Msg == {"hello", "call", "quit", "wait", "upgrade"} \X Nat
Ctl == ({"Freeze"} \X (Nat \ {0})) \cup {<<"Thaw">>, <<"Close">>}
Frame == {"hello", "answer", "error", "ok", "upgraded", "tasks", "done", "timeout", "bye"} \X Nat

\* What a connection hands the snapshot, and its answer to a freeze.
Handed == [kind : {"Wait", "Rpc"}, hello : BOOLEAN, buf : Seq(Msg), out : Seq(Frame),
           upgrade : Nat, wait : Nat]
Answer == [of : Nat \ {0}, what : Handed] \cup {NoReply}

At == {"away", "backlog", "rpc", "freezing", "drain", "asking", "resuming", "session",
       "finish", "gone"}

\* What the kernel tells a session.
Event == {"Set", "Nothing", "Done"}

Connection ==
  [at : At, hello : BOOLEAN, sock : Seq(Msg), buf : Seq(Msg), hung : BOOLEAN,
   running : SUBSET Nat, upgrade : Nat, attempt : {"none", "spawned", "running", "failed"},
   dropped : Nat, wait : Nat, events : Seq(Event), out : Seq(Frame),
   frozen : BOOLEAN, closing : BOOLEAN, ctl : Seq(Ctl), reply : Answer, sent : Nat,
   got : Seq(Frame)]

\* A connection is of its type, and only so many of its calls have no reply.
Conn(k) == k \in Connection /\ IsFiniteSet(k.running)

KernelMsg == ({"call", "quit", "wait"} \X Client \X Nat) \cup ({"Freeze"} \X Nat) \cup {<<"Thaw">>}

KernelState == [queue : Seq(KernelMsg), freeze : Nat, quitting : BOOLEAN, over : BOOLEAN,
                waits : SUBSET Client]

Process == [st : {"free", "alive", "zombie"}, run : Nat]

ReaperState == [listeners : [Pid -> Nat], unclaimed : [Pid -> [place : Int, run : Nat]],
                reaped : Nat, paused : BOOLEAN]

Handler == [step : {"none", "idle", "forked"}, kind : {"child", "command"}, mark : Nat,
            pid : Pid \cup {0}, child : Pid \cup {0}, run : Nat, exited : BOOLEAN,
            exits : Seq(Nat), command : Nat, cmds : Seq({"Freeze", "Thaw"}),
            frozen : BOOLEAN, adopt : BOOLEAN]

Attempt == [stage : {"none", "freezing", "kernel"}, by : Client \cup {Other}, n : Nat,
            asked : SUBSET Client, images : Nat]

Types ==
  /\ conn \in [Client -> Connection] /\ \A c \in Client : Conn(conn[c])
  /\ paused \in BOOLEAN
  /\ kern \in KernelState
  /\ runner \in {"serving", "closing", "ended", "cut", "failed"}
  /\ here \in Populations
  /\ up \in Attempt

ChildTypes ==
  /\ procs \in [Pid -> Process]
  /\ reaper \in ReaperState
  /\ task \in [Task -> Handler]
  /\ heard \in Seq(Seq(Nat))

-----------------------------------------------------------------------------
(* The children *)

Occupied(p) == procs[p].st # "free"
Unclaimed(p) == reaper.unclaimed[p].place >= 0

\* A run's exit is at one place until its owner is handed it: its process, alive or
\* dead, or the exits that nobody claimed.
OnePlace ==
  /\ \A p \in Pid : Occupied(p) =>
       procs[p].run \in 1 .. Started /\ heard[procs[p].run] = <<>>
  /\ \A p \in Pid : Unclaimed(p) =>
       reaper.unclaimed[p].run \in 1 .. Started /\ heard[reaper.unclaimed[p].run] = <<>>
  /\ \A p, q \in Pid : Occupied(p) /\ Occupied(q) /\ procs[p].run = procs[q].run => p = q
  /\ \A p, q \in Pid :
       Unclaimed(p) /\ Unclaimed(q) /\ reaper.unclaimed[p].run = reaper.unclaimed[q].run => p = q
  /\ \A p, q \in Pid : Occupied(p) /\ Unclaimed(q) => procs[p].run # reaper.unclaimed[q].run
  /\ \A p \in Pid : reaper.unclaimed[p].place < reaper.reaped

\* Who listens at a pid listens for the process that has it.
Listening ==
  \A p \in Pid : reaper.listeners[p] # 0 => Occupied(p) /\ procs[p].run = reaper.listeners[p]

\* Between the mark and the registration the exit of run n is to come, or came since.
Ahead(p, mark, n) ==
  /\ reaper.listeners[p] = 0
  /\ \/ Occupied(p) /\ procs[p].run = n /\ reaper.unclaimed[p].place < mark
     \/ ~Occupied(p) /\ reaper.unclaimed[p].place >= mark /\ reaper.unclaimed[p].run = n

Spawned(t) == IF task[t].kind = "child" THEN task[t].run ELSE task[t].command

SpawningAt(t) ==
  IF task[t].step = "forked"
  THEN /\ task[t].pid # 0 /\ ~task[t].frozen /\ ~task[t].adopt
       /\ task[t].kind = "child" => task[t].child = 0
       /\ task[t].mark <= reaper.reaped
       /\ Ahead(task[t].pid, task[t].mark, Spawned(t))
  ELSE task[t].pid = 0

Spawning == \A t \in Task : SpawningAt(t)

\* A task waits for the exit of the process at p, its child's or one it is starting.
ChildAt(t, p) == task[t].child = p /\ ~task[t].exited
HoldsPid(t, p) == ChildAt(t, p) \/ task[t].pid = p

Apart ==
  /\ \A t, u \in Task, p \in Pid : HoldsPid(t, p) /\ HoldsPid(u, p) => t = u
  /\ \A t \in Task, p \in Pid : ~(ChildAt(t, p) /\ task[t].pid = p)

\* Whose exit a task does not know is its child: it listens for it or was handed it, or,
\* in a new image, is yet to adopt it.
KnownAt(t) ==
  /\ task[t].step = "none" \/ task[t].adopt => task[t].step # "forked"
  /\ task[t].step = "none" => task[t].child = 0
  /\ task[t].adopt => task[t].child # 0
  /\ task[t].child # 0 /\ ~task[t].exited =>
       /\ task[t].run # 0
       /\ IF task[t].adopt THEN Ahead(task[t].child, 0, task[t].run)
          ELSE reaper.listeners[task[t].child] = task[t].run \/ task[t].exits # <<>>

Known == \A t \in Task : KnownAt(t)

Children == OnePlace /\ Listening /\ Spawning /\ Apart /\ Known /\ OwnExit

-----------------------------------------------------------------------------
(* The freeze of the kernel *)

\* A freeze that was given up on has an earlier number.
Numbers ==
  /\ up.stage # "none" => up.n > 0
  /\ kern.freeze <= up.n
  /\ up.stage = "freezing" => kern.freeze < up.n
  /\ \A i \in 1 .. Len(kern.queue) : kern.queue[i][1] = "Freeze" =>
       /\ kern.queue[i][2] <= up.n
       /\ up.stage = "freezing" => kern.queue[i][2] < up.n

\* Once this upgrade has frozen the kernel, a task that has obeyed has no exit that is
\* not in the snapshot, and none comes; one that has not has the freeze last.
HeldAt(t) ==
  IF task[t].cmds = <<>>
  THEN task[t].frozen /\ task[t].exits = <<>> /\ task[t].step = "idle" /\ ~task[t].adopt
  ELSE task[t].cmds[Len(task[t].cmds)] = "Freeze"

TasksHeld ==
  /\ up.stage = "kernel" => reaper.paused
  /\ up.stage = "kernel" /\ kern.freeze = up.n => \A t \in Tasks : HeldAt(t)

-----------------------------------------------------------------------------
(* The freeze of the connections *)

\* A connection that waits for its replies has the freeze before it.
Obeying(k) == k.at = "freezing" => k.ctl # <<>> /\ Head(k.ctl)[1] = "Freeze"

RunsNone(k) == k.at \in {"asking", "resuming", "session", "finish"} => k.running = {}

\* What it heard of freezes and answered has a number that was given out.
Within(k, n) ==
  /\ k.reply.of <= n
  /\ \A i \in 1 .. Len(k.ctl) : k.ctl[i][1] = "Freeze" => k.ctl[i][2] <= n

\* It ends for its client only.
Open(k) ==
  /\ k.closing => k.hung
  /\ \A i \in 1 .. Len(k.ctl) : k.ctl[i][1] # "Close"

Here(k) == k.at \notin {"away", "backlog", "gone"}

\* It answered freeze n, and then does nothing but for a client that hung up,
Answers(k, n) ==
  /\ k.reply.of = n /\ k.ctl = <<>>
  /\ ~k.hung => /\ k.frozen /\ k.running = {} /\ k.at \in {"rpc", "session", "finish"}
                /\ k.reply.what = carried(k)

\* or is to hear of it, after what is about earlier ones.
Awaits(k, n) ==
  /\ k.reply.of < n /\ k.ctl # <<>> /\ k.ctl[Len(k.ctl)] = <<"Freeze", n>>
  /\ \A i \in 1 .. Len(k.ctl) - 1 : k.ctl[i][1] = "Freeze" => k.ctl[i][2] < n

ConnsHeld ==
  /\ \A c \in Client : Obeying(conn[c]) /\ RunsNone(conn[c]) /\ Within(conn[c], up.n)
  /\ runner = "serving" => \A c \in Client : Open(conn[c])
  /\ up.stage # "none" => paused
  /\ runner = "serving" /\ up.stage # "none" =>
       \A c \in Client : Here(conn[c]) =>
         /\ c \in up.asked
         /\ Answers(conn[c], up.n) \/ (up.stage = "freezing" /\ Awaits(conn[c], up.n))
  /\ kern.over => kern.freeze = 0
  /\ runner = "closing" => kern.over

ChildInv == Types /\ ChildTypes /\ Children /\ Numbers /\ TasksHeld /\ ConnsHeld

-----------------------------------------------------------------------------
(* The types are kept *)

\* The members of a finite set as a sequence, each once.
LEMMA SeqOfSet ==
  ASSUME NEW S, IsFiniteSet(S)
  PROVE  /\ SetToSeq(S) \in Seq(S)
         /\ \A i, j \in 1 .. Len(SetToSeq(S)) : SetToSeq(S)[i] = SetToSeq(S)[j] => i = j
         /\ S = {} => SetToSeq(S) = <<>>
<1> DEFINE n == Cardinality(S)
           f == CHOOSE e \in [1 .. n -> S] : IsInjective(e)
<1>1. n \in Nat /\ ExistsBijection(1 .. n, S)
  BY FS_CardinalityType
<1>2. \E e \in [1 .. n -> S] : IsInjective(e)
  BY <1>1 DEF ExistsBijection, Bijection, Injection, IsInjective
<1> HIDE DEF n
<1>3. f \in [1 .. n -> S] /\ IsInjective(f)
  BY <1>2
<1>4. SetToSeq(S) = f
  BY DEF SetToSeq, n
<1> HIDE DEF f
<1>5. f \in Seq(S) /\ Len(f) = n
  BY <1>1, <1>3
<1>6. \A i, j \in 1 .. n : f[i] = f[j] => i = j
  BY <1>3 DEF IsInjective
<1>7. S = {} => f = <<>>
  BY <1>1, <1>5, FS_EmptySet DEF n
<1> QED
  BY <1>4, <1>5, <1>6, <1>7

\* A connection that becomes one of its type.
LEMMA ConnAt ==
  ASSUME Types, NEW c \in Client, NEW k, Conn(k), conn' = [conn EXCEPT ![c] = k]
  PROVE  conn' \in [Client -> Connection] /\ \A d \in Client : Conn(conn'[d])
BY DEF Types, Conn

\* What a connection is set to again and again.
LEMMA Empties ==
  /\ <<>> \in Seq(Event) /\ <<>> \in Seq(Msg) /\ <<>> \in Seq(Ctl) /\ <<>> \in Seq(Frame)
  /\ "finish" \in At /\ "gone" \in At /\ "rpc" \in At
  /\ FALSE \in BOOLEAN /\ {} \in SUBSET Nat /\ IsFiniteSet({}) /\ NoReply \in Answer
BY FS_EmptySet DEF At, Answer

\* Closing, freezing and replying.
LEMMA ConnKept ==
  ASSUME NEW k, Conn(k)
  PROVE  /\ Conn(Gone(k))
         /\ Conn(Closed(k))
         /\ carried(k) \in Handed
         /\ \A n \in Nat \ {0} : Conn(Frozen(k, n))
         /\ \A ids \in SUBSET Nat : Conn(Replied(k, ids))
<1>0. k \in Connection /\ IsFiniteSet(k.running)
  BY DEF Conn
<1>1. Conn(Gone(k))
  <2>1. /\ k.hung \in BOOLEAN /\ k.sent \in Nat /\ k.got \in Seq(Frame) /\ k.upgrade \in Nat
        /\ k.attempt \in {"none", "spawned", "running", "failed"} /\ k.reply \in Answer
        /\ k.dropped \in Nat
    BY <1>0 DEF Connection
  <2>2. Away \in Connection
    BY Empties DEF Away, Connection, At
  <2>3. Gone(k) \in Connection
    BY <2>1, <2>2 DEF Gone, Connection, At
  <2>4. Gone(k).running = {}
    BY DEF Gone, Away
  <2> QED
    BY <2>3, <2>4, Empties DEF Conn
<1>2. Conn(Closed(k))
  <2>1. CASE k.at = "rpc"
    BY <1>0, <2>1 DEF Closed, Connection, Conn
  <2>2. CASE k.at = "session"
    <3> DEFINE o == IF k.events = <<>> THEN k.out ELSE Append(k.out, <<"done", k.wait>>)
               h == [k EXCEPT !.at = "finish", !.frozen = FALSE, !.events = <<>>, !.out = o]
    <3>1. o \in Seq(Frame)
      <4>1. <<"done", k.wait>> \in Frame
        BY <1>0 DEF Connection, Frame
      <4>2. k.out \in Seq(Frame)
        BY <1>0 DEF Connection
      <4> QED
        BY <4>1, <4>2
    <3>2. Closed(k) = h
      BY <1>0, <2>2 DEF Closed, Connection
    <3> HIDE DEF o
    <3>3. h \in Connection
      BY <1>0, <3>1, Empties DEF Connection
    <3>4. h.running = k.running
      BY <1>0 DEF Connection
    <3> QED
      BY <1>0, <3>2, <3>3, <3>4 DEF Conn
  <2>3. CASE k.at \notin {"rpc", "session"}
    BY <1>0, <2>3 DEF Closed, Conn
  <2> QED
    BY <2>1, <2>2, <2>3
<1>3. carried(k) \in Handed
  BY <1>0 DEF carried, Handed, Connection
<1>4. ASSUME NEW n \in Nat \ {0} PROVE Conn(Frozen(k, n))
  <2>1. [of |-> n, what |-> carried(k)] \in Answer
    BY <1>3 DEF Answer
  <2> QED
    BY <1>0, <2>1 DEF Frozen, Connection, Conn
<1>5. ASSUME NEW ids \in SUBSET Nat PROVE Conn(Replied(k, ids))
  <2> DEFINE S == {<<"answer", id>> : id \in ids \cap k.running}
             o == k.out \o SetToSeq(S)
             R == k.running \ ids
             h == [k EXCEPT !.running = R, !.out = o]
  <2>1. IsFiniteSet(R) /\ IsFiniteSet(ids \cap k.running)
    BY <1>0, FS_Subset
  <2>2. IsFiniteSet(S)
    <3> DEFINE T == ids \cap k.running
               f == [id \in T |-> <<"answer", id>>]
    <3>1. IsFiniteSet(T)
      BY <2>1
    <3>2. f \in Surjection(T, S)
      BY DEF Surjection
    <3> HIDE DEF T, f, S
    <3> QED
      BY <3>1, <3>2, FS_Surjection
  <2>3. S \in SUBSET Frame
    BY DEF Frame
  <2> HIDE DEF S
  <2>4. SetToSeq(S) \in Seq(Frame)
    BY <2>2, <2>3, SeqOfSet
  <2>5. o \in Seq(Frame) /\ R \in SUBSET Nat
    BY <1>0, <2>4 DEF Connection
  <2>6. Replied(k, ids) = h
    BY <1>0 DEF Replied, S, Connection
  <2> HIDE DEF o, R
  <2>7. h \in Connection
    BY <1>0, <2>5 DEF Connection
  <2>8. h.running = R
    BY <1>0 DEF Connection
  <2> QED
    BY <2>1, <2>6, <2>7, <2>8 DEF Conn
<1> QED
  BY <1>1, <1>2, <1>3, <1>4, <1>5

\* What a request does to its connection and to the kernel's channel.
LEMMA TakenTyped ==
  ASSUME NEW k, Conn(k), kern \in KernelState, NEW c \in Client, NEW msg \in Msg
  PROVE  Conn(Taken(k, c, msg).conn) /\ Taken(k, c, msg).kern \in KernelState
<1>0. k \in Connection /\ IsFiniteSet(k.running) /\ msg[2] \in Nat
      /\ msg[1] \in {"hello", "call", "quit", "wait", "upgrade"}
      /\ msg = <<msg[1], msg[2]>>
  BY DEF Conn, Msg
<1>1. CASE msg[1] = "hello"
  <2> DEFINE o == Append(k.out, msg)
             h == [k EXCEPT !.hello = TRUE, !.out = o]
  <2>1. o \in Seq(Frame)
    <3>1. msg \in Frame
      BY <1>0, <1>1 DEF Frame
    <3>2. k.out \in Seq(Frame)
      BY <1>0 DEF Connection
    <3> QED
      BY <3>1, <3>2
  <2>2. Taken(k, c, msg).conn = h /\ Taken(k, c, msg).kern = kern
    BY <1>1, <1>0 DEF Taken, Connection
  <2> HIDE DEF o
  <2>3. h \in Connection /\ h.running = k.running
    BY <1>0, <2>1 DEF Connection
  <2> QED
    BY <1>0, <2>2, <2>3 DEF Conn
<1>2. CASE msg[1] \in {"call", "quit"}
  <2> DEFINE R == k.running \cup {msg[2]}
             h == [k EXCEPT !.running = R]
             e == <<msg[1], c, msg[2]>>
  <2>1. Taken(k, c, msg).conn = h /\ Taken(k, c, msg).kern = Queue(kern, e)
    BY <1>2 DEF Taken, Handle
  <2>2. IsFiniteSet(R) /\ R \in SUBSET Nat
    BY <1>0, FS_AddElement DEF Connection
  <2> HIDE DEF R
  <2>3. h \in Connection /\ h.running = R
    BY <1>0, <2>2 DEF Connection
  <2>4. e \in KernelMsg
    BY <1>0, <1>2 DEF KernelMsg
  <2> HIDE DEF e
  <2>5. Queue(kern, e) \in KernelState
    BY <2>4 DEF KernelState, Queue
  <2> QED
    BY <2>1, <2>2, <2>3, <2>5 DEF Conn
<1>3. CASE msg[1] = "wait"
  <2> DEFINE h == [k EXCEPT !.at = "drain", !.wait = msg[2], !.dropped = k.upgrade]
  <2>1. Taken(k, c, msg).conn = h /\ Taken(k, c, msg).kern = kern
    BY <1>3 DEF Taken
  <2>2. h \in Connection /\ h.running = k.running
    BY <1>0 DEF Connection, At
  <2> QED
    BY <1>0, <2>1, <2>2 DEF Conn
<1>4. CASE msg[1] = "upgrade" /\ k.upgrade # 0
  <2> DEFINE o == Append(k.out, <<"error", msg[2]>>)
             h == [k EXCEPT !.out = o]
  <2>1. Taken(k, c, msg).conn = h /\ Taken(k, c, msg).kern = kern
    BY <1>4, <1>0 DEF Taken, Connection
  <2>2. o \in Seq(Frame)
    <3>1. <<"error", msg[2]>> \in Frame
      BY <1>0 DEF Frame
    <3>2. k.out \in Seq(Frame)
      BY <1>0 DEF Connection
    <3> QED
      BY <3>1, <3>2
  <2> HIDE DEF o
  <2>3. h \in Connection /\ h.running = k.running
    BY <1>0, <2>2 DEF Connection
  <2> QED
    BY <1>0, <2>1, <2>3 DEF Conn
<1>5. CASE msg[1] = "upgrade" /\ k.upgrade = 0
  <2> DEFINE h == [k EXCEPT !.upgrade = msg[2], !.attempt = "spawned"]
  <2>1. Taken(k, c, msg).conn = h /\ Taken(k, c, msg).kern = kern
    BY <1>5 DEF Taken
  <2>2. h \in Connection /\ h.running = k.running
    BY <1>0 DEF Connection
  <2> QED
    BY <1>0, <2>1, <2>2 DEF Conn
<1> QED
  BY <1>0, <1>1, <1>2, <1>3, <1>4, <1>5

\* A message to the kernel keeps it of its type.
LEMMA QueueTyped ==
  ASSUME NEW k \in KernelState, NEW e \in KernelMsg
  PROVE  /\ Queue(k, e) \in KernelState /\ Queue(k, e).freeze = k.freeze
         /\ Queue(k, e).queue = Append(k.queue, e)
BY DEF KernelState, Queue

\* The part of a client's step that is not about children.
ConnTypes ==
  /\ conn \in [Client -> Connection] /\ \A c \in Client : Conn(conn[c])
  /\ paused \in BOOLEAN
  /\ kern \in KernelState
  /\ runner \in {"serving", "closing", "ended", "cut", "failed"}

\* A step of one connection to k keeps the types.
LEMMA ConnStep ==
  ASSUME ConnTypes, NEW c \in Client, NEW k, Conn(k), conn' = [conn EXCEPT ![c] = k],
         kern' \in KernelState, UNCHANGED <<paused, runner>>
  PROVE  ConnTypes'
BY DEF ConnTypes, Conn

\* What comes from a client keeps them, and the accept loop.
LEMMA ComingTyped ==
  ASSUME ConnTypes, NEW c \in Client,
         \/ Connect(c) \/ HangUp(c) \/ Accept(c) \/ SessionTimeout(c) \/ Verdict(c)
         \/ \E kind \in {"call", "quit", "wait", "upgrade"} : AskFor(c, kind)
  PROVE  ConnTypes'
<1> DEFINE k == conn[c]
<1>0. Conn(k) /\ k \in Connection /\ IsFiniteSet(k.running) /\ kern \in KernelState
  BY DEF ConnTypes, Conn
<1>1. CASE Connect(c)
  <2> DEFINE q == <<<<"hello", 0>>>>
             h == [k EXCEPT !.at = "backlog", !.sock = q]
  <2>1. conn' = [conn EXCEPT ![c] = h] /\ UNCHANGED <<kern, paused, runner>>
    BY <1>1 DEF Connect, ConnTypes
  <2>2. q \in Seq(Msg)
    <3>1. <<"hello", 0>> \in Msg
      BY DEF Msg
    <3> QED
      BY <3>1
  <2> HIDE DEF q, k
  <2>3. h \in Connection /\ h.running = k.running
    BY <1>0, <2>2 DEF Connection, At
  <2> QED
    BY <1>0, <2>1, <2>3, ConnStep DEF Conn
<1>2. CASE HangUp(c)
  <2> DEFINE h == [k EXCEPT !.hung = TRUE]
  <2>1. conn' = [conn EXCEPT ![c] = h] /\ UNCHANGED <<kern, paused, runner>>
    BY <1>2 DEF HangUp, ConnTypes
  <2> HIDE DEF k
  <2>2. h \in Connection /\ h.running = k.running
    BY <1>0 DEF Connection
  <2> QED
    BY <1>0, <2>1, <2>2, ConnStep DEF Conn
<1>3. CASE Accept(c)
  <2> DEFINE h == [k EXCEPT !.at = "rpc"]
  <2>1. conn' = [conn EXCEPT ![c] = h] /\ UNCHANGED <<kern, paused, runner>>
    BY <1>3 DEF Accept, ConnTypes
  <2> HIDE DEF k
  <2>2. h \in Connection /\ h.running = k.running
    BY <1>0, Empties DEF Connection
  <2> QED
    BY <1>0, <2>1, <2>2, ConnStep DEF Conn
<1>4. CASE SessionTimeout(c)
  <2> DEFINE o == Append(k.out, <<"timeout", k.wait>>)
             h == [k EXCEPT !.at = "finish", !.out = o]
  <2>1. /\ conn' = [conn EXCEPT ![c] = h] /\ kern' = [kern EXCEPT !.waits = @ \ {c}]
        /\ UNCHANGED <<paused, runner>>
    BY <1>4 DEF SessionTimeout, ConnTypes
  <2>2. o \in Seq(Frame)
    <3>1. <<"timeout", k.wait>> \in Frame
      BY <1>0 DEF Frame, Connection
    <3>2. k.out \in Seq(Frame)
      BY <1>0 DEF Connection
    <3> QED
      BY <3>1, <3>2
  <2> HIDE DEF o, k
  <2>3. h \in Connection /\ h.running = k.running
    BY <1>0, <2>2, Empties DEF Connection
  <2>4. kern' \in KernelState
    BY <1>0, <2>1 DEF KernelState
  <2> QED
    BY <1>0, <2>1, <2>3, <2>4, ConnStep DEF Conn
<1>5. CASE Verdict(c)
  <2> DEFINE o == Append(k.events, "Done")
             h == [k EXCEPT !.events = o]
  <2>1. /\ conn' = [conn EXCEPT ![c] = h] /\ kern' = [kern EXCEPT !.waits = @ \ {c}]
        /\ UNCHANGED <<paused, runner>>
    BY <1>5 DEF Verdict, ConnTypes
  <2>2. o \in Seq(Event)
    <3>1. k.events \in Seq(Event) /\ "Done" \in Event
      BY <1>0 DEF Connection, Event
    <3> QED
      BY <3>1
  <2> HIDE DEF o, k
  <2>3. h \in Connection /\ h.running = k.running
    BY <1>0, <2>2 DEF Connection
  <2>4. kern' \in KernelState
    BY <1>0, <2>1 DEF KernelState
  <2> QED
    BY <1>0, <2>1, <2>3, <2>4, ConnStep DEF Conn
<1>6. ASSUME NEW kind \in {"call", "quit", "wait", "upgrade"}, AskFor(c, kind)
      PROVE  ConnTypes'
  <2> DEFINE q == Append(k.sock, <<kind, k.sent + 1>>)
             n == k.sent + 1
             h == [k EXCEPT !.sent = n, !.sock = q]
  <2>1. conn' = [conn EXCEPT ![c] = h] /\ UNCHANGED <<kern, paused, runner>>
    BY <1>6 DEF AskFor, ConnTypes
  <2>2. q \in Seq(Msg) /\ n \in Nat
    <3>1. k.sent \in Nat /\ k.sock \in Seq(Msg)
      BY <1>0 DEF Connection
    <3>2. <<kind, k.sent + 1>> \in Msg
      BY <3>1 DEF Msg
    <3> QED
      BY <3>1, <3>2
  <2> HIDE DEF q, n, k
  <2>3. h \in Connection /\ h.running = k.running
    BY <1>0, <2>2 DEF Connection
  <2> QED
    BY <1>0, <2>1, <2>3, ConnStep DEF Conn
<1> QED
  BY <1>1, <1>2, <1>3, <1>4, <1>5, <1>6

\* Reading keeps them,
LEMMA ReadTyped ==
  ASSUME ConnTypes, NEW c \in Client, Read(c)
  PROVE  ConnTypes'
<1> DEFINE k == conn[c]
<1>0. Conn(k) /\ k \in Connection /\ IsFiniteSet(k.running) /\ kern \in KernelState
      /\ k.buf \in Seq(Msg) /\ k.sock \in Seq(Msg)
  BY DEF ConnTypes, Conn, Connection
<1>1. CASE /\ k.buf # <<>>
           /\ LET taken == Taken([k EXCEPT !.buf = Tail(@)], c, Head(k.buf))
              IN conn' = [conn EXCEPT ![c] = taken.conn] /\ kern' = taken.kern
           /\ UNCHANGED <<paused, runner>>
  <2> DEFINE b == Tail(k.buf)
             h == [k EXCEPT !.buf = b]
             msg == Head(k.buf)
  <2>1. b \in Seq(Msg) /\ msg \in Msg
    BY <1>0, <1>1
  <2>2. conn' = [conn EXCEPT ![c] = Taken(h, c, msg).conn] /\ kern' = Taken(h, c, msg).kern
    BY <1>0, <1>1 DEF Connection
  <2> HIDE DEF b, msg, k
  <2>3. h \in Connection /\ h.running = k.running
    BY <1>0, <2>1 DEF Connection
  <2>4. Conn(h)
    BY <1>0, <2>3 DEF Conn
  <2> HIDE DEF h
  <2>5. Conn(Taken(h, c, msg).conn) /\ Taken(h, c, msg).kern \in KernelState
    BY <1>0, <2>1, <2>4, TakenTyped
  <2> QED
    BY <1>1, <2>2, <2>5, ConnStep
<1>2. ASSUME k.buf = <<>>, NEW n \in 1 .. Len(k.sock), UNCHANGED <<paused, runner>>,
             LET h == [k EXCEPT !.buf = SubSeq(k.sock, 2, n), !.sock = SubSeq(@, n + 1, Len(@))]
                 taken == Taken(h, c, Head(k.sock))
             IN conn' = [conn EXCEPT ![c] = taken.conn] /\ kern' = taken.kern
      PROVE  ConnTypes'
  <2> DEFINE b == SubSeq(k.sock, 2, n)
             s == SubSeq(k.sock, n + 1, Len(k.sock))
             h == [k EXCEPT !.buf = b, !.sock = s]
             msg == Head(k.sock)
  <2>1. b \in Seq(Msg) /\ s \in Seq(Msg) /\ msg \in Msg
    BY <1>0, <1>2
  <2>2. conn' = [conn EXCEPT ![c] = Taken(h, c, msg).conn] /\ kern' = Taken(h, c, msg).kern
    BY <1>0, <1>2 DEF Connection
  <2> HIDE DEF b, s, msg, k
  <2>3. h \in Connection /\ h.running = k.running
    BY <1>0, <2>1 DEF Connection
  <2>4. Conn(h)
    BY <1>0, <2>3 DEF Conn
  <2> HIDE DEF h
  <2>5. Conn(Taken(h, c, msg).conn) /\ Taken(h, c, msg).kern \in KernelState
    BY <1>0, <2>1, <2>4, TakenTyped
  <2> QED
    BY <1>2, <2>2, <2>5, ConnStep
<1>3. CASE UNCHANGED <<paused, kern, runner>> /\ conn' = [conn EXCEPT ![c].closing = TRUE]
  <2> DEFINE h == [k EXCEPT !.closing = TRUE]
  <2>1. conn' = [conn EXCEPT ![c] = h]
    BY <1>3 DEF ConnTypes
  <2> HIDE DEF k
  <2>2. h \in Connection /\ h.running = k.running
    BY <1>0 DEF Connection
  <2> QED
    BY <1>0, <1>3, <2>1, <2>2, ConnStep DEF Conn
<1> QED
  BY <1>1, <1>2, <1>3 DEF Read

\* so does writing and what ends a connection,
LEMMA WriteTyped ==
  ASSUME ConnTypes, NEW c \in Client,
         UpgradeFailed(c) \/ Flush(c) \/ Finish(c) \/ End(c)
  PROVE  ConnTypes'
<1> DEFINE k == conn[c]
<1>0. Conn(k) /\ k \in Connection /\ IsFiniteSet(k.running) /\ kern \in KernelState
      /\ k.out \in Seq(Frame) /\ k.got \in Seq(Frame)
  BY DEF ConnTypes, Conn, Connection
<1>1. CASE UpgradeFailed(c)
  <2> DEFINE o == Append(k.out, <<"error", k.upgrade>>)
             h == [k EXCEPT !.upgrade = 0, !.attempt = "none", !.out = o]
  <2>1. conn' = [conn EXCEPT ![c] = h] /\ UNCHANGED <<kern, paused, runner>>
    BY <1>1 DEF UpgradeFailed, ConnTypes
  <2>2. o \in Seq(Frame)
    <3>1. <<"error", k.upgrade>> \in Frame
      BY <1>0 DEF Frame, Connection
    <3> QED
      BY <1>0, <3>1
  <2> HIDE DEF o, k
  <2>3. h \in Connection /\ h.running = k.running
    BY <1>0, <2>2 DEF Connection
  <2> QED
    BY <1>0, <2>1, <2>3, ConnStep DEF Conn
<1>2. CASE conn' = [conn EXCEPT ![c] = Gone(@)] /\ UNCHANGED <<kern, paused, runner>>
  BY <1>0, <1>2, ConnKept, ConnStep DEF ConnTypes
<1>3. CASE Flush(c) /\ ~k.hung
  <2> DEFINE o == Tail(k.out)
             r == Append(k.got, Head(k.out))
             h == [k EXCEPT !.out = o, !.got = r]
  <2>1. conn' = [conn EXCEPT ![c] = h] /\ UNCHANGED <<kern, paused, runner>>
    BY <1>3 DEF Flush, ConnTypes
  <2>2. o \in Seq(Frame) /\ r \in Seq(Frame)
    BY <1>0, <1>3 DEF Flush
  <2> HIDE DEF o, r, k
  <2>3. h \in Connection /\ h.running = k.running
    BY <1>0, <2>2 DEF Connection
  <2> QED
    BY <1>0, <2>1, <2>3, ConnStep DEF Conn
<1>4. CASE Finish(c)
  <2> DEFINE h == [k EXCEPT !.at = "finish", !.frozen = FALSE]
  <2>1. conn' = [conn EXCEPT ![c] = h] /\ UNCHANGED <<kern, paused, runner>>
    BY <1>4 DEF Finish, ConnTypes
  <2> HIDE DEF k
  <2>2. h \in Connection /\ h.running = k.running
    BY <1>0, Empties DEF Connection
  <2> QED
    BY <1>0, <2>1, <2>2, ConnStep DEF Conn
<1>5. Flush(c) => (Flush(c) /\ ~k.hung)
                  \/ (conn' = [conn EXCEPT ![c] = Gone(@)] /\ UNCHANGED <<kern, paused, runner>>)
  BY DEF Flush
<1>6. End(c) => conn' = [conn EXCEPT ![c] = Gone(@)] /\ UNCHANGED <<kern, paused, runner>>
  BY DEF End
<1> QED
  BY <1>1, <1>2, <1>3, <1>4, <1>5, <1>6

\* a wait and its session,
LEMMA SessionTyped ==
  ASSUME ConnTypes, NEW c \in Client,
         Ask(c) \/ Begin(c) \/ SessionEvent(c) \/ SessionHungUp(c)
  PROVE  ConnTypes'
<1> DEFINE k == conn[c]
<1>0. Conn(k) /\ k \in Connection /\ IsFiniteSet(k.running) /\ kern \in KernelState
      /\ k.out \in Seq(Frame) /\ k.wait \in Nat /\ k.events \in Seq(Event)
  BY DEF ConnTypes, Conn, Connection
<1>1. CASE Ask(c)
  <2> DEFINE h == [k EXCEPT !.at = "asking"]
             e == <<"wait", c, k.wait>>
  <2>1. conn' = [conn EXCEPT ![c] = h] /\ kern' = Queue(kern, e) /\ UNCHANGED <<paused, runner>>
    BY <1>1 DEF Ask, ConnTypes
  <2>2. e \in KernelMsg
    BY <1>0 DEF KernelMsg
  <2> HIDE DEF e, k
  <2>3. Queue(kern, e) \in KernelState
    BY <1>0, <2>2, QueueTyped
  <2>4. h \in Connection /\ h.running = k.running
    BY <1>0 DEF Connection, At
  <2> QED
    BY <1>0, <2>1, <2>3, <2>4, ConnStep DEF Conn
<1>2. ASSUME NEW a \in At, NEW ev \in Seq(Event), NEW o \in Seq(Frame),
             conn' = [conn EXCEPT ![c].at = a, ![c].events = ev, ![c].out = o],
             UNCHANGED <<kern, paused, runner>>
      PROVE  ConnTypes'
  <2> DEFINE h == [k EXCEPT !.at = a, !.events = ev, !.out = o]
  <2>1. conn' = [conn EXCEPT ![c] = h]
    BY <1>2 DEF ConnTypes
  <2> HIDE DEF k
  <2>2. h \in Connection /\ h.running = k.running
    BY <1>0, <1>2 DEF Connection
  <2> QED
    BY <1>0, <1>2, <2>1, <2>2, ConnStep DEF Conn
<1>3. /\ <<"ok", k.wait>> \in Frame /\ <<"tasks", k.wait>> \in Frame
      /\ <<"error", k.wait>> \in Frame /\ <<"bye", 0>> \in Frame /\ <<"done", k.wait>> \in Frame
  BY <1>0 DEF Frame
<1>4. CASE Begin(c)
  <2> DEFINE asked == k.at = "asking"
             answer == IF asked THEN <<<<"ok", k.wait>>>> ELSE <<>>
             end == IF asked THEN <<"error", k.wait>> ELSE <<"bye", 0>>
             o == k.out \o answer \o <<<<"tasks", k.wait>>>>
             p == Append(k.out, end)
  <2>1. o \in Seq(Frame) /\ p \in Seq(Frame)
    <3>1. answer \in Seq(Frame) /\ end \in Frame /\ <<<<"tasks", k.wait>>>> \in Seq(Frame)
      BY <1>3
    <3> HIDE DEF answer, end
    <3> QED
      BY <1>0, <3>1
  <2>2. CASE k.events # <<>> /\ Head(k.events) = "Set"
    <3> DEFINE ev == Tail(k.events)
    <3>1. conn' = [conn EXCEPT ![c].at = "session", ![c].events = ev, ![c].out = o]
          /\ UNCHANGED <<kern, paused, runner>>
      BY <1>4, <2>2 DEF Begin, ConnTypes
    <3>2. ev \in Seq(Event) /\ "session" \in At
      BY <1>0, <2>2 DEF At
    <3> HIDE DEF ev, o
    <3> QED
      BY <1>2, <2>1, <3>1, <3>2
  <2>3. CASE ~(k.events # <<>> /\ Head(k.events) = "Set")
    <3>1. conn' = [conn EXCEPT ![c].at = "finish", ![c].events = <<>>, ![c].out = p]
          /\ UNCHANGED <<kern, paused, runner>>
      BY <1>4, <2>3 DEF Begin, ConnTypes
    <3> HIDE DEF p
    <3> QED
      BY <1>2, <2>1, <3>1, Empties
  <2> QED
    BY <2>2, <2>3
<1>5. CASE SessionEvent(c)
  <2> DEFINE o == IF k.events = <<>> THEN k.out ELSE Append(k.out, <<"done", k.wait>>)
  <2>1. conn' = [conn EXCEPT ![c].at = "finish", ![c].events = <<>>, ![c].out = o]
        /\ UNCHANGED <<kern, paused, runner>>
    BY <1>5 DEF SessionEvent, ConnTypes
  <2>2. o \in Seq(Frame)
    BY <1>0, <1>3
  <2> HIDE DEF o
  <2> QED
    BY <1>2, <2>1, <2>2, Empties
<1>6. CASE SessionHungUp(c)
  <2>1. conn' = [conn EXCEPT ![c] = Gone(k)] /\ kern' = [kern EXCEPT !.waits = @ \ {c}]
        /\ UNCHANGED <<paused, runner>>
    BY <1>6 DEF SessionHungUp, ConnTypes
  <2>2. kern' \in KernelState
    BY <1>0, <2>1 DEF KernelState
  <2> HIDE DEF k
  <2> QED
    BY <1>0, <2>1, <2>2, ConnKept, ConnStep
<1> QED
  BY <1>1, <1>4, <1>5, <1>6


\* and what it is told.
LEMMA CtlTyped ==
  ASSUME ConnTypes, NEW c \in Client, Obeying(conn[c]), TakeCtl(c) \/ Freeze(c)
  PROVE  ConnTypes'
<1> DEFINE k == conn[c]
           msg == Head(k.ctl)
           rest == Tail(k.ctl)
           h == [k EXCEPT !.ctl = rest]
<1>0. Conn(k) /\ k \in Connection /\ IsFiniteSet(k.running) /\ kern \in KernelState
      /\ k.ctl \in Seq(Ctl)
  BY DEF ConnTypes, Conn, Connection
<1>1. k.ctl # <<>> => msg \in Ctl /\ rest \in Seq(Ctl)
  BY <1>0
<1>2. k.ctl # <<>> => Conn(h) /\ h.at = k.at
  <2> HIDE DEF rest, k
  <2> SUFFICES ASSUME k.ctl # <<>> PROVE Conn(h) /\ h.at = k.at
    OBVIOUS
  <2>1. h \in Connection /\ h.running = k.running /\ h.at = k.at
    BY <1>0, <1>1 DEF Connection
  <2> QED
    BY <1>0, <2>1 DEF Conn
<1>3. msg \in Ctl => /\ msg[1] \in {"Freeze", "Thaw", "Close"}
                     /\ msg[1] = "Freeze" => msg[2] \in Nat \ {0}
  BY DEF Ctl
<1>4. CASE TakeCtl(c)
  <2>0. k.ctl # <<>> /\ UNCHANGED <<paused, kern, runner>>
    BY <1>4 DEF TakeCtl
  <2> DEFINE freezing == [k EXCEPT !.at = "freezing"]
             thawed == [h EXCEPT !.frozen = FALSE]
  <2>1. conn' = [conn EXCEPT ![c] =
          CASE msg[1] = "Freeze" /\ h.at = "rpc" -> freezing
            [] msg[1] = "Freeze" /\ h.at # "rpc" -> Frozen(h, msg[2])
            [] msg[1] = "Thaw" -> thawed
            [] msg[1] = "Close" -> Closed(h)]
    BY <1>4 DEF TakeCtl, ConnTypes
  <2>2. Conn(freezing)
    <3> HIDE DEF k
    <3>1. freezing \in Connection /\ freezing.running = k.running
      BY <1>0 DEF Connection, At
    <3> QED
      BY <1>0, <3>1 DEF Conn
  <2>3. Conn(h)
    BY <1>2, <2>0
  <2> HIDE DEF h, k
  <2>4. Conn(thawed)
    <3>1. thawed \in Connection /\ thawed.running = h.running
      BY <2>3 DEF Conn, Connection
    <3> QED
      BY <2>3, <3>1 DEF Conn
  <2>5. Conn(Closed(h)) /\ \A n \in Nat \ {0} : Conn(Frozen(h, n))
    BY <2>3, ConnKept
  <2> HIDE DEF freezing, thawed, msg
  <2>6. CASE msg[1] = "Freeze" /\ h.at = "rpc"
    <3>1. conn' = [conn EXCEPT ![c] = freezing]
      BY <2>1, <2>6
    <3> QED
      BY <2>0, <2>2, <3>1, <1>0, ConnStep
  <2>7. CASE msg[1] = "Freeze" /\ h.at # "rpc"
    <3>1. conn' = [conn EXCEPT ![c] = Frozen(h, msg[2])]
      BY <2>1, <2>7
    <3>2. Conn(Frozen(h, msg[2]))
      BY <2>0, <2>5, <2>7, <1>1, <1>3
    <3> QED
      BY <2>0, <3>1, <3>2, <1>0, ConnStep
  <2>8. CASE msg[1] = "Thaw"
    <3>1. conn' = [conn EXCEPT ![c] = thawed]
      BY <2>1, <2>8
    <3> QED
      BY <2>0, <2>4, <3>1, <1>0, ConnStep
  <2>9. CASE msg[1] = "Close"
    <3>1. conn' = [conn EXCEPT ![c] = Closed(h)]
      BY <2>1, <2>9
    <3> QED
      BY <2>0, <2>5, <3>1, <1>0, ConnStep
  <2> QED
    BY <2>0, <2>6, <2>7, <2>8, <2>9, <1>1, <1>3
<1>5. CASE Freeze(c)
  <2>0. k.ctl # <<>> /\ msg[1] = "Freeze" /\ UNCHANGED <<paused, kern, runner>>
    BY <1>5 DEF Freeze, Obeying
  <2> DEFINE f == [k EXCEPT !.at = "rpc", !.ctl = rest]
  <2>1. conn' = [conn EXCEPT ![c] = Frozen(f, msg[2])]
    BY <1>5 DEF Freeze, ConnTypes
  <2>2. Conn(f)
    <3>1. rest \in Seq(Ctl)
      BY <2>0, <1>1
    <3> HIDE DEF k, rest
    <3>2. f \in Connection /\ f.running = k.running
      BY <1>0, <3>1, Empties DEF Connection
    <3> QED
      BY <1>0, <3>2 DEF Conn
  <2> HIDE DEF f, k, msg
  <2>3. Conn(Frozen(f, msg[2]))
    BY <2>0, <2>2, <1>1, <1>3, ConnKept
  <2> QED
    BY <2>0, <2>1, <2>3, <1>0, ConnStep
<1> QED
  BY <1>4, <1>5

\* Every step of a connection's loop keeps the types.
LEMMA ServeTyped ==
  ASSUME ConnTypes, NEW c \in Client, Obeying(conn[c]), Serve(c)
  PROVE  ConnTypes'
BY ReadTyped, WriteTyped, SessionTyped, CtlTyped DEF Serve

\* The end of the runner does.
LEMMA EndTyped ==
  ASSUME ConnTypes, KernelEnds \/ ProcessEnds
  PROVE  ConnTypes'
<1>1. CASE KernelEnds
  <2>1. PICK those \in SUBSET kern.waits :
          conn' = [c \in Client |->
            [Replied(conn[c], conn[c].running) EXCEPT
               !.events = IF c \in those THEN Append(@, "Done") ELSE @,
               !.ctl = IF Registered(c) THEN Append(@, <<"Close">>) ELSE @]]
    BY <1>1 DEF KernelEnds
  <2>2. ASSUME NEW c \in Client PROVE Conn(conn'[c])
    <3> DEFINE k == Replied(conn[c], conn[c].running)
               ev == IF c \in those THEN Append(k.events, "Done") ELSE k.events
               ctl == IF Registered(c) THEN Append(k.ctl, <<"Close">>) ELSE k.ctl
               h == [k EXCEPT !.events = ev, !.ctl = ctl]
    <3>1. Conn(k)
      <4>1. Conn(conn[c]) /\ conn[c].running \in SUBSET Nat
        BY DEF ConnTypes, Conn, Connection
      <4> QED
        BY <4>1, ConnKept
    <3> HIDE DEF k
    <3>2. conn'[c] = h
      BY <2>1, <3>1 DEF k, Conn, Connection
    <3>3. ev \in Seq(Event) /\ ctl \in Seq(Ctl)
      <4>1. k.events \in Seq(Event) /\ k.ctl \in Seq(Ctl) /\ "Done" \in Event /\ <<"Close">> \in Ctl
        BY <3>1 DEF Conn, Connection, Event, Ctl
      <4> QED
        BY <4>1
    <3> HIDE DEF ev, ctl
    <3>4. h \in Connection /\ h.running = k.running
      BY <3>1, <3>3 DEF Conn, Connection
    <3> QED
      BY <3>1, <3>2, <3>4 DEF Conn
  <2>3. conn' \in [Client -> Connection]
    BY <2>1, <2>2 DEF Conn
  <2>4. kern' \in KernelState /\ runner' = "closing" /\ paused' = paused
    <3>1. <<>> \in Seq(KernelMsg)
      OBVIOUS
    <3> QED
      BY <1>1, <3>1 DEF KernelEnds, ConnTypes, KernelState
  <2> QED
    BY <2>2, <2>3, <2>4 DEF ConnTypes
<1>2. CASE ProcessEnds
  <2>1. Conn(Away)
    <3>1. Away \in Connection /\ Away.running = {}
      BY Empties DEF Away, Connection, At
    <3> QED
      BY <3>1, Empties DEF Conn
  <2>2. \A c \in Client : conn'[c] = Away \/ conn'[c] = Gone(conn[c])
    BY <1>2 DEF ProcessEnds
  <2>3. \A c \in Client : Conn(conn'[c])
    BY <2>1, <2>2, ConnKept DEF ConnTypes
  <2>4. conn' \in [Client -> Connection]
    BY <1>2, <2>3 DEF ProcessEnds, Conn
  <2>5. runner' \in {"cut", "ended"} /\ paused' = paused /\ kern' = kern
    BY <1>2 DEF ProcessEnds
  <2> QED
    BY <2>3, <2>4, <2>5 DEF ConnTypes
<1> QED
  BY <1>1, <1>2

\* The kernel's turns do,
LEMMA KernelTyped ==
  ASSUME ConnTypes, KernelTurn
  PROVE  ConnTypes'
<1> DEFINE msg == Head(kern.queue)
           q == Tail(kern.queue)
           k == [kern EXCEPT !.queue = q]
<1>0. kern \in KernelState /\ kern.queue # <<>> /\ UNCHANGED <<paused, runner>>
  BY DEF ConnTypes, KernelTurn
<1>1. q \in Seq(KernelMsg) /\ msg \in KernelMsg
  BY <1>0 DEF KernelState
<1>2. /\ k \in KernelState
      /\ msg[1] \in {"call", "quit", "wait"} => msg[2] \in Client /\ msg[3] \in Nat
      /\ msg[1] = "Freeze" => msg[2] \in Nat
  <2> HIDE DEF q, msg
  <2>1. k \in KernelState
    BY <1>0, <1>1 DEF KernelState
  <2>2. /\ msg[1] \in {"call", "quit", "wait"} => msg[2] \in Client /\ msg[3] \in Nat
        /\ msg[1] = "Freeze" => msg[2] \in Nat
    BY <1>1 DEF KernelMsg
  <2> QED
    BY <2>1, <2>2
<1>3. \/ /\ msg[1] \in {"call", "quit"}
         /\ kern' = [k EXCEPT !.quitting = @ \/ msg[1] = "quit"]
         /\ conn' = [conn EXCEPT ![msg[2]] = Replied(@, {msg[3]})]
      \/ /\ msg[1] = "wait"
         /\ \/ /\ kern' = [k EXCEPT !.waits = @ \cup {msg[2]}]
               /\ conn' = [conn EXCEPT ![msg[2]].events = Append(@, "Set")]
            \/ /\ kern' = k
               /\ conn' = [conn EXCEPT ![msg[2]].events = Append(@, "Nothing")]
      \/ /\ msg[1] = "Freeze" /\ kern' \in {k, [k EXCEPT !.freeze = msg[2]]} /\ conn' = conn
      \/ /\ msg[1] = "Thaw" /\ kern' = [k EXCEPT !.freeze = 0] /\ conn' = conn
  BY DEF KernelTurn
<1> HIDE DEF k, msg
<1>4. kern' \in KernelState
  <2>1. ASSUME kern' = [k EXCEPT !.quitting = @ \/ msg[1] = "quit"]
        PROVE  kern' \in KernelState
    <3> DEFINE quits == k.quitting \/ msg[1] = "quit"
    <3>1. kern' = [k EXCEPT !.quitting = quits]
      BY <1>2, <2>1 DEF KernelState
    <3>2. quits \in BOOLEAN
      BY <1>2 DEF KernelState
    <3> HIDE DEF quits
    <3> QED
      BY <1>2, <3>1, <3>2 DEF KernelState
  <2>2. ASSUME msg[2] \in Client, kern' = [k EXCEPT !.waits = @ \cup {msg[2]}]
        PROVE  kern' \in KernelState
    BY <1>2, <2>2 DEF KernelState
  <2>3. ASSUME NEW n \in Nat, kern' = [k EXCEPT !.freeze = n]
        PROVE  kern' \in KernelState
    BY <1>2, <2>3 DEF KernelState
  <2> QED
    BY <1>2, <1>3, <2>1, <2>2, <2>3
<1>5. ASSUME NEW c \in Client, NEW n \in Nat, conn' = [conn EXCEPT ![c] = Replied(@, {n})]
      PROVE  conn' \in [Client -> Connection] /\ \A d \in Client : Conn(conn'[d])
  <2>1. Conn(conn[c]) /\ {n} \in SUBSET Nat
    BY DEF ConnTypes
  <2>2. Conn(Replied(conn[c], {n}))
    BY <2>1, ConnKept
  <2>3. conn' = [conn EXCEPT ![c] = Replied(conn[c], {n})]
    BY <1>5 DEF ConnTypes
  <2> QED
    BY <2>2, <2>3 DEF ConnTypes, Conn
<1>6. ASSUME NEW c \in Client, NEW event \in Event,
             conn' = [conn EXCEPT ![c].events = Append(@, event)]
      PROVE  conn' \in [Client -> Connection] /\ \A d \in Client : Conn(conn'[d])
  <2> DEFINE ev == Append(conn[c].events, event)
             h == [conn[c] EXCEPT !.events = ev]
  <2>1. Conn(conn[c]) /\ conn[c] \in Connection /\ conn[c].events \in Seq(Event)
    BY DEF ConnTypes, Conn, Connection
  <2>2. ev \in Seq(Event)
    BY <2>1
  <2>3. conn' = [conn EXCEPT ![c] = h]
    BY <1>6 DEF ConnTypes
  <2> HIDE DEF ev
  <2>4. h \in Connection /\ h.running = conn[c].running
    BY <2>1, <2>2 DEF Connection
  <2>5. Conn(h)
    BY <2>1, <2>4 DEF Conn
  <2> QED
    BY <2>3, <2>5 DEF ConnTypes, Conn
<1>7. conn' \in [Client -> Connection] /\ \A d \in Client : Conn(conn'[d])
  <2>1. CASE msg[1] \in {"call", "quit"} /\ conn' = [conn EXCEPT ![msg[2]] = Replied(@, {msg[3]})]
    BY <1>2, <1>5, <2>1
  <2>2. CASE msg[1] = "wait" /\ \E event \in {"Set", "Nothing"} :
               conn' = [conn EXCEPT ![msg[2]].events = Append(@, event)]
    BY <1>2, <1>6, <2>2 DEF Event
  <2>3. CASE conn' = conn
    BY <2>3 DEF ConnTypes
  <2> QED
    BY <1>3, <2>1, <2>2, <2>3
<1> QED
  BY <1>0, <1>4, <1>7 DEF ConnTypes

\* A connection that an upgrade has written to is a connection yet.
LEMMA AttemptTells ==
  ASSUME NEW k \in Connection, NEW ctl \in Seq(Ctl),
         NEW at \in {"none", "spawned", "running", "failed"}
  PROVE  /\ [k EXCEPT !.ctl = ctl, !.attempt = at] \in Connection
         /\ [k EXCEPT !.ctl = ctl, !.attempt = at].running = k.running
<1>1. [k EXCEPT !.ctl = ctl, !.attempt = at] \in Connection
  BY DEF Connection
<1> QED
  BY <1>1 DEF Connection

\* and the upgrade's.
LEMMA AttemptTyped ==
  ASSUME Types,
         \/ \E c \in Client : StartFor(c) \/ RefuseUpgrade(c)
         \/ Start(Other) \/ FreezeKernel \/ Fail
  PROVE  Types'
<1>0. up \in Attempt /\ kern \in KernelState /\ conn \in [Client -> Connection]
      /\ \A c \in Client : Conn(conn[c]) /\ conn[c] \in Connection /\ conn[c].ctl \in Seq(Ctl)
                           /\ IsFiniteSet(conn[c].running)
  BY DEF Types, Conn, Connection
<1>1. ASSUME NEW by \in Client \cup {Other}, Start(by) PROVE Types'
  <2>1. ASSUME NEW c \in Client PROVE Conn(conn'[c])
    <3> DEFINE ctl == IF Registered(c) THEN Append(conn[c].ctl, <<"Freeze", up.n + 1>>)
                      ELSE conn[c].ctl
               at == IF c = by THEN "running" ELSE conn[c].attempt
               h == [conn[c] EXCEPT !.ctl = ctl, !.attempt = at]
    <3>1. conn'[c] = h
      BY <1>0, <1>1 DEF Start, Connection
    <3>2. ctl \in Seq(Ctl) /\ at \in {"none", "spawned", "running", "failed"}
      <4>1. <<"Freeze", up.n + 1>> \in Ctl
        BY <1>0 DEF Attempt, Ctl
      <4> QED
        BY <1>0, <4>1 DEF Connection
    <3> HIDE DEF ctl, at
    <3>3. conn[c] \in Connection
      BY <1>0
    <3>4. h \in Connection /\ h.running = conn[c].running
      BY <3>2, <3>3, AttemptTells
    <3> QED
      BY <1>0, <3>1, <3>4 DEF Conn
  <2>2. conn' \in [Client -> Connection]
    BY <1>1, <2>1 DEF Start, Conn
  <2>3. up' \in Attempt
    <3> DEFINE asked == {c \in Client : Registered(c)}
               n == up.n + 1
    <3>1. up' = [up EXCEPT !.stage = "freezing", !.by = by, !.n = n, !.asked = asked]
      BY <1>0, <1>1 DEF Start, Attempt
    <3>2. n \in Nat /\ asked \in SUBSET Client
      BY <1>0 DEF Attempt
    <3> HIDE DEF n, asked
    <3> QED
      BY <1>0, <3>1, <3>2 DEF Attempt
  <2>4. paused' = TRUE /\ UNCHANGED <<kern, runner, here>>
    BY <1>1 DEF Start
  <2> QED
    BY <2>1, <2>2, <2>3, <2>4 DEF Types
<1>2. ASSUME NEW c \in Client, RefuseUpgrade(c) PROVE Types'
  <2> DEFINE h == [conn[c] EXCEPT !.attempt = "failed"]
  <2>1. conn' = [conn EXCEPT ![c] = h] /\ UNCHANGED <<paused, kern, runner, here, up>>
    BY <1>0, <1>2 DEF RefuseUpgrade
  <2>0. conn[c] \in Connection
    BY <1>0
  <2>2. h \in Connection /\ h.running = conn[c].running
    BY <2>0 DEF Connection
  <2>3. Conn(h)
    BY <1>0, <2>2 DEF Conn
  <2> QED
    BY <2>1, <2>3, ConnAt DEF Types
<1>3. CASE FreezeKernel
  <2>1. <<"Freeze", up.n>> \in KernelMsg
    BY <1>0 DEF KernelMsg, Attempt
  <2>2. kern' \in KernelState
    BY <1>0, <1>3, <2>1, QueueTyped DEF FreezeKernel
  <2>3. up' \in Attempt /\ UNCHANGED <<conn, paused, runner, here>>
    BY <1>0, <1>3 DEF FreezeKernel, Attempt
  <2> QED
    BY <2>2, <2>3 DEF Types
<1>4. CASE Fail
  <2>1. ASSUME NEW c \in Client PROVE Conn(conn'[c])
    <3> DEFINE ctl == IF c \in ToThaw THEN Append(conn[c].ctl, <<"Thaw">>) ELSE conn[c].ctl
               at == IF c = up.by THEN "failed" ELSE conn[c].attempt
               h == [conn[c] EXCEPT !.ctl = ctl, !.attempt = at, !.reply = NoReply]
    <3>1. conn'[c] = h
      BY <1>0, <1>4 DEF Fail, Connection
    <3>2. ctl \in Seq(Ctl) /\ at \in {"none", "spawned", "running", "failed"}
      <4>1. <<"Thaw">> \in Ctl
        BY DEF Ctl
      <4> QED
        BY <1>0, <4>1 DEF Connection
    <3> HIDE DEF ctl, at
    <3>3. conn[c] \in Connection
      BY <1>0
    <3>4. NoReply \in Answer
      BY DEF Answer
    <3>5. h \in Connection /\ h.running = conn[c].running
      BY <3>2, <3>3, <3>4 DEF Connection
    <3> QED
      BY <1>0, <3>1, <3>5 DEF Conn
  <2>2. conn' \in [Client -> Connection]
    BY <1>4, <2>1 DEF Fail, Conn
  <2>3. up' \in Attempt
    BY <1>0, <1>4 DEF Fail, Attempt, NoUpgrade
  <2>4. kern' \in KernelState
    <3>1. <<"Thaw">> \in KernelMsg
      BY DEF KernelMsg
    <3> QED
      BY <1>0, <1>4, <3>1, QueueTyped DEF Fail
  <2>5. paused' = FALSE /\ UNCHANGED <<runner, here>>
    BY <1>4 DEF Fail
  <2> QED
    BY <2>1, <2>2, <2>3, <2>4, <2>5 DEF Types
<1> QED
  BY <1>1, <1>2, <1>3, <1>4 DEF StartFor

\* Which of the snapshot's connections a new image has: what it resumes them to,
LEMMA ResumedTyped ==
  ASSUME Types, NEW c \in Carried, up.n > 0
  PROVE  /\ c \in Client /\ conn[c].reply.what \in Handed
         /\ Conn(Resumed(c)) /\ Resumed(c).ctl = <<>> /\ Resumed(c).reply = NoReply
         /\ Resumed(c).at \in {"resuming", "rpc"}
<1> DEFINE s == conn[c].reply.what
           a == IF s.kind = "Wait" THEN "resuming" ELSE "rpc"
           o == IF s.upgrade # 0 THEN Append(s.out, <<"upgraded", s.upgrade>>) ELSE s.out
<1>1. c \in Client /\ conn[c].reply.of = up.n
  BY DEF Carried, HasReplied, Types, Attempt
<1>2. conn[c] \in Connection
  BY <1>1 DEF Types
<1>3. conn[c].reply \in [of : Nat \ {0}, what : Handed]
  BY <1>1, <1>2 DEF Connection, Answer, NoReply
<1>4. s \in Handed
  BY <1>3
<1>5. a \in {"resuming", "rpc"}
  OBVIOUS
<1>6. o \in Seq(Frame)
  <2>1. s.out \in Seq(Frame) /\ <<"upgraded", s.upgrade>> \in Frame
    BY <1>4 DEF Handed, Frame
  <2> QED
    BY <2>1
<1>7. /\ s.hello \in BOOLEAN /\ s.buf \in Seq(Msg) /\ s.wait \in Nat
      /\ conn[c].sock \in Seq(Msg) /\ conn[c].hung \in BOOLEAN /\ conn[c].sent \in Nat
      /\ conn[c].got \in Seq(Frame) /\ conn[c].dropped \in Nat
  BY <1>2, <1>4 DEF Handed, Connection
<1>8. Resumed(c) = [Away EXCEPT !.at = a, !.hello = s.hello, !.sock = conn[c].sock, !.buf = s.buf,
                       !.out = o, !.wait = s.wait, !.hung = conn[c].hung,
                       !.sent = conn[c].sent, !.got = conn[c].got, !.dropped = conn[c].dropped]
  BY DEF Resumed
<1>9. Away \in Connection
  BY Empties DEF Away, Connection, At
<1> HIDE DEF a, o, s
<1>10. Resumed(c) \in Connection
  <2> DEFINE k == [Away EXCEPT !.at = a, !.hello = s.hello, !.sock = conn[c].sock,
                               !.buf = s.buf, !.out = o]
             h == [k EXCEPT !.wait = s.wait, !.hung = conn[c].hung, !.sent = conn[c].sent,
                            !.got = conn[c].got, !.dropped = conn[c].dropped]
  <2>1. k \in Connection
    <3>1. a \in At
      BY <1>5 DEF At
    <3> QED
      BY <3>1, <1>6, <1>7, <1>9 DEF Connection
  <2>2. Resumed(c) = h
    BY <1>8
  <2> HIDE DEF k
  <2>3. h \in Connection
    BY <1>7, <2>1 DEF Connection
  <2> QED
    BY <2>2, <2>3
<1>11. /\ Resumed(c).running = {} /\ Resumed(c).ctl = <<>> /\ Resumed(c).reply = NoReply
       /\ Resumed(c).at = a
  BY <1>8 DEF Away
<1> QED
  BY <1>1, <1>4, <1>5, <1>10, <1>11, Empties DEF Conn, s

\* and which waits it begins anew.
LEMMA WaitsAnew ==
  ASSUME Types, up.n > 0
  PROVE  SetToMsgs({c \in Carried : conn[c].reply.what.kind = "Wait"})
           \in Seq({"wait"} \X Client \X Nat)
<1> DEFINE S == {c \in Carried : conn[c].reply.what.kind = "Wait"}
           M == {<<"wait", c, conn[c].reply.what.wait>> : c \in S}
           f == [c \in S |-> <<"wait", c, conn[c].reply.what.wait>>]
<1>1. \A c \in S : c \in Client /\ conn[c].reply.what.wait \in Nat
  BY ResumedTyped DEF Handed
<1>2. S \in SUBSET Client
  BY <1>1
<1>3. IsFiniteSet(S)
  BY <1>2, ConnectionsAssumption, FS_Subset
<1>4. M \in SUBSET ({"wait"} \X Client \X Nat)
  BY <1>1
<1>5. IsFiniteSet(M)
  <2>1. f \in Surjection(S, M)
    BY DEF Surjection
  <2> HIDE DEF S, M, f
  <2> QED
    BY <1>3, <2>1, FS_Surjection
<1>6. SetToMsgs(S) = SetToSeq(M)
  BY DEF SetToMsgs
<1> HIDE DEF S, M
<1>7. SetToSeq(M) \in Seq({"wait"} \X Client \X Nat)
  BY <1>4, <1>5, SeqOfSet
<1> QED
  BY <1>6, <1>7 DEF S

\* An upgrade that gets that far keeps the types.
LEMMA ExecTyped ==
  ASSUME Types, up.n > 0, Exec \/ ResumeFails
  PROVE  Types'
<1>0. up \in Attempt /\ kern \in KernelState /\ conn \in [Client -> Connection]
      /\ \A c \in Client : Conn(conn[c])
  BY DEF Types
<1>1. up' \in Attempt /\ here' = here
  <2>1. up' = NoUpgrade(up.n, up.images + 1) /\ here' = here
    BY DEF Exec, ResumeFails
  <2> QED
    BY <1>0, <2>1 DEF NoUpgrade, Attempt
<1>2. CASE Exec
  <2>1. ASSUME NEW c \in Client PROVE Conn(conn'[c])
    <3>1. conn'[c] = AfterExec(c)
      BY <1>2 DEF Exec
    <3>2. \/ AfterExec(c) = Resumed(c) /\ c \in Carried
          \/ AfterExec(c) \in {Gone(conn[c]), conn[c]}
      BY DEF AfterExec
    <3> QED
      BY <1>0, <3>1, <3>2, ResumedTyped, ConnKept
  <2>2. conn' \in [Client -> Connection]
    BY <1>2, <2>1 DEF Exec, Conn
  <2>3. kern' \in KernelState
    <3> DEFINE q == SetToMsgs({c \in Carried : conn[c].reply.what.kind = "Wait"})
    <3>1. kern' = [Fresh EXCEPT !.queue = q]
      BY <1>2 DEF Exec
    <3>2. q \in Seq({"wait"} \X Client \X Nat)
      BY WaitsAnew
    <3> HIDE DEF q
    <3>3. q \in Seq(KernelMsg)
      BY <3>2 DEF KernelMsg
    <3> QED
      BY <3>1, <3>3 DEF Fresh, KernelState
  <2> QED
    BY <1>1, <1>2, <2>1, <2>2, <2>3 DEF Exec, Types
<1>3. CASE ResumeFails
  <2>1. Conn(Away)
    <3>1. Away \in Connection /\ Away.running = {}
      BY Empties DEF Away, Connection, At
    <3> QED
      BY <3>1, Empties DEF Conn
  <2>2. \A c \in Client : conn'[c] = Away \/ conn'[c] = Gone(conn[c])
    BY <1>3 DEF ResumeFails
  <2>3. \A c \in Client : Conn(conn'[c])
    BY <1>0, <2>1, <2>2, ConnKept
  <2>4. conn' \in [Client -> Connection]
    BY <1>3, <2>3 DEF ResumeFails, Conn
  <2> QED
    BY <1>1, <1>3, <2>3, <2>4 DEF ResumeFails, Types
<1> QED
  BY <1>2, <1>3

-----------------------------------------------------------------------------
(* The children are kept apart *)

ChildState == ChildTypes /\ Children

\* A process's number is given out while it may be alive, or dead and not reaped: what
\* holds of it does not depend on which.
LEMMA ProcsOnly ==
  ASSUME ChildState, procs' \in [Pid -> Process], UNCHANGED <<reaper, task, heard>>,
         \A p \in Pid : procs'[p].run = procs[p].run /\ (procs'[p].st = "free" <=> procs[p].st = "free")
  PROVE  ChildState'
<1>1. ChildTypes'
  BY DEF ChildState, ChildTypes
<1>2. \A p \in Pid : Occupied(p)' <=> Occupied(p)
  BY DEF Occupied
<1>3. \A p \in Pid : Unclaimed(p)' <=> Unclaimed(p)
  BY DEF Unclaimed
<1>4. OnePlace'
  BY <1>2, <1>3 DEF ChildState, Children, OnePlace, Started
<1>5. Listening' /\ OwnExit'
  BY <1>2 DEF ChildState, Children, Listening, OwnExit, Started
<1>6. \A p \in Pid : \A mark, n : Ahead(p, mark, n)' <=> Ahead(p, mark, n)
  BY <1>2 DEF Ahead
<1>7. Spawning' /\ Apart' /\ Known'
  <2>1. \A t \in Task : task[t].pid # 0 => task[t].pid \in Pid
    BY DEF ChildState, ChildTypes, Handler
  <2>2. \A t \in Task : task[t].child # 0 => task[t].child \in Pid
    BY DEF ChildState, ChildTypes, Handler
  <2>3. Spawning'
    BY <1>6, <2>1 DEF ChildState, Children, Spawning, SpawningAt, Spawned
  <2>4. Known'
    BY <1>6, <2>2 DEF ChildState, Children, Known, KnownAt
  <2> QED
    BY <2>3, <2>4 DEF ChildState, Children, Apart, HoldsPid, ChildAt
<1> QED
  BY <1>1, <1>4, <1>5, <1>7 DEF ChildState, Children

\* A handler that is not starting anything may forget its child when it knows the exit, and
\* otherwise keeps it, with an exit that was handed over.
LEMMA TaskOnly ==
  ASSUME ChildState, NEW t \in Task, NEW k \in Handler, task' = [task EXCEPT ![t] = k],
         UNCHANGED <<procs, reaper, heard>>,
         task[t].step = "idle", task[t].adopt => task[t].exited,
         k.step = "idle", ~k.adopt, k.pid = task[t].pid,
         k.child # 0 /\ ~k.exited =>
           /\ k.child = task[t].child /\ ~task[t].exited /\ k.run = task[t].run
           /\ task[t].exits # <<>> => k.exits # <<>>
  PROVE  ChildState'
<1>1. ChildTypes'
  BY DEF ChildState, ChildTypes
<1>2. OnePlace' /\ Listening' /\ OwnExit'
  BY DEF ChildState, Children, OnePlace, Listening, OwnExit, Started, Occupied, Unclaimed
<1>3. /\ task[t].pid = 0 /\ task \in [Task -> Handler]
      /\ \A u \in Task : u # t => task'[u] = task[u]
      /\ task'[t] = k
  BY DEF ChildState, ChildTypes, Children, Spawning, SpawningAt
<1>4. \A p, mark, n : Ahead(p, mark, n)' <=> Ahead(p, mark, n)
  BY DEF Ahead, Occupied
<1>5. Spawning'
  BY <1>3, <1>4 DEF ChildState, Children, Spawning, SpawningAt, Spawned
<1>6. \A u \in Task, p \in Pid : (ChildAt(u, p)' => ChildAt(u, p)) /\ (HoldsPid(u, p)' => HoldsPid(u, p))
  <2>1. 0 \notin Pid
    BY ReaperAssumption
  <2> QED
    BY <1>3, <2>1 DEF ChildAt, HoldsPid
<1>7. Apart'
  BY <1>3, <1>6 DEF ChildState, Children, Apart
<1>8. Known'
  BY <1>3, <1>4 DEF ChildState, Children, Known, KnownAt
<1> QED
  BY <1>1, <1>2, <1>5, <1>7, <1>8 DEF ChildState, Children

\* The system ends a process; a kill reaches only one that has its number.
LEMMA ExitKept ==
  ASSUME ChildState, NEW p \in Pid, Exit(p)
  PROVE  ChildState' /\ \A q \in Pid : procs[q].st = "free" => procs'[q].st # "zombie"
<1>1. procs' \in [Pid -> Process]
  BY DEF Exit, ChildState, ChildTypes, Process
<1>2. /\ \A q \in Pid : procs'[q].run = procs[q].run /\ (procs'[q].st = "free" <=> procs[q].st = "free")
      /\ \A q \in Pid : procs[q].st = "free" => procs'[q].st # "zombie"
  BY DEF Exit, ChildState, ChildTypes, Process
<1> QED
  BY <1>1, <1>2, ProcsOnly DEF Exit

\* So does a handler, by its child's number.
LEMMA KillKept ==
  ASSUME ChildState, NEW t \in Task, Kill(t)
  PROVE  ChildState' /\ \A q \in Pid : procs[q].st = "free" => procs'[q].st # "zombie"
<1>1. /\ UNCHANGED <<reaper, task, heard>> /\ procs \in [Pid -> Process]
      /\ task[t].child # 0
  BY DEF Kill, ChildState, ChildTypes
<1>2. \A q \in KillTarget(t) : q = task[t].child /\ reaper.listeners[q] # 0
  BY DEF KillTarget
<1>3. \A q \in KillTarget(t) : q \in Pid /\ Occupied(q)
  <2>1. /\ task[t].child \in Pid \cup {0}
        /\ \A q \in Pid : reaper.listeners[q] # 0 => Occupied(q)
    BY DEF ChildState, ChildTypes, Handler, Children, Listening
  <2> QED
    BY <1>1, <1>2, <2>1
<1>4. \A q \in Pid : procs'[q] = IF q \in KillTarget(t) THEN [procs[q] EXCEPT !.st = "zombie"]
                                 ELSE procs[q]
  BY DEF Kill
<1>5. procs' \in [Pid -> Process]
  <2>1. \A q \in Pid : procs'[q] \in Process
    BY <1>1, <1>4 DEF Process
  <2> QED
    BY <2>1 DEF Kill
<1>6. /\ \A q \in Pid : procs'[q].run = procs[q].run /\ (procs'[q].st = "free" <=> procs[q].st = "free")
      /\ \A q \in Pid : procs[q].st = "free" => procs'[q].st # "zombie"
  BY <1>1, <1>3, <1>4 DEF Process, Occupied
<1> QED
  BY <1>1, <1>5, <1>6, ProcsOnly

\* What a handler does by itself.
LEMMA HandlerKept ==
  ASSUME ChildState, NEW t \in Task,
         Forget(t) \/ TakeExit(t) \/ OutputEnds(t) \/ FreezeTask(t) \/ ThawTask(t)
  PROVE  ChildState'
<1>0. /\ Acts(t) /\ UNCHANGED <<procs, reaper, heard>>
      /\ task \in [Task -> Handler] /\ task[t] \in Handler
      /\ task[t].step = "idle" /\ ~task[t].adopt
      /\ task[t].exits \in Seq(Nat) /\ task[t].cmds \in Seq({"Freeze", "Thaw"})
  BY DEF Forget, TakeExit, OutputEnds, FreezeTask, ThawTask, Acts, ChildState, ChildTypes, Handler
<1> DEFINE k == task[t]
<1>1. CASE Forget(t)
  <2> DEFINE h == [k EXCEPT !.command = 0]
  <2>1. task' = [task EXCEPT ![t] = h]
    BY <1>0, <1>1 DEF Forget
  <2>2. h \in Handler
    BY <1>0 DEF Handler
  <2> QED
    BY <1>0, <2>1, <2>2, TaskOnly DEF Handler
<1>2. CASE TakeExit(t)
  <2> DEFINE e == Tail(k.exits)
             h == [k EXCEPT !.exits = e, !.exited = TRUE]
  <2>1. task' = [task EXCEPT ![t] = h]
    BY <1>0, <1>2 DEF TakeExit
  <2>2. e \in Seq(Nat)
    BY <1>0, <1>2 DEF TakeExit
  <2> HIDE DEF e
  <2>3. h \in Handler
    BY <1>0, <2>2 DEF Handler
  <2> QED
    BY <1>0, <2>1, <2>3, TaskOnly DEF Handler
<1>3. CASE OutputEnds(t)
  <2> DEFINE h == [k EXCEPT !.child = 0, !.run = 0, !.exited = FALSE]
  <2>1. task' = [task EXCEPT ![t] = h]
    BY <1>0, <1>3 DEF OutputEnds
  <2>2. h \in Handler
    BY <1>0 DEF Handler
  <2> QED
    BY <1>0, <2>1, <2>2, TaskOnly DEF Handler
<1>4. CASE FreezeTask(t)
  <2> DEFINE c == Tail(k.cmds)
             x == k.exited \/ k.exits # <<>>
             h == [k EXCEPT !.cmds = c, !.frozen = TRUE, !.command = 0, !.exited = x, !.exits = <<>>]
  <2>1. task' = [task EXCEPT ![t] = h]
    <3>1. FrozenTask(k) = h
      BY <1>0 DEF FrozenTask, Handler
    <3> QED
      BY <1>0, <1>4, <3>1 DEF FreezeTask
  <2>2. c \in Seq({"Freeze", "Thaw"}) /\ x \in BOOLEAN /\ <<>> \in Seq(Nat)
    <3>1. k.exited \in BOOLEAN
      BY <1>0 DEF Handler
    <3> QED
      BY <1>0, <1>4, <3>1 DEF FreezeTask
  <2>3. ~x => ~k.exited /\ k.exits = <<>>
    OBVIOUS
  <2> HIDE DEF c, x
  <2>4. h \in Handler
    BY <1>0, <2>2 DEF Handler
  <2>5. /\ h.step = "idle" /\ ~h.adopt /\ h.pid = k.pid /\ h.child = k.child /\ h.run = k.run
        /\ h.exited = x
    BY <1>0 DEF Handler
  <2> HIDE DEF h
  <2> QED
    BY <1>0, <2>1, <2>3, <2>4, <2>5, TaskOnly
<1>5. CASE ThawTask(t)
  <2> DEFINE c == Tail(k.cmds)
             h == [k EXCEPT !.cmds = c, !.frozen = FALSE]
  <2>1. task' = [task EXCEPT ![t] = h]
    BY <1>0, <1>5 DEF ThawTask
  <2>2. c \in Seq({"Freeze", "Thaw"})
    BY <1>0, <1>5 DEF ThawTask
  <2> HIDE DEF c
  <2>3. h \in Handler
    BY <1>0, <2>2 DEF Handler
  <2> QED
    BY <1>0, <2>1, <2>3, TaskOnly DEF Handler
<1> QED
  BY <1>1, <1>2, <1>3, <1>4, <1>5

\* A fork: the number it gets is no one's, so the new process is the only one there.
LEMMA ForkKept ==
  ASSUME ChildState, NEW t \in Task, NEW kind \in {"child", "command"}, Fork(t, kind)
  PROVE  ChildState' /\ \A q \in Pid : procs[q].st = "free" => procs'[q].st # "zombie"
<1>0. PICK n, mark : n = Started + 1 /\ mark = reaper.reaped
  OBVIOUS
<1>1. PICK p \in Pid :
        /\ Reusable(p)
        /\ procs' = [procs EXCEPT ![p] = [st |-> "alive", run |-> n]]
        /\ task' = [task EXCEPT ![t].step = "forked", ![t].kind = kind, ![t].pid = p,
                      ![t].mark = mark,
                      ![t].run = IF kind = "child" THEN n ELSE @,
                      ![t].command = IF kind = "child" THEN @ ELSE n]
  BY <1>0 DEF Fork
<1>2. /\ Acts(t) /\ ~task[t].frozen /\ heard' = Append(heard, <<>>) /\ reaper' = reaper
      /\ kind = "child" => task[t].child = 0
  BY DEF Fork
<1>3. /\ procs \in [Pid -> Process] /\ reaper \in ReaperState /\ task \in [Task -> Handler]
      /\ heard \in Seq(Seq(Nat)) /\ 0 \notin Pid
  BY ReaperAssumption DEF ChildState, ChildTypes
<1>4. /\ n \in Nat /\ n # 0 /\ Started \in Nat /\ Started' = n /\ <<>> \in Seq(Nat)
      /\ heard' \in Seq(Seq(Nat))
      /\ \A i \in 1 .. Started : heard'[i] = heard[i]
      /\ heard'[n] = <<>>
  BY <1>0, <1>2, <1>3 DEF Started
<1> DEFINE r == IF kind = "child" THEN n ELSE task[t].run
           m == IF kind = "child" THEN task[t].command ELSE n
           k == [task[t] EXCEPT !.step = "forked", !.kind = kind, !.pid = p, !.mark = mark,
                                !.run = r, !.command = m]
<1>5. task' = [task EXCEPT ![t] = k] /\ task[t] \in Handler
  BY <1>1, <1>3 DEF Handler
<1>6. /\ r \in Nat /\ m \in Nat /\ mark \in Nat
      /\ (IF kind = "child" THEN r ELSE m) = n
      /\ kind # "child" => r = task[t].run
  BY <1>0, <1>3, <1>4 DEF Handler, ReaperState
<1> HIDE DEF r, m
<1>7. /\ k \in Handler
      /\ k.step = "forked" /\ k.kind = kind /\ k.pid = p /\ k.mark = mark /\ k.run = r
      /\ k.command = m /\ k.child = task[t].child /\ k.exited = task[t].exited
      /\ k.exits = task[t].exits /\ k.frozen = task[t].frozen /\ k.adopt = task[t].adopt
  <2>0. /\ r \in Nat /\ m \in Nat /\ mark \in Nat /\ p \in Pid \cup {0}
        /\ task[t] \in Handler /\ "forked" \in {"none", "idle", "forked"}
    BY <1>5, <1>6
  <2>1. k \in Handler
    BY <2>0 DEF Handler
  <2> QED
    BY <1>5, <2>1 DEF Handler
<1> HIDE DEF k
<1>8. ChildTypes'
  <2>1. procs' \in [Pid -> Process]
    BY <1>1, <1>3, <1>4 DEF Process
  <2>2. task' \in [Task -> Handler]
    BY <1>3, <1>5, <1>7
  <2> QED
    BY <1>2, <1>3, <1>4, <2>1, <2>2 DEF ChildTypes
<1>9. ~Occupied(p) /\ reaper.listeners[p] = 0
      /\ \A u \in Task : ~HoldsPid(u, p)
  BY <1>1 DEF Reusable, Occupied, ChildState, Children, Listening, HoldsPid, ChildAt
<1>10. /\ \A q \in Pid : q # p => procs'[q] = procs[q]
       /\ procs'[p] = [st |-> "alive", run |-> n]
       /\ \A q \in Pid : Occupied(q)' <=> (q = p \/ Occupied(q))
       /\ \A q \in Pid : Unclaimed(q)' <=> Unclaimed(q)
  BY <1>1, <1>2, <1>3 DEF Occupied, Unclaimed
<1>11. OnePlace'
  <2>0. /\ \A q \in Pid : Occupied(q) => procs[q].run \in 1 .. Started /\ heard[procs[q].run] = <<>>
        /\ \A q \in Pid : Unclaimed(q) =>
             reaper.unclaimed[q].run \in 1 .. Started /\ heard[reaper.unclaimed[q].run] = <<>>
        /\ Started' = Started + 1
    BY <1>0, <1>4 DEF ChildState, Children, OnePlace
  <2>1. \A q \in Pid : Occupied(q)' => procs'[q].run \in 1 .. Started' /\ heard'[procs'[q].run] = <<>>
    <3> SUFFICES ASSUME NEW q \in Pid, Occupied(q)'
                 PROVE  procs'[q].run \in 1 .. Started' /\ heard'[procs'[q].run] = <<>>
      OBVIOUS
    <3>1. CASE q = p
      BY <3>1, <1>4, <1>10
    <3>2. CASE q # p
      <4> DEFINE m1 == procs[q].run
      <4>1. m1 \in 1 .. Started /\ heard[m1] = <<>>
        BY <2>0, <3>2, <1>10
      <4>2. procs'[q].run = m1
        BY <3>2, <1>10
      <4> HIDE DEF m1
      <4> QED
        BY <2>0, <1>4, <4>1, <4>2
    <3> QED
      BY <3>1, <3>2
  <2>2. \A q \in Pid : Unclaimed(q)' =>
          reaper'.unclaimed[q].run \in 1 .. Started' /\ heard'[reaper'.unclaimed[q].run] = <<>>
    <3> SUFFICES ASSUME NEW q \in Pid, Unclaimed(q)'
                 PROVE  /\ reaper'.unclaimed[q].run \in 1 .. Started'
                        /\ heard'[reaper'.unclaimed[q].run] = <<>>
      OBVIOUS
    <3> DEFINE m1 == reaper.unclaimed[q].run
    <3>1. m1 \in 1 .. Started /\ heard[m1] = <<>>
      BY <2>0, <1>10
    <3>2. reaper'.unclaimed[q].run = m1
      BY <1>2
    <3> HIDE DEF m1
    <3>3. m1 \in 1 .. Started' /\ heard'[m1] = <<>>
      BY <2>0, <1>4, <3>1
    <3> QED
      BY <3>2, <3>3
  <2>3. \A q, s \in Pid : Occupied(q)' /\ Occupied(s)' /\ procs'[q].run = procs'[s].run => q = s
    <3>1. n \notin 1 .. Started
      BY <1>0, <1>4, <2>0
    <3> QED
      BY <2>0, <3>1, <1>10 DEF ChildState, Children, OnePlace
  <2>4. \A q, s \in Pid :
          Unclaimed(q)' /\ Unclaimed(s)' /\ reaper'.unclaimed[q].run = reaper'.unclaimed[s].run => q = s
    BY <1>2, <1>10 DEF ChildState, Children, OnePlace
  <2>5. \A q, s \in Pid : Occupied(q)' /\ Unclaimed(s)' => procs'[q].run # reaper'.unclaimed[s].run
    <3>1. n \notin 1 .. Started
      BY <1>0, <1>4, <2>0
    <3> QED
      BY <2>0, <3>1, <1>2, <1>10 DEF ChildState, Children, OnePlace
  <2>6. \A q \in Pid : reaper'.unclaimed[q].place < reaper'.reaped
    BY <1>2 DEF ChildState, Children, OnePlace
  <2> QED
    BY <2>1, <2>2, <2>3, <2>4, <2>5, <2>6 DEF OnePlace
<1>12. Listening'
  BY <1>2, <1>9, <1>10 DEF ChildState, Children, Listening
<1>13. OwnExit'
  <2> SUFFICES ASSUME NEW i \in 1 .. Started' PROVE heard'[i] \in {<<>>, <<i>>}
    BY DEF OwnExit
  <2>1. i \in 1 .. Started \/ i = n
    BY <1>0, <1>4
  <2> QED
    BY <2>1, <1>4 DEF ChildState, Children, OwnExit
<1>14. \A q \in Pid : \A a, b : q # p => (Ahead(q, a, b)' <=> Ahead(q, a, b))
  BY <1>2, <1>10 DEF Ahead
<1>15. \A u \in Task : u # t => task'[u] = task[u]
  BY <1>5, <1>3
<1>16. task'[t] = k
  BY <1>5, <1>3
<1>17. Ahead(p, mark, n)'
  <2>1. reaper'.listeners[p] = 0 /\ Occupied(p)' /\ procs'[p].run = n
    BY <1>2, <1>9, <1>10
  <2>2. reaper'.unclaimed[p].place < mark
    BY <1>0, <1>2 DEF ChildState, Children, OnePlace
  <2> QED
    BY <2>1, <2>2 DEF Ahead
<1>18. Spawning'
  <2> SUFFICES ASSUME NEW u \in Task PROVE SpawningAt(u)'
    BY DEF Spawning
  <2>1. CASE u = t
    <3>1. Spawned(t)' = n
      <4>1. /\ task'[t].kind = kind /\ task'[t].run = r /\ task'[t].command = m
            /\ (IF kind = "child" THEN r ELSE m) = n
        BY <1>6, <1>7, <1>16
      <4> QED
        BY <4>1 DEF Spawned
    <3>2. ~task[t].adopt /\ mark <= reaper'.reaped
      BY <1>0, <1>2, <1>3 DEF Acts, ReaperState
    <3> QED
      BY <2>1, <3>1, <3>2, <1>2, <1>3, <1>7, <1>16, <1>17 DEF SpawningAt
  <2>2. CASE u # t
    <3>1. task'[u] = task[u] /\ Spawned(u)' = Spawned(u)
      BY <2>2, <1>15 DEF Spawned
    <3>2. task[u].pid # 0 => task[u].pid \in Pid /\ task[u].pid # p
      BY <1>3, <1>9 DEF HoldsPid, Handler
    <3>3. SpawningAt(u)
      BY DEF ChildState, Children, Spawning
    <3> QED
      BY <3>1, <3>2, <3>3, <1>2, <1>14 DEF SpawningAt
  <2> QED
    BY <2>1, <2>2
<1>19. \A u \in Task, q \in Pid :
         /\ ChildAt(u, q)' <=> ChildAt(u, q)
         /\ HoldsPid(u, q)' => HoldsPid(u, q) \/ (u = t /\ q = p)
  BY <1>7, <1>15, <1>16 DEF ChildAt, HoldsPid
<1>20. Apart'
  <2>1. \A u, v \in Task, q \in Pid : HoldsPid(u, q)' /\ HoldsPid(v, q)' => u = v
    BY <1>9, <1>19 DEF ChildState, Children, Apart
  <2>2. \A u \in Task, q \in Pid : ~(ChildAt(u, q)' /\ task'[u].pid = q)
    BY <1>9, <1>7, <1>15, <1>16, <1>19 DEF ChildState, Children, Apart, HoldsPid
  <2> QED
    BY <2>1, <2>2 DEF Apart
<1>21. Known'
  <2> SUFFICES ASSUME NEW u \in Task PROVE KnownAt(u)'
    BY DEF Known
  <2>0. KnownAt(u)
    BY DEF ChildState, Children, Known
  <2>1. CASE u = t
    <3>1. ~task[t].adopt
      BY <1>2 DEF Acts
    <3>2. kind = "child" => task[t].child = 0
      BY <1>2
    <3>3. task[t].step = "idle"
      BY <1>2 DEF Acts
    <3>4. /\ task'[t].step = "forked" /\ task'[t].child = task[t].child
          /\ task'[t].exited = task[t].exited /\ task'[t].exits = task[t].exits
          /\ task'[t].adopt = task[t].adopt /\ task'[t].run = r
      BY <1>7, <1>16
    <3>5. task[t].child # 0 => r = task[t].run
      BY <3>2, <1>6
    <3> QED
      BY <2>0, <2>1, <3>1, <3>3, <3>4, <3>5, <1>2 DEF KnownAt
  <2>2. CASE u # t
    <3>1. task'[u] = task[u]
      BY <2>2, <1>15
    <3>2. task[u].child # 0 /\ ~task[u].exited => task[u].child \in Pid /\ task[u].child # p
      BY <1>3, <1>9 DEF HoldsPid, ChildAt, Handler
    <3> QED
      BY <2>0, <3>1, <3>2, <1>2, <1>14 DEF KnownAt
  <2> QED
    BY <2>1, <2>2
<1>22. \A q \in Pid : procs[q].st = "free" => procs'[q].st # "zombie"
  BY <1>10
<1> QED
  BY <1>8, <1>11, <1>12, <1>13, <1>18, <1>20, <1>21, <1>22 DEF ChildState, Children

\* At most one exit is told.
LEMMA OneAtMost ==
  ASSUME NEW n \in Nat, NEW told, told = <<>> \/ told = <<n>>
  PROVE  told \in Seq(Nat) /\ <<>> \o told = told
<1>1. <<>> \in Seq(Nat) /\ <<n>> \in Seq(Nat)
  OBVIOUS
<1>2. told \in Seq(Nat)
  BY <1>1
<1>3. <<>> \o told = told
  BY <1>2
<1> QED
  BY <1>2, <1>3

\* What one exit more makes of those handed over.
LEMMA OneMore ==
  ASSUME NEW s \in Seq(Nat), NEW n \in Nat
  PROVE  /\ Append(s, n) \in Seq(Nat) /\ Append(s, n) # <<>>
         /\ s = <<>> => Append(s, n) = <<n>>
<1>1. Append(s, n) \in Seq(Nat) /\ Len(Append(s, n)) = Len(s) + 1 /\ Len(s) \in Nat
  OBVIOUS
<1>2. Append(s, n) # <<>>
  BY <1>1
<1>3. Append(<<>>, n) = <<n>>
  OBVIOUS
<1> QED
  BY <1>1, <1>2, <1>3

\* What one run's owner is handed is nothing to the others.
LEMMA HeardAt ==
  ASSUME NEW h \in Seq(Seq(Nat)), NEW n \in 1 .. Len(h), NEW e \in Seq(Nat), NEW g,
         g = [h EXCEPT ![n] = e]
  PROVE  /\ g \in Seq(Seq(Nat)) /\ Len(g) = Len(h) /\ g[n] = e
         /\ \A i \in 1 .. Len(h) : i # n => g[i] = h[i]
OBVIOUS

\* What a registration finds when the exit of run n is still to come or came since the mark:
\* nothing, and then it listens, or that exit.
LEMMA WaitFor ==
  ASSUME ChildState, NEW p \in Pid, NEW mark \in Nat, NEW n, Ahead(p, mark, n)
  PROVE  LET w == wait_for(p, mark, n)
         IN /\ n \in 1 .. Started /\ heard[n] = <<>>
            /\ w.reaper \in ReaperState /\ w.told \in {<<>>, <<n>>}
            /\ w.reaper.reaped = reaper.reaped /\ w.reaper.unclaimed[p].place = -1
            /\ \A q \in Pid : q # p =>
                 /\ w.reaper.listeners[q] = reaper.listeners[q]
                 /\ w.reaper.unclaimed[q] = reaper.unclaimed[q]
            /\ \/ w.told = <<>> /\ w.reaper.listeners[p] = n /\ Occupied(p) /\ procs[p].run = n
               \/ /\ w.told = <<n>> /\ w.reaper.listeners[p] = 0
                  /\ Unclaimed(p) /\ reaper.unclaimed[p].run = n
<1>1. /\ reaper \in ReaperState /\ reaper.listeners \in [Pid -> Nat]
      /\ reaper.unclaimed \in [Pid -> [place : Int, run : Nat]]
      /\ reaper.unclaimed[p].place \in Int /\ reaper.unclaimed[p].run \in Nat
      /\ reaper.listeners[p] = 0
  BY DEF ChildState, ChildTypes, ReaperState, Ahead
<1>2. n \in 1 .. Started /\ heard[n] = <<>>
  BY <1>1 DEF ChildState, Children, OnePlace, Ahead, Unclaimed
<1>3. n \in Nat
  <2>1. Started \in Nat
    BY DEF ChildState, ChildTypes, Started
  <2> QED
    BY <1>2, <2>1
<1> DEFINE found == reaper.unclaimed[p].place >= mark
           l == [reaper.listeners EXCEPT ![p] = IF found THEN @ ELSE n]
           o == [reaper.unclaimed EXCEPT ![p] = [place |-> -1, run |-> 0]]
           told == IF found THEN <<reaper.unclaimed[p].run>> ELSE <<>>
           r == [reaper EXCEPT !.unclaimed = o, !.listeners = l]
<1>4. wait_for(p, mark, n) = [reaper |-> r, told |-> told]
  BY <1>1 DEF wait_for, ReaperState
<1>5. l \in [Pid -> Nat] /\ o \in [Pid -> [place : Int, run : Nat]]
  BY <1>1, <1>3
<1>6. /\ o[p].place = -1
      /\ \A q \in Pid : q # p => l[q] = reaper.listeners[q] /\ o[q] = reaper.unclaimed[q]
      /\ l[p] = IF found THEN 0 ELSE n
  BY <1>1
<1>7. found => told = <<n>> /\ Unclaimed(p) /\ reaper.unclaimed[p].run = n
  BY <1>1 DEF Ahead, Unclaimed
<1>8. ~found => told = <<>> /\ Occupied(p) /\ procs[p].run = n
  BY DEF Ahead
<1> HIDE DEF found, l, o, told
<1>9. r \in ReaperState /\ r.listeners = l /\ r.unclaimed = o /\ r.reaped = reaper.reaped
  BY <1>1, <1>5 DEF ReaperState
<1> HIDE DEF r
<1>10. wait_for(p, mark, n).reaper = r /\ wait_for(p, mark, n).told = told
  BY <1>4
<1> QED
  BY <1>2, <1>6, <1>7, <1>8, <1>9, <1>10

\* A task whose new process is registered, or whose child is adopted.
LEMMA WaitKept ==
  ASSUME ChildState, NEW t \in Task, NEW p \in Pid, NEW mark \in Nat, NEW n, Ahead(p, mark, n),
         HoldsPid(t, p), NEW k \in Handler, task' = [task EXCEPT ![t] = k],
         reaper' = wait_for(p, mark, n).reaper,
         heard' = [heard EXCEPT ![n] = @ \o wait_for(p, mark, n).told], procs' = procs,
         k.step = "idle", ~k.adopt, k.pid = 0,
         \/ k.child = p /\ k.run = n /\ k.exits = wait_for(p, mark, n).told
         \/ /\ task[t].pid = p /\ ~task[t].adopt
            /\ k.child = task[t].child /\ k.run = task[t].run /\ k.exits = task[t].exits
            /\ k.exited = task[t].exited
  PROVE  ChildState'
<1> DEFINE told == wait_for(p, mark, n).told
<1>1. /\ n \in 1 .. Started /\ heard[n] = <<>>
      /\ reaper' \in ReaperState /\ told \in {<<>>, <<n>>}
      /\ reaper'.reaped = reaper.reaped /\ reaper'.unclaimed[p].place = -1
      /\ \A q \in Pid : q # p => /\ reaper'.listeners[q] = reaper.listeners[q]
                                 /\ reaper'.unclaimed[q] = reaper.unclaimed[q]
      /\ \/ told = <<>> /\ reaper'.listeners[p] = n /\ Occupied(p) /\ procs[p].run = n
         \/ /\ told = <<n>> /\ reaper'.listeners[p] = 0
            /\ Unclaimed(p) /\ reaper.unclaimed[p].run = n
  BY WaitFor
<1> HIDE DEF told
<1>2. /\ procs \in [Pid -> Process] /\ reaper \in ReaperState /\ task \in [Task -> Handler]
      /\ heard \in Seq(Seq(Nat)) /\ 0 \notin Pid /\ Started \in Nat /\ n \in Nat
      /\ \A q \in Pid : reaper.unclaimed[q].place \in Int
  <2>1. /\ procs \in [Pid -> Process] /\ reaper \in ReaperState /\ task \in [Task -> Handler]
        /\ heard \in Seq(Seq(Nat)) /\ 0 \notin Pid
    BY ReaperAssumption DEF ChildState, ChildTypes
  <2>2. Started \in Nat
    BY <2>1 DEF Started
  <2>3. n \in Nat
    BY <1>1, <2>2
  <2>4. \A q \in Pid : reaper.unclaimed[q].place \in Int
    BY <2>1 DEF ReaperState
  <2> QED
    BY <2>1, <2>2, <2>3, <2>4
<1>3. /\ heard' \in Seq(Seq(Nat)) /\ Started' = Started
      /\ heard'[n] = told /\ \A i \in 1 .. Started : i # n => heard'[i] = heard[i]
  <2>0. told = <<>> \/ told = <<n>>
    BY <1>1
  <2>1. told \in Seq(Nat) /\ heard[n] \o told = told
    <3>1. heard[n] = <<>> /\ n \in Nat
      BY <1>1, <1>2
    <3> QED
      BY <2>0, <3>1, OneAtMost
  <2>2. heard' = [heard EXCEPT ![n] = told]
    BY <2>1 DEF told
  <2>3. n \in 1 .. Len(heard) /\ heard \in Seq(Seq(Nat)) /\ told \in Seq(Nat)
    BY <2>1, <1>1, <1>2 DEF Started
  <2>4. /\ heard' \in Seq(Seq(Nat)) /\ Len(heard') = Len(heard) /\ heard'[n] = told
        /\ \A i \in 1 .. Len(heard) : i # n => heard'[i] = heard[i]
    BY ONLY <2>2, <2>3, HeardAt
  <2> QED
    BY <2>4 DEF Started
<1>4. /\ \A q \in Pid : Occupied(q)' <=> Occupied(q)
      /\ \A q \in Pid : Unclaimed(q)' <=> (q # p /\ Unclaimed(q))
  <2>1. \A q \in Pid : Occupied(q)' <=> Occupied(q)
    BY DEF Occupied
  <2>2. ASSUME NEW q \in Pid PROVE Unclaimed(q)' <=> (q # p /\ Unclaimed(q))
    <3>1. CASE q = p
      <4>1. reaper'.unclaimed[q].place = -1
        BY <1>1, <3>1
      <4> QED
        BY <3>1, <4>1 DEF Unclaimed
    <3>2. CASE q # p
      <4>1. reaper'.unclaimed[q] = reaper.unclaimed[q]
        BY <1>1, <3>2
      <4> QED
        BY <3>2, <4>1 DEF Unclaimed
    <3> QED
      BY <3>1, <3>2
  <2> QED
    BY <2>1, <2>2
<1>5. ChildTypes'
  BY <1>1, <1>2, <1>3 DEF ChildTypes
<1>6. OnePlace'
  <2>1. ASSUME NEW q \in Pid, Occupied(q)
        PROVE  procs[q].run \in 1 .. Started /\ heard'[procs[q].run] = <<>>
    <3>1. procs[q].run \in 1 .. Started /\ heard[procs[q].run] = <<>>
      BY <2>1 DEF ChildState, Children, OnePlace
    <3>2. CASE told = <<>>
      BY <1>3, <3>1, <3>2
    <3>3. CASE told # <<>>
      <4>1. procs[q].run # n
        BY <1>1, <2>1, <3>3 DEF ChildState, Children, OnePlace
      <4> QED
        BY <1>3, <3>1, <4>1
    <3> QED
      BY <3>2, <3>3
  <2>2. ASSUME NEW q \in Pid, Unclaimed(q), q # p
        PROVE  /\ reaper.unclaimed[q].run \in 1 .. Started
               /\ heard'[reaper.unclaimed[q].run] = <<>>
    <3>1. reaper.unclaimed[q].run \in 1 .. Started /\ heard[reaper.unclaimed[q].run] = <<>>
      BY <2>2 DEF ChildState, Children, OnePlace
    <3>2. reaper.unclaimed[q].run # n
      BY <1>1, <2>2 DEF ChildState, Children, OnePlace
    <3> QED
      BY <1>3, <3>1, <3>2
  <2>3. \A q \in Pid : reaper'.unclaimed[q].place < reaper'.reaped
    <3>1. reaper.reaped \in Nat
      BY <1>2 DEF ReaperState
    <3>2. \A q \in Pid : reaper.unclaimed[q].place < reaper.reaped
      BY DEF ChildState, Children, OnePlace
    <3> SUFFICES ASSUME NEW q \in Pid PROVE reaper'.unclaimed[q].place < reaper.reaped
      BY <1>1
    <3>3. CASE q = p
      <4>1. reaper'.unclaimed[q].place = -1
        BY <1>1, <3>3
      <4> QED
        BY <3>1, <4>1
    <3>4. CASE q # p
      <4>1. reaper'.unclaimed[q] = reaper.unclaimed[q]
        BY <1>1, <3>4
      <4> QED
        BY <3>2, <4>1
    <3> QED
      BY <3>3, <3>4
  <2>4. /\ \A q \in Pid : Occupied(q)' <=> Occupied(q)
        /\ \A q \in Pid : Unclaimed(q)' => Unclaimed(q) /\ reaper'.unclaimed[q] = reaper.unclaimed[q]
        /\ \A q \in Pid : Unclaimed(q)' => q # p
    BY <1>1, <1>4
  <2>5. /\ \A q, u \in Pid : Occupied(q) /\ Occupied(u) /\ procs[q].run = procs[u].run => q = u
        /\ \A q, u \in Pid :
             Unclaimed(q) /\ Unclaimed(u) /\ reaper.unclaimed[q].run = reaper.unclaimed[u].run => q = u
        /\ \A q, u \in Pid : Occupied(q) /\ Unclaimed(u) => procs[q].run # reaper.unclaimed[u].run
    BY DEF ChildState, Children, OnePlace
  <2>6. /\ \A q \in Pid : Occupied(q)' =>
             procs'[q].run \in 1 .. Started' /\ heard'[procs'[q].run] = <<>>
        /\ \A q \in Pid : Unclaimed(q)' =>
             /\ reaper'.unclaimed[q].run \in 1 .. Started'
             /\ heard'[reaper'.unclaimed[q].run] = <<>>
    BY <1>3, <2>1, <2>2, <2>4
  <2>7. /\ \A q, u \in Pid :
             Occupied(q)' /\ Occupied(u)' /\ procs'[q].run = procs'[u].run => q = u
        /\ \A q, u \in Pid :
             Unclaimed(q)' /\ Unclaimed(u)' /\ reaper'.unclaimed[q].run = reaper'.unclaimed[u].run
             => q = u
        /\ \A q, u \in Pid :
             Occupied(q)' /\ Unclaimed(u)' => procs'[q].run # reaper'.unclaimed[u].run
    BY <2>4, <2>5
  <2> QED
    BY <2>3, <2>6, <2>7 DEF OnePlace
<1>7. Listening'
  BY <1>1, <1>4 DEF ChildState, Children, Listening
<1>8. OwnExit'
  BY <1>1, <1>3 DEF ChildState, Children, OwnExit
<1>9. \A q \in Pid : q # p => \A a, b : Ahead(q, a, b)' <=> Ahead(q, a, b)
  BY <1>1, <1>4 DEF Ahead
<1>10. task'[t] = k /\ \A u \in Task : u # t => task'[u] = task[u]
  BY <1>2
<1>11. \A u \in Task : u # t =>
         /\ task[u].pid # 0 => task[u].pid \in Pid /\ task[u].pid # p
         /\ task[u].child # 0 /\ ~task[u].exited => task[u].child \in Pid /\ task[u].child # p
  <2>1. /\ \A u, v \in Task, q \in Pid : HoldsPid(u, q) /\ HoldsPid(v, q) => u = v
        /\ HoldsPid(t, p)
    BY <1>2 DEF ChildState, Children, Apart, HoldsPid, ChildAt
  <2>2. \A u \in Task : task[u].pid \in Pid \cup {0} /\ task[u].child \in Pid \cup {0}
    BY <1>2 DEF Handler
  <2> QED
    BY <2>1, <2>2 DEF HoldsPid, ChildAt
<1>12. Spawning'
  <2> SUFFICES ASSUME NEW u \in Task PROVE SpawningAt(u)'
    BY DEF Spawning
  <2>1. CASE u = t
    BY <2>1, <1>10 DEF SpawningAt
  <2>2. CASE u # t
    <3>1. task'[u] = task[u] /\ Spawned(u)' = Spawned(u)
      BY <2>2, <1>10 DEF Spawned
    <3>2. SpawningAt(u)
      BY DEF ChildState, Children, Spawning
    <3> QED
      BY <2>2, <3>1, <3>2, <1>1, <1>9, <1>11 DEF SpawningAt
  <2> QED
    BY <2>1, <2>2
<1>13. \A u \in Task, q \in Pid : HoldsPid(u, q)' => HoldsPid(u, q) /\ (u = t => task'[u].pid # q)
  BY <1>2, <1>10 DEF HoldsPid, ChildAt
<1>14. Apart'
  <2>1. \A u \in Task, q \in Pid : ~(ChildAt(u, q)' /\ task'[u].pid = q)
    BY <1>2, <1>10 DEF ChildState, Children, Apart, ChildAt
  <2> QED
    BY <2>1, <1>13 DEF ChildState, Children, Apart
<1>15. Known'
  <2> SUFFICES ASSUME NEW u \in Task PROVE KnownAt(u)'
    BY DEF Known
  <2>0. KnownAt(u)
    BY DEF ChildState, Children, Known
  <2>1. CASE u = t /\ k.child = p /\ k.run = n /\ k.exits = told
    <3>1. told = <<>> => reaper'.listeners[p] = n
      BY <1>1
    <3>2. /\ task'[u].step = "idle" /\ ~task'[u].adopt /\ task'[u].child = p
          /\ task'[u].run = n /\ task'[u].exits = told
      BY <2>1, <1>10
    <3>3. n # 0 /\ p # 0
      BY <1>1, <1>2
    <3> QED
      BY <3>1, <3>2, <3>3 DEF KnownAt
  <2>2. CASE /\ u = t /\ task[t].pid = p /\ ~task[t].adopt
             /\ k.child = task[t].child /\ k.run = task[t].run /\ k.exits = task[t].exits
             /\ k.exited = task[t].exited
    <3>1. task[t].child # 0 /\ ~task[t].exited => task[t].child \in Pid /\ task[t].child # p
      BY <2>2, <1>2 DEF ChildState, Children, Apart, ChildAt, Handler
    <3> QED
      BY <2>0, <2>2, <3>1, <1>1, <1>10 DEF KnownAt
  <2>3. CASE u # t
    <3>1. task'[u] = task[u]
      BY <2>3, <1>10
    <3>2. CASE task[u].child # 0 /\ ~task[u].exited
      <4>1. task[u].child \in Pid /\ task[u].child # p
        BY <2>3, <3>2, <1>11
      <4>2. /\ reaper'.listeners[task[u].child] = reaper.listeners[task[u].child]
            /\ Ahead(task[u].child, 0, task[u].run) => Ahead(task[u].child, 0, task[u].run)'
        BY <3>1, <4>1, <1>1, <1>9
      <4> QED
        BY <2>0, <3>1, <3>2, <4>2 DEF KnownAt
    <3> QED
      BY <2>0, <3>1, <3>2 DEF KnownAt
  <2> QED
    BY <2>1, <2>2, <2>3 DEF told
<1> QED
  BY <1>5, <1>6, <1>7, <1>8, <1>12, <1>14, <1>15 DEF ChildState, Children

\* A registration and an adoption are such steps.
LEMMA RegisterKept ==
  ASSUME ChildState, NEW t \in Task, Register(t) \/ Adopt(t)
  PROVE  ChildState'
<1>1. /\ task \in [Task -> Handler] /\ task[t] \in Handler /\ SpawningAt(t) /\ KnownAt(t)
      /\ 0 \in Nat /\ FALSE \in BOOLEAN /\ 0 \notin Pid
  BY ReaperAssumption DEF ChildState, ChildTypes, Children, Spawning, Known
<1>2. CASE Register(t)
  <2> DEFINE isChild == task[t].kind = "child"
             p == task[t].pid
             n == Spawned(t)
             told == wait_for(p, task[t].mark, n).told
             ch == IF isChild THEN p ELSE task[t].child
             ex == IF isChild THEN told ELSE task[t].exits
             ed == IF isChild THEN FALSE ELSE task[t].exited
             k == [task[t] EXCEPT !.step = "idle", !.pid = 0, !.mark = 0, !.child = ch,
                                  !.exits = ex, !.exited = ed]
  <2>1. /\ p \in Pid /\ task[t].mark \in Nat /\ Ahead(p, task[t].mark, n) /\ ~task[t].adopt
        /\ n = IF isChild THEN task[t].run ELSE task[t].command
    BY <1>1, <1>2 DEF Register, SpawningAt, Handler, Spawned
  <2>2. task' = [task EXCEPT ![t] = k]
    BY <1>1, <1>2, <2>1 DEF Register, Handler
  <2>3. /\ reaper' = wait_for(p, task[t].mark, n).reaper
        /\ heard' = [heard EXCEPT ![n] = @ \o told] /\ procs' = procs
    BY <1>2, <2>1 DEF Register
  <2>4. told \in Seq(Nat)
    <3>1. told \in {<<>>, <<n>>}
      BY <2>1, WaitFor
    <3>2. n \in Nat
      BY <1>1, <2>1 DEF Handler
    <3> HIDE DEF told, n
    <3> QED
      BY <3>1, <3>2, OneAtMost
  <2>5. HoldsPid(t, p)
    BY DEF HoldsPid
  <2> HIDE DEF told
  <2>6. ch \in Pid \cup {0} /\ ex \in Seq(Nat) /\ ed \in BOOLEAN
    BY <1>1, <2>1, <2>4 DEF Handler
  <2>7. \/ isChild /\ ch = p /\ n = task[t].run /\ ex = told
        \/ ch = task[t].child /\ ex = task[t].exits /\ ed = task[t].exited
    BY <2>1
  <2> HIDE DEF ch, ex, ed
  <2>8. /\ k \in Handler /\ k.step = "idle" /\ k.adopt = task[t].adopt /\ k.pid = 0 /\ k.child = ch
        /\ k.exits = ex /\ k.exited = ed /\ k.run = task[t].run
    BY <1>1, <2>6 DEF Handler
  <2> HIDE DEF k, n, p
  <2>9. \/ k.child = p /\ k.run = n /\ k.exits = wait_for(p, task[t].mark, n).told
        \/ /\ task[t].pid = p /\ ~task[t].adopt
           /\ k.child = task[t].child /\ k.run = task[t].run /\ k.exits = task[t].exits
           /\ k.exited = task[t].exited
    BY <2>1, <2>7, <2>8 DEF told, p
  <2> QED
    BY <2>1, <2>2, <2>3, <2>5, <2>8, <2>9, WaitKept DEF told
<1>3. CASE Adopt(t)
  <2>1. CASE task[t].exited
    <3> DEFINE k == [task[t] EXCEPT !.adopt = FALSE]
    <3>1. task' = [task EXCEPT ![t] = k] /\ UNCHANGED <<procs, reaper, heard>>
      BY <1>1, <1>3, <2>1 DEF Adopt, Handler
    <3> QED
      <4>1. k \in Handler /\ k.step = task[t].step /\ ~k.adopt /\ k.pid = task[t].pid /\ k.exited
        BY <1>1, <2>1 DEF Handler
      <4>2. task[t].step = "idle"
        BY <1>1, <1>3 DEF Adopt, KnownAt, Handler
      <4> HIDE DEF k
      <4> QED
        BY <2>1, <3>1, <4>1, <4>2, TaskOnly
  <2>2. CASE ~task[t].exited
    <3> DEFINE p == task[t].child
               n == task[t].run
               told == wait_for(p, 0, n).told
               k == [task[t] EXCEPT !.adopt = FALSE, !.exits = told]
    <3>1. /\ p \in Pid /\ Ahead(p, 0, n) /\ task[t].step = "idle" /\ task[t].pid = 0
          /\ n \in Nat
      BY <1>1, <1>3, <2>2 DEF Adopt, KnownAt, SpawningAt, Handler
    <3>2. /\ task' = [task EXCEPT ![t] = k] /\ procs' = procs
          /\ reaper' = wait_for(p, 0, n).reaper
          /\ heard' = [heard EXCEPT ![n] = @ \o told]
      BY <1>1, <1>3, <2>2 DEF Adopt, Handler
    <3>3. told \in Seq(Nat)
      <4>1. told \in {<<>>, <<n>>}
        BY <1>1, <3>1, WaitFor
      <4> HIDE DEF told, n
      <4> QED
        BY <3>1, <4>1, OneAtMost
    <3>4. HoldsPid(t, p)
      BY <2>2 DEF HoldsPid, ChildAt
    <3> HIDE DEF told
    <3>5. /\ k \in Handler /\ k.step = "idle" /\ ~k.adopt /\ k.pid = 0 /\ k.child = p
          /\ k.run = n /\ k.exits = told
      BY <1>1, <3>1, <3>3 DEF Handler
    <3> HIDE DEF k, p, n
    <3> QED
      BY <1>1, <3>1, <3>2, <3>4, <3>5, WaitKept DEF told
  <2> QED
    BY <2>1, <2>2
<1> QED
  BY <1>2, <1>3

\* The reaper collects a process: its owner is handed the exit, or it is kept with its
\* place, which is past any mark there is.
LEMMA ReapKept ==
  ASSUME ChildState, NEW p \in Pid, Reap(p)
  PROVE  ChildState' /\ \A q \in Pid : procs[q].st = "free" => procs'[q].st # "zombie"
<1>0. PICK n, m : n = reaper.listeners[p] /\ m = procs[p].run
  OBVIOUS
<1>1. /\ procs \in [Pid -> Process] /\ reaper \in ReaperState /\ task \in [Task -> Handler]
      /\ heard \in Seq(Seq(Nat)) /\ 0 \notin Pid
  BY ReaperAssumption DEF ChildState, ChildTypes
<1>2. /\ reaper.listeners \in [Pid -> Nat]
      /\ reaper.unclaimed \in [Pid -> [place : Int, run : Nat]]
      /\ reaper.reaped \in Nat /\ n \in Nat /\ m \in Nat
      /\ \A q \in Pid : reaper.unclaimed[q].place \in Int /\ reaper.unclaimed[q].run \in Nat
  BY <1>0, <1>1 DEF ReaperState, Process
<1>3. Occupied(p) /\ m \in 1 .. Started /\ heard[m] = <<>> /\ Started \in Nat
  BY <1>0, <1>1 DEF Reap, Occupied, ChildState, Children, OnePlace, Started
<1>4. /\ procs' = [procs EXCEPT ![p] = NoProcess] /\ procs' \in [Pid -> Process]
      /\ \A q \in Pid : q # p => procs'[q] = procs[q]
      /\ \A q \in Pid : Occupied(q)' <=> q # p /\ Occupied(q)
  <2>1. procs' = [procs EXCEPT ![p] = NoProcess]
    BY DEF Reap
  <2> QED
    BY <1>1, <2>1 DEF NoProcess, Process, Occupied
<1>5. \A q \in Pid : procs[q].st = "free" => procs'[q].st # "zombie"
  BY <1>1, <1>4 DEF NoProcess
<1>6. /\ \A q \in Pid : Occupied(q) =>
           procs[q].run \in 1 .. Started /\ heard[procs[q].run] = <<>>
      /\ \A q \in Pid : Unclaimed(q) =>
           reaper.unclaimed[q].run \in 1 .. Started /\ heard[reaper.unclaimed[q].run] = <<>>
      /\ \A q, u \in Pid : Occupied(q) /\ Occupied(u) /\ procs[q].run = procs[u].run => q = u
      /\ \A q, u \in Pid :
           Unclaimed(q) /\ Unclaimed(u) /\ reaper.unclaimed[q].run = reaper.unclaimed[u].run => q = u
      /\ \A q, u \in Pid : Occupied(q) /\ Unclaimed(u) => procs[q].run # reaper.unclaimed[u].run
      /\ \A q \in Pid : reaper.unclaimed[q].place < reaper.reaped
  BY DEF ChildState, Children, OnePlace
<1>7. /\ \A t \in Task : SpawningAt(t) /\ KnownAt(t)
      /\ \A q \in Pid : reaper.listeners[q] # 0 => Occupied(q) /\ procs[q].run = reaper.listeners[q]
  BY DEF ChildState, Children, Spawning, Known, Listening
<1>8. CASE n # 0
  <2>1. m = n
    BY <1>0, <1>7, <1>8
  <2> DEFINE l == [reaper.listeners EXCEPT ![p] = 0]
             e == Append(heard[n], n)
             next == reaper.reaped + 1
  <2>2. /\ reaper' = [reaper EXCEPT !.reaped = next, !.listeners = l]
        /\ heard' = [heard EXCEPT ![n] = e]
        /\ task' = [t \in Task |-> IF t \in Owner(n)
                                   THEN [task[t] EXCEPT !.exits = Append(@, n)] ELSE task[t]]
    BY <1>0, <1>1, <1>8, <2>1 DEF Reap, ReaperState
  <2>3. next \in Nat /\ l \in [Pid -> Nat] /\ l[p] = 0 /\ \A q \in Pid : q # p => l[q] = reaper.listeners[q]
    BY <1>2
  <2>4. e = <<n>> /\ e \in Seq(Nat)
    <3>1. heard[n] = <<>> /\ <<>> \in Seq(Nat)
      BY <1>3, <2>1
    <3> QED
      BY <1>2, <3>1, OneMore
  <2> HIDE DEF l, e, next
  <2>5. /\ reaper' \in ReaperState /\ reaper'.unclaimed = reaper.unclaimed /\ reaper'.listeners = l
        /\ reaper'.reaped = reaper.reaped + 1
    <3>1. reaper' \in ReaperState
      BY <1>1, <2>2, <2>3 DEF ReaperState
    <3>2. /\ reaper'.unclaimed = reaper.unclaimed /\ reaper'.listeners = l
          /\ reaper'.reaped = next
      BY <1>1, <2>2 DEF ReaperState
    <3> QED
      BY <3>1, <3>2 DEF next
  <2>6. /\ heard' \in Seq(Seq(Nat)) /\ Started' = Started /\ heard'[n] = <<n>>
        /\ \A i \in 1 .. Started : i # n => heard'[i] = heard[i]
    <3>1. n \in 1 .. Len(heard) /\ heard \in Seq(Seq(Nat)) /\ e \in Seq(Nat)
      BY <1>1, <1>3, <2>1, <2>4 DEF Started
    <3>2. /\ heard' \in Seq(Seq(Nat)) /\ Len(heard') = Len(heard) /\ heard'[n] = e
          /\ \A i \in 1 .. Len(heard) : i # n => heard'[i] = heard[i]
      BY ONLY <2>2, <3>1, HeardAt
    <3> QED
      BY <3>2, <2>4 DEF Started
  <2>7. ASSUME NEW t \in Task
        PROVE  /\ task'[t] \in Handler
               /\ \E x \in Seq(Nat) :
                    /\ task'[t] = [task[t] EXCEPT !.exits = x]
                    /\ task[t].exits # <<>> \/ task[t].run = n => x # <<>>
    <3>0. task[t] \in Handler /\ task[t].exits \in Seq(Nat)
      BY <1>1 DEF Handler
    <3>1. CASE t \in Owner(n)
      <4> DEFINE x == Append(task[t].exits, n)
      <4>1. task'[t] = [task[t] EXCEPT !.exits = x]
        BY <2>2, <3>0, <3>1 DEF Handler
      <4>2. x \in Seq(Nat) /\ x # <<>>
        BY <1>2, <3>0, OneMore
      <4> HIDE DEF x
      <4>3. [task[t] EXCEPT !.exits = x] \in Handler
        BY <3>0, <4>2 DEF Handler
      <4> QED
        BY <4>1, <4>2, <4>3
    <3>2. CASE t \notin Owner(n)
      <4>1. task'[t] = task[t] /\ task[t].run # n
        BY <2>2, <3>2 DEF Owner
      <4>2. task[t] = [task[t] EXCEPT !.exits = task[t].exits]
        BY <3>0 DEF Handler
      <4> QED
        BY <3>0, <4>1, <4>2
    <3> QED
      BY <3>1, <3>2
  <2>8. \A t \in Task :
          /\ task'[t].step = task[t].step /\ task'[t].kind = task[t].kind
          /\ task'[t].mark = task[t].mark /\ task'[t].pid = task[t].pid
          /\ task'[t].child = task[t].child /\ task'[t].run = task[t].run
          /\ task'[t].exited = task[t].exited /\ task'[t].command = task[t].command
          /\ task'[t].frozen = task[t].frozen /\ task'[t].adopt = task[t].adopt
          /\ task[t].exits # <<>> \/ task[t].run = n => task'[t].exits # <<>>
    <3> SUFFICES ASSUME NEW t \in Task
        PROVE  /\ task'[t].step = task[t].step /\ task'[t].kind = task[t].kind
               /\ task'[t].mark = task[t].mark /\ task'[t].pid = task[t].pid
               /\ task'[t].child = task[t].child /\ task'[t].run = task[t].run
               /\ task'[t].exited = task[t].exited /\ task'[t].command = task[t].command
               /\ task'[t].frozen = task[t].frozen /\ task'[t].adopt = task[t].adopt
               /\ task[t].exits # <<>> \/ task[t].run = n => task'[t].exits # <<>>
      OBVIOUS
    <3>1. PICK x \in Seq(Nat) : /\ task'[t] = [task[t] EXCEPT !.exits = x]
                                /\ task[t].exits # <<>> \/ task[t].run = n => x # <<>>
      BY <2>7
    <3>2. task[t] \in Handler
      BY <1>1
    <3> QED
      BY <3>1, <3>2 DEF Handler
  <2>9. ChildTypes'
    <3>1. task' \in [Task -> Handler]
      BY <2>2, <2>7
    <3> QED
      BY <1>4, <2>5, <2>6, <3>1 DEF ChildTypes
  <2>10. OnePlace'
    <3>1. \A q \in Pid : Occupied(q)' => Occupied(q) /\ procs'[q].run = procs[q].run /\ procs[q].run # n
      BY <1>0, <1>3, <1>4, <1>6, <2>1
    <3>2. \A q \in Pid : /\ Unclaimed(q)' <=> Unclaimed(q)
                         /\ Unclaimed(q) => reaper.unclaimed[q].run # n
      BY <1>0, <1>3, <1>6, <2>1, <2>5 DEF Unclaimed
    <3>3. \A q \in Pid : reaper'.unclaimed[q].place < reaper'.reaped
      BY <1>2, <1>6, <2>5
    <3>4. \A q \in Pid : Occupied(q)' =>
            procs'[q].run \in 1 .. Started' /\ heard'[procs'[q].run] = <<>>
      <4>1. \A q \in Pid : Occupied(q) => procs[q].run \in 1 .. Started /\ heard[procs[q].run] = <<>>
        BY <1>6
      <4> QED
        BY <2>6, <3>1, <4>1
    <3>5. \A q \in Pid : Unclaimed(q)' =>
            reaper'.unclaimed[q].run \in 1 .. Started' /\ heard'[reaper'.unclaimed[q].run] = <<>>
      <4> SUFFICES ASSUME NEW q \in Pid, Unclaimed(q)
                   PROVE  /\ reaper.unclaimed[q].run \in 1 .. Started
                          /\ heard'[reaper.unclaimed[q].run] = <<>>
        BY <2>5, <2>6, <3>2
      <4>1. /\ reaper.unclaimed[q].run \in 1 .. Started /\ heard[reaper.unclaimed[q].run] = <<>>
            /\ reaper.unclaimed[q].run # n
        BY <1>6, <3>2
      <4> QED
        BY <2>6, <4>1
    <3> QED
      BY <1>6, <2>5, <3>1, <3>2, <3>3, <3>4, <3>5 DEF OnePlace
  <2>11. Listening'
    <3>1. \A q \in Pid : reaper'.listeners[q] # 0 => q # p /\ reaper'.listeners[q] = reaper.listeners[q]
      BY <2>3, <2>5
    <3> QED
      BY <1>4, <1>7, <3>1 DEF Listening
  <2>12. OwnExit'
    BY <2>6 DEF ChildState, Children, OwnExit
  <2>13. \A q \in Pid : q # p => \A a, b : Ahead(q, a, b)' <=> Ahead(q, a, b)
    BY <1>4, <2>3, <2>5 DEF Ahead
  <2>14. \A a, b : ~Ahead(p, a, b)
    BY <1>0, <1>8 DEF Ahead
  <2>15. Spawning'
    <3> SUFFICES ASSUME NEW t \in Task PROVE SpawningAt(t)'
      BY DEF Spawning
    <3>1. SpawningAt(t) /\ Spawned(t)' = Spawned(t)
      BY <1>7, <2>8 DEF Spawned
    <3>2. task[t].pid \in Pid \cup {0} /\ task[t].mark \in Nat
      BY <1>1 DEF Handler
    <3> QED
      <4>1. CASE task[t].step # "forked"
        BY <2>8, <3>1, <4>1 DEF SpawningAt
      <4>2. CASE task[t].step = "forked"
        <5>1. /\ task[t].pid \in Pid /\ task[t].pid # p
              /\ Ahead(task[t].pid, task[t].mark, Spawned(t))
          BY <2>14, <3>1, <3>2, <4>2 DEF SpawningAt
        <5>2. Ahead(task[t].pid, task[t].mark, Spawned(t))'
          BY <2>8, <2>13, <3>1, <5>1
        <5>3. task'[t].mark <= reaper'.reaped
          BY <1>2, <2>5, <2>8, <3>1, <3>2, <4>2 DEF SpawningAt
        <5> QED
          BY <2>8, <3>1, <4>2, <5>2, <5>3 DEF SpawningAt
      <4> QED
        BY <4>1, <4>2
  <2>16. Apart'
    BY <2>8 DEF ChildState, Children, Apart, HoldsPid, ChildAt
  <2>17. Known'
    <3> SUFFICES ASSUME NEW t \in Task PROVE KnownAt(t)'
      BY DEF Known
    <3>1. KnownAt(t)
      BY <1>7
    <3>2. task[t].child \in Pid \cup {0}
      BY <1>1 DEF Handler
    <3>3. /\ task[t].child = p \/ task[t].child = 0 \/ reaper'.listeners[task[t].child] = reaper.listeners[task[t].child]
          /\ reaper.listeners[p] = n
      BY <1>0, <2>3, <2>5, <3>2
    <3> QED
      BY <2>8, <2>13, <2>14, <3>1, <3>2, <3>3 DEF KnownAt
  <2> QED
    BY <1>5, <2>9, <2>10, <2>11, <2>12, <2>15, <2>16, <2>17 DEF ChildState, Children
<1>9. CASE n = 0
  <2> DEFINE o == [reaper.unclaimed EXCEPT ![p] = [place |-> reaper.reaped, run |-> m]]
             next == reaper.reaped + 1
  <2>1. /\ reaper' = [reaper EXCEPT !.reaped = next, !.unclaimed = o]
        /\ heard' = heard /\ task' = task
    BY <1>0, <1>1, <1>9 DEF Reap, ReaperState
  <2>2. /\ o \in [Pid -> [place : Int, run : Nat]] /\ o[p].place = reaper.reaped /\ o[p].run = m
        /\ \A q \in Pid : q # p => o[q] = reaper.unclaimed[q]
        /\ next \in Nat
    BY <1>2
  <2> HIDE DEF o, next
  <2>3. /\ reaper' \in ReaperState /\ reaper'.unclaimed = o /\ reaper'.listeners = reaper.listeners
        /\ reaper'.reaped = reaper.reaped + 1
    <3>1. reaper' \in ReaperState
      BY <1>1, <2>1, <2>2 DEF ReaperState
    <3>2. /\ reaper'.unclaimed = o /\ reaper'.listeners = reaper.listeners
          /\ reaper'.reaped = next
      BY <1>1, <2>1 DEF ReaperState
    <3> QED
      BY <3>1, <3>2 DEF next
  <2>4. ChildTypes'
    BY <1>1, <1>4, <2>1, <2>3 DEF ChildTypes
  <2>5. /\ Started' = Started
        /\ \A q \in Pid : Unclaimed(q)' <=> (q = p \/ Unclaimed(q))
        /\ \A q \in Pid : Occupied(q)' => Occupied(q) /\ q # p /\ procs'[q].run = procs[q].run
    BY <1>2, <1>4, <2>1, <2>2, <2>3 DEF Unclaimed, Started
  <2>6. OnePlace'
    <3>1. \A q \in Pid : reaper'.unclaimed[q].place < reaper'.reaped
      <4> SUFFICES ASSUME NEW q \in Pid PROVE reaper'.unclaimed[q].place < reaper'.reaped
        OBVIOUS
      <4>1. CASE q = p
        BY <1>2, <2>2, <2>3, <4>1
      <4>2. CASE q # p
        <5>1. reaper'.unclaimed[q].place = reaper.unclaimed[q].place
          BY <2>2, <2>3, <4>2
        <5> QED
          BY <1>2, <1>6, <2>3, <5>1
      <4> QED
        BY <4>1, <4>2
    <3>2. \A q \in Pid : Occupied(q)' =>
            procs'[q].run \in 1 .. Started' /\ heard'[procs'[q].run] = <<>>
      BY <1>6, <2>1, <2>5
    <3>3. /\ reaper'.unclaimed[p].run = m
          /\ \A q \in Pid : q # p => reaper'.unclaimed[q] = reaper.unclaimed[q]
      BY <2>2, <2>3
    <3>4. \A q \in Pid : Unclaimed(q)' =>
            reaper'.unclaimed[q].run \in 1 .. Started' /\ heard'[reaper'.unclaimed[q].run] = <<>>
      BY <1>3, <1>6, <2>1, <2>5, <3>3
    <3>5. \A q \in Pid : /\ Occupied(q) /\ q # p => procs[q].run # m
                         /\ Unclaimed(q) => reaper.unclaimed[q].run # m
      BY <1>0, <1>3, <1>6
    <3>6. /\ \A q, u \in Pid :
               Occupied(q)' /\ Occupied(u)' /\ procs'[q].run = procs'[u].run => q = u
          /\ \A q, u \in Pid :
               Unclaimed(q)' /\ Unclaimed(u)' /\ reaper'.unclaimed[q].run = reaper'.unclaimed[u].run
               => q = u
          /\ \A q, u \in Pid :
               Occupied(q)' /\ Unclaimed(u)' => procs'[q].run # reaper'.unclaimed[u].run
      BY <1>6, <2>5, <3>3, <3>5
    <3> QED
      BY <3>1, <3>2, <3>4, <3>6 DEF OnePlace
  <2>7. Listening'
    BY <1>0, <1>4, <1>7, <1>9, <2>3 DEF Listening
  <2>8. OwnExit'
    BY <2>1, <2>5 DEF ChildState, Children, OwnExit
  <2>9. \A q \in Pid : q # p => \A a, b : Ahead(q, a, b)' <=> Ahead(q, a, b)
    BY <1>4, <2>2, <2>3 DEF Ahead
  <2>10. \A a \in Nat : \A b : Ahead(p, a, b) /\ a <= reaper.reaped => Ahead(p, a, b)'
    BY <1>0, <1>2, <1>3, <1>4, <1>9, <2>2, <2>3 DEF Ahead
  <2>11. Spawning'
    <3> SUFFICES ASSUME NEW t \in Task PROVE SpawningAt(t)'
      BY DEF Spawning
    <3>1. SpawningAt(t) /\ Spawned(t)' = Spawned(t)
      BY <1>7, <2>1 DEF Spawned
    <3>2. task[t].pid \in Pid \cup {0} /\ task[t].mark \in Nat
      BY <1>1 DEF Handler
    <3> QED
      BY <1>2, <2>1, <2>3, <2>9, <2>10, <3>1, <3>2 DEF SpawningAt
  <2>12. Apart'
    BY <2>1 DEF ChildState, Children, Apart, HoldsPid, ChildAt
  <2>13. Known'
    <3> SUFFICES ASSUME NEW t \in Task PROVE KnownAt(t)'
      BY DEF Known
    <3>1. KnownAt(t)
      BY <1>7
    <3>2. task[t].child \in Pid \cup {0} /\ 0 \in Nat /\ 0 <= reaper.reaped
      BY <1>1, <1>2 DEF Handler
    <3> QED
      BY <2>1, <2>3, <2>9, <2>10, <3>1, <3>2 DEF KnownAt
  <2> QED
    BY <1>5, <2>4, <2>6, <2>7, <2>8, <2>11, <2>12, <2>13 DEF ChildState, Children
<1> QED
  BY <1>2, <1>8, <1>9

\* What a handler is asked to do, and whether the reaper is paused, is nothing to a child.
LEMMA SameChildren ==
  ASSUME ChildState, UNCHANGED <<procs, heard>>, reaper' \in ReaperState,
         reaper'.listeners = reaper.listeners, reaper'.unclaimed = reaper.unclaimed,
         reaper'.reaped = reaper.reaped, task' \in [Task -> Handler],
         \A t \in Task :
           /\ task'[t].step = task[t].step /\ task'[t].kind = task[t].kind
           /\ task'[t].mark = task[t].mark /\ task'[t].pid = task[t].pid
           /\ task'[t].child = task[t].child /\ task'[t].run = task[t].run
           /\ task'[t].exited = task[t].exited /\ task'[t].exits = task[t].exits
           /\ task'[t].command = task[t].command /\ task'[t].frozen = task[t].frozen
           /\ task'[t].adopt = task[t].adopt
  PROVE  ChildState'
<1>1. ChildTypes'
  BY DEF ChildState, ChildTypes
<1>2. OnePlace' /\ Listening' /\ OwnExit'
  BY DEF ChildState, Children, OnePlace, Listening, OwnExit, Started, Occupied, Unclaimed
<1>3. \A p, mark, n : Ahead(p, mark, n)' <=> Ahead(p, mark, n)
  BY DEF Ahead, Occupied
<1>4. Spawning'
  BY <1>3 DEF ChildState, Children, Spawning, SpawningAt, Spawned
<1>5. Apart'
  BY DEF ChildState, Children, Apart, HoldsPid, ChildAt
<1>6. Known'
  BY <1>3 DEF ChildState, Children, Known, KnownAt
<1> QED
  BY <1>1, <1>2, <1>4, <1>5, <1>6 DEF ChildState, Children

\* When the kernel has answered the freeze, no handler has anything in flight.
LEMMA AllHeld ==
  ASSUME ChildState, Types, Numbers, TasksHeld, KernelFrozen, NEW t \in Task
  PROVE  /\ task[t].step # "forked" /\ task[t].pid = 0 /\ ~task[t].adopt
         /\ task[t].step = "none" => task[t].child = 0
         /\ task[t].child # 0 /\ ~task[t].exited =>
              /\ task[t].child \in Pid /\ task[t].run # 0 /\ Occupied(task[t].child)
              /\ procs[task[t].child].run = task[t].run
<1>1. task[t] \in Handler /\ KnownAt(t) /\ SpawningAt(t)
  BY DEF ChildState, ChildTypes, Children, Known, Spawning
<1>2. t \in Tasks => task[t].frozen /\ task[t].exits = <<>> /\ task[t].step = "idle" /\ ~task[t].adopt
  BY DEF KernelFrozen, TasksHeld, HeldAt
<1>3. t \notin Tasks => task[t].step = "none" /\ task[t].child = 0 /\ ~task[t].adopt
  BY <1>1 DEF Tasks, KnownAt, Handler
<1>4. task[t].step # "forked" /\ task[t].pid = 0 /\ ~task[t].adopt
  BY <1>1, <1>2, <1>3 DEF SpawningAt
<1>5. task[t].step = "none" => task[t].child = 0
  BY <1>1 DEF KnownAt
<1>6. task[t].child # 0 /\ ~task[t].exited =>
        /\ task[t].child \in Pid /\ task[t].run # 0
        /\ reaper.listeners[task[t].child] = task[t].run
  BY <1>1, <1>2, <1>3 DEF KnownAt, Handler
<1> QED
  BY <1>4, <1>5, <1>6 DEF ChildState, Children, Listening

\* A new image has a new reaper, and adopts every child whose exit the snapshot has not.
LEMMA ExecKept ==
  ASSUME ChildState, Types, Numbers, TasksHeld, Exec
  PROVE  ChildState'
<1>1. /\ KernelFrozen /\ UNCHANGED <<procs, heard>> /\ reaper' = NewReaper
      /\ task' = [t \in Task |-> [task[t] EXCEPT !.frozen = FALSE, !.exits = <<>>,
                                                 !.adopt = task[t].child # 0]]
  BY DEF Exec
<1>2. task \in [Task -> Handler] /\ <<>> \in Seq(Nat) /\ 0 \notin Pid
  BY ReaperAssumption DEF ChildState, ChildTypes
<1>3. ASSUME NEW t \in Task
      PROVE  /\ task'[t] \in Handler
             /\ task'[t].step = task[t].step /\ task'[t].pid = task[t].pid
             /\ task'[t].child = task[t].child /\ task'[t].run = task[t].run
             /\ task'[t].exited = task[t].exited /\ task'[t].adopt = (task[t].child # 0)
  <2> DEFINE a == task[t].child # 0
             h == [task[t] EXCEPT !.frozen = FALSE, !.exits = <<>>, !.adopt = a]
  <2>1. task'[t] = h /\ task[t] \in Handler /\ a \in BOOLEAN
    BY <1>1, <1>2
  <2> HIDE DEF a
  <2>2. /\ h \in Handler /\ h.step = task[t].step /\ h.pid = task[t].pid
        /\ h.child = task[t].child /\ h.run = task[t].run
        /\ h.exited = task[t].exited /\ h.adopt = a
    BY <1>2, <2>1 DEF Handler
  <2> QED
    BY <2>1, <2>2 DEF a
<1>4. reaper' \in ReaperState /\ reaper'.listeners = [p \in Pid |-> 0]
      /\ \A p \in Pid : reaper'.unclaimed[p].place = -1
      /\ reaper'.reaped = 0
  <2> DEFINE l == [p \in Pid |-> 0]
             o == [p \in Pid |-> [place |-> -1, run |-> 0]]
  <2>1. l \in [Pid -> Nat] /\ o \in [Pid -> [place : Int, run : Nat]]
        /\ \A p \in Pid : o[p].place = -1
    OBVIOUS
  <2>2. reaper' = [listeners |-> l, unclaimed |-> o, reaped |-> 0, paused |-> FALSE]
    BY <1>1 DEF NewReaper
  <2>3. l = [p \in Pid |-> 0]
    OBVIOUS
  <2> HIDE DEF l, o
  <2> QED
    BY <2>1, <2>2, <2>3 DEF ReaperState
<1>5. ChildTypes'
  <2>1. task' \in [Task -> Handler]
    BY <1>1, <1>3
  <2> QED
    BY <1>1, <1>4, <2>1 DEF ChildState, ChildTypes
<1>6. \A p \in Pid : ~Unclaimed(p)' /\ (Occupied(p)' <=> Occupied(p))
  <2>1. \A p \in Pid : Occupied(p)' <=> Occupied(p)
    BY <1>1 DEF Occupied
  <2>2. \A p \in Pid : ~Unclaimed(p)'
    BY <1>4 DEF Unclaimed
  <2> QED
    BY <2>1, <2>2
<1>7. OnePlace'
  <2>1. \A p \in Pid : reaper'.unclaimed[p].place < reaper'.reaped
    BY <1>4
  <2> QED
    BY <1>1, <1>6, <2>1 DEF ChildState, Children, OnePlace, Started
<1>8. Listening' /\ OwnExit'
  BY <1>1, <1>4 DEF ChildState, Children, Listening, OwnExit, Started
<1>9. \A t \in Task :
        /\ task[t].step # "forked" /\ task[t].pid = 0
        /\ task[t].step = "none" => task[t].child = 0
        /\ task[t].child # 0 /\ ~task[t].exited =>
             /\ task[t].child \in Pid /\ task[t].run # 0 /\ Occupied(task[t].child)
             /\ procs[task[t].child].run = task[t].run
  BY <1>1, AllHeld
<1>10. Spawning'
  BY <1>3, <1>9 DEF Spawning, SpawningAt
<1>11. Apart'
  BY <1>3 DEF ChildState, Children, Apart, HoldsPid, ChildAt
<1>12. Known'
  <2> SUFFICES ASSUME NEW t \in Task PROVE KnownAt(t)'
    BY DEF Known
  <2>1. task[t].child # 0 /\ ~task[t].exited => Ahead(task[t].child, 0, task[t].run)'
    <3> SUFFICES ASSUME task[t].child # 0, ~task[t].exited
                 PROVE  Ahead(task[t].child, 0, task[t].run)'
      OBVIOUS
    <3>0. PICK p, n : p = task[t].child /\ n = task[t].run
      OBVIOUS
    <3>1. p \in Pid /\ Occupied(p) /\ procs[p].run = n
      BY <3>0, <1>9
    <3>2. task'[t].child = p /\ task'[t].run = n
      BY <3>0, <1>3
    <3>3. /\ reaper'.listeners[p] = 0 /\ reaper'.unclaimed[p].place < 0
          /\ Occupied(p)' /\ procs'[p].run = n
      <4>1. reaper'.listeners[p] = 0
        BY <1>4, <3>1
      <4>2. reaper'.unclaimed[p].place = -1
        BY <1>4, <3>1
      <4>3. Occupied(p)' /\ procs' = procs
        BY <1>1, <1>6, <3>1
      <4> QED
        BY <3>1, <4>1, <4>2, <4>3
    <3> QED
      BY <3>2, <3>3 DEF Ahead
  <2> QED
    BY <1>3, <1>9, <2>1 DEF KnownAt
<1> QED
  BY <1>5, <1>7, <1>8, <1>10, <1>11, <1>12 DEF ChildState, Children

\* The kills of a resume that failed reach children that are not reaped.
LEMMA FailsKept ==
  ASSUME ChildState, Types, Numbers, TasksHeld, ResumeFails
  PROVE  ChildState' /\ \A p \in Pid : procs[p].st = "free" => procs'[p].st # "zombie"
<1>1. /\ KernelFrozen /\ UNCHANGED <<reaper, task, heard>> /\ procs \in [Pid -> Process]
      /\ procs' = [p \in Pid |->
           IF \E t \in Task : task[t].child = p /\ ~task[t].exited
           THEN [procs[p] EXCEPT !.st = "zombie"] ELSE procs[p]]
      /\ 0 \notin Pid
  BY ReaperAssumption DEF ResumeFails, ChildState, ChildTypes
<1>2. \A p \in Pid : (\E t \in Task : task[t].child = p /\ ~task[t].exited) => Occupied(p)
  BY <1>1, AllHeld
<1>3. \A p \in Pid : procs[p] \in Process
  BY <1>1
<1>4. \A p \in Pid : \/ procs'[p] = procs[p]
                     \/ procs'[p] = [procs[p] EXCEPT !.st = "zombie"] /\ Occupied(p)
  BY <1>1, <1>2
<1>5. procs' \in [Pid -> Process]
  <2>1. \A p \in Pid : procs'[p] \in Process
    BY <1>3, <1>4 DEF Process
  <2> QED
    BY <1>1, <2>1
<1>6. /\ \A p \in Pid : procs'[p].run = procs[p].run /\ (procs'[p].st = "free" <=> procs[p].st = "free")
      /\ \A p \in Pid : procs[p].st = "free" => procs'[p].st # "zombie"
  BY <1>3, <1>4 DEF Process, Occupied
<1> QED
  BY <1>1, <1>5, <1>6, ProcsOnly

\* What comes last stays last when the first is taken.
LEMMA LastOfTail ==
  ASSUME NEW S, NEW s \in Seq(S), s # <<>>
  PROVE  /\ Tail(s) \in Seq(S) /\ Head(s) \in S
         /\ Tail(s) # <<>> => Tail(s)[Len(Tail(s))] = s[Len(s)]
         /\ Tail(s) = <<>> => Head(s) = s[Len(s)]
<1>1. Len(s) \in Nat \ {0} /\ Tail(s) \in Seq(S) /\ Len(Tail(s)) = Len(s) - 1 /\ Head(s) = s[1]
      /\ Head(s) \in S
  OBVIOUS
<1>2. \A i \in 1 .. Len(Tail(s)) : Tail(s)[i] = s[i + 1]
  OBVIOUS
<1>3. ASSUME Tail(s) # <<>> PROVE Tail(s)[Len(Tail(s))] = s[Len(s)]
  <2>1. Len(Tail(s)) \in 1 .. Len(Tail(s))
    BY <1>1, <1>3
  <2> QED
    BY <1>1, <1>2, <2>1
<1>4. Tail(s) = <<>> => Len(Tail(s)) = 0
  <2>1. Len(<<>>) = 0
    OBVIOUS
  <2> QED
    BY <2>1
<1> QED
  BY <1>1, <1>3, <1>4

\* What is appended comes last.
LEMMA LastOfAppend ==
  ASSUME NEW S, NEW s \in Seq(S), NEW e \in S
  PROVE  /\ Append(s, e) \in Seq(S) /\ Append(s, e) # <<>>
         /\ Append(s, e)[Len(Append(s, e))] = e
<1>1. Append(s, e) \in Seq(S) /\ Len(Append(s, e)) = Len(s) + 1 /\ Len(s) \in Nat
  OBVIOUS
<1>2. Append(s, e)[Len(s) + 1] = e
  OBVIOUS
<1> QED
  BY <1>1, <1>2

\* A task that obeyed has nothing to do, and one that has not keeps the freeze.
LEMMA TaskHeld ==
  ASSUME ChildState, NEW t \in Task, HeldAt(t), TaskStep(t) \/ Forget(t)
         \/ \E kind \in {"child", "command"} : Fork(t, kind)
  PROVE  HeldAt(t)' /\ task'[t].step # "none"
<1>1. /\ task \in [Task -> Handler] /\ task[t] \in Handler /\ task[t].cmds \in Seq({"Freeze", "Thaw"})
      /\ KnownAt(t)
  BY DEF ChildState, ChildTypes, Handler, Children, Known
<1>2. CASE Register(t)
  <2>1. task'[t].cmds = task[t].cmds /\ task'[t].step = "idle" /\ task[t].step = "forked"
    BY <1>1, <1>2 DEF Register, Handler
  <2> QED
    BY <2>1 DEF HeldAt
<1>3. CASE Adopt(t)
  <2>1. task'[t].cmds = task[t].cmds /\ task'[t].step = task[t].step /\ task[t].adopt
    <3>1. task[t].adopt /\ \/ task' = [task EXCEPT ![t].adopt = FALSE]
                            \/ \E x : task' = [task EXCEPT ![t].adopt = FALSE, ![t].exits = x]
      BY <1>3 DEF Adopt
    <3>2. CASE task' = [task EXCEPT ![t].adopt = FALSE]
      BY <1>1, <3>1, <3>2 DEF Handler
    <3>3. ASSUME NEW x, task' = [task EXCEPT ![t].adopt = FALSE, ![t].exits = x]
          PROVE  task'[t].cmds = task[t].cmds /\ task'[t].step = task[t].step
      BY <1>1, <3>3 DEF Handler
    <3> QED
      BY <3>1, <3>2, <3>3
  <2> QED
    BY <1>1, <2>1 DEF HeldAt, KnownAt
<1>4. CASE TakeExit(t)
  <2>1. /\ task'[t].cmds = task[t].cmds /\ task'[t].step = task[t].step /\ task[t].exits # <<>>
        /\ task[t].step = "idle"
    BY <1>1, <1>4 DEF TakeExit, Acts, Handler
  <2> QED
    BY <2>1 DEF HeldAt
<1>5. CASE OutputEnds(t)
  <2>1. /\ task'[t].cmds = task[t].cmds /\ task'[t].step = task[t].step /\ ~task[t].frozen
        /\ task[t].step = "idle"
    BY <1>1, <1>5 DEF OutputEnds, Acts, Handler
  <2> QED
    BY <2>1 DEF HeldAt
<1>6. CASE FreezeTask(t)
  <2>1. /\ task' = [task EXCEPT ![t] = FrozenTask(task[t])]
        /\ task[t].cmds # <<>> /\ task[t].step = "idle" /\ ~task[t].adopt
    BY <1>6 DEF FreezeTask, Acts
  <2>2. task'[t] = FrozenTask(task[t])
    BY <1>1, <2>1
  <2>3. /\ task'[t].cmds = Tail(task[t].cmds) /\ task'[t].step = "idle" /\ ~task'[t].adopt
        /\ task'[t].frozen /\ task'[t].exits = <<>>
    BY <1>1, <2>1, <2>2 DEF FrozenTask, Handler
  <2>4. Tail(task[t].cmds) # <<>> =>
          Tail(task[t].cmds)[Len(Tail(task[t].cmds))] = task[t].cmds[Len(task[t].cmds)]
    BY <1>1, <2>1, LastOfTail
  <2> QED
    BY <2>1, <2>3, <2>4 DEF HeldAt
<1>7. CASE ThawTask(t)
  <2>1. /\ task'[t].cmds = Tail(task[t].cmds) /\ task'[t].step = "idle"
        /\ task[t].cmds # <<>> /\ Head(task[t].cmds) = "Thaw"
    BY <1>1, <1>7 DEF ThawTask, Acts, Handler
  <2> QED
    BY <1>1, <2>1, LastOfTail DEF HeldAt
<1>8. CASE Forget(t)
  <2>1. /\ task'[t].cmds = task[t].cmds /\ task'[t].step = "idle" /\ task[t].step = "idle"
        /\ task'[t].frozen = task[t].frozen /\ task'[t].exits = task[t].exits
        /\ task'[t].adopt = task[t].adopt
    BY <1>1, <1>8 DEF Forget, Acts, Handler
  <2> QED
    BY <2>1 DEF HeldAt
<1>9. ASSUME NEW kind \in {"child", "command"}, Fork(t, kind) PROVE HeldAt(t)' /\ task'[t].step # "none"
  <2>1. /\ task'[t].cmds = task[t].cmds /\ task'[t].step = "forked" /\ ~task[t].frozen
    <3>1. ~task[t].frozen /\ \E p, m, r, x :
            task' = [task EXCEPT ![t].step = "forked", ![t].kind = kind, ![t].pid = p,
                       ![t].mark = m, ![t].run = r, ![t].command = x]
      <4>1. PICK p \in Pid :
              task' = [task EXCEPT ![t].step = "forked", ![t].kind = kind, ![t].pid = p,
                         ![t].mark = reaper.reaped,
                         ![t].run = IF kind = "child" THEN Started + 1 ELSE @,
                         ![t].command = IF kind = "child" THEN @ ELSE Started + 1]
        BY <1>9 DEF Fork
      <4> DEFINE r == IF kind = "child" THEN Started + 1 ELSE task[t].run
                 x == IF kind = "child" THEN task[t].command ELSE Started + 1
      <4>2. task' = [task EXCEPT ![t].step = "forked", ![t].kind = kind, ![t].pid = p,
                       ![t].mark = reaper.reaped, ![t].run = r, ![t].command = x]
        BY <1>1, <4>1 DEF Handler
      <4> QED
        BY <1>9, <4>2 DEF Fork
    <3>2. PICK p, m, r, x :
            task' = [task EXCEPT ![t].step = "forked", ![t].kind = kind, ![t].pid = p,
                       ![t].mark = m, ![t].run = r, ![t].command = x]
      BY <3>1
    <3> QED
      BY <1>1, <3>1, <3>2 DEF Handler
  <2> QED
    BY <2>1 DEF HeldAt
<1> QED
  BY <1>2, <1>3, <1>4, <1>5, <1>6, <1>7, <1>8, <1>9 DEF TaskStep

\* While the reaper is paused, a registration leaves it so, and no one is handed an exit.
LEMMA ReaperHeld ==
  ASSUME ChildState, TasksHeld, ReaperStep
  PROVE  TasksHeld'
<1>0. /\ UNCHANGED <<kern, up>> /\ task \in [Task -> Handler] /\ reaper \in ReaperState
  BY DEF ReaperStep, ChildState, ChildTypes
<1> SUFFICES ASSUME up.stage = "kernel" PROVE TasksHeld'
  BY <1>0 DEF TasksHeld
<1>1. reaper.paused
  BY DEF TasksHeld
<1>2. CASE \E p \in Pid : Exit(p)
  BY <1>0, <1>2 DEF TasksHeld, Exit, Tasks, HeldAt
<1>3. CASE \E p \in Pid : Reap(p)
  BY <1>1, <1>3 DEF Reap
<1>4. CASE \E t \in Task : Kill(t)
  BY <1>0, <1>4 DEF TasksHeld, Kill, Tasks, HeldAt
<1>5. ASSUME NEW t \in Task, TaskStep(t) \/ Forget(t)
         \/ \E kind \in {"child", "command"} : Fork(t, kind)
      PROVE  TasksHeld'
  <2>1. reaper'.paused = reaper.paused
    <3>1. \A p, mark, n : wait_for(p, mark, n).reaper.paused = reaper.paused
      BY <1>0 DEF wait_for, ReaperState
    <3>2. CASE Register(t)
      <4>1. reaper' = wait_for(task[t].pid, task[t].mark,
                               IF task[t].kind = "child" THEN task[t].run ELSE task[t].command).reaper
        BY <3>2 DEF Register
      <4> QED
        BY <3>1, <4>1
    <3>3. CASE Adopt(t)
      <4>1. reaper' = reaper \/ reaper' = wait_for(task[t].child, 0, task[t].run).reaper
        BY <3>3 DEF Adopt
      <4> QED
        BY <3>1, <4>1
    <3>4. CASE ~Register(t) /\ ~Adopt(t)
      BY <1>5, <3>4 DEF TaskStep, TakeExit, OutputEnds, FreezeTask, ThawTask, Forget, Fork
    <3> QED
      BY <3>2, <3>3, <3>4
  <2>2. \A u \in Task : u # t => task'[u] = task[u]
    <3>1. CASE TaskStep(t)
      BY <1>0, <3>1 DEF TaskStep, Register, Adopt, TakeExit, OutputEnds, FreezeTask, ThawTask
    <3>2. CASE Forget(t) \/ \E kind \in {"child", "command"} : Fork(t, kind)
      BY <1>0, <3>2 DEF Forget, Fork
    <3> QED
      BY <1>5, <3>1, <3>2
  <2>3. task[t].step # "none"
    <3>1. KnownAt(t)
      BY DEF ChildState, Children, Known
    <3> QED
      BY <1>5, <3>1 DEF TaskStep, Register, Adopt, TakeExit, OutputEnds, FreezeTask, ThawTask, Forget, Fork,
        Acts, KnownAt
  <2>4. HeldAt(t) => HeldAt(t)' /\ task'[t].step # "none"
    BY <1>5, TaskHeld
  <2>5. \A u \in Task : u # t => (HeldAt(u)' <=> HeldAt(u))
    BY <2>2 DEF HeldAt
  <2> QED
    BY <1>0, <2>1, <2>2, <2>3, <2>4, <2>5 DEF TasksHeld, Tasks
<1> QED
  BY <1>2, <1>3, <1>4, <1>5 DEF ReaperStep

-----------------------------------------------------------------------------
(* What the steps of the connections leave alone *)

\* A step that is neither about a freeze nor the end of the connection.
Calm(k, h) ==
  /\ h.ctl = k.ctl /\ h.reply = k.reply
  /\ h.at = "freezing" => k.at = "freezing"
  /\ RunsNone(k) => RunsNone(h)
  /\ k.hung => h.hung
  /\ h.closing => k.closing \/ h.hung
  /\ k.frozen /\ ~h.hung /\ ~k.closing /\ k.running = {} /\ k.at \in {"rpc", "session", "finish"} =>
       h.frozen /\ h.running = {} /\ h.at = k.at /\ carried(h) = carried(k)

\* The kernel is asked for no freeze.
KernCalm ==
  /\ kern'.freeze = kern.freeze /\ kern'.over = kern.over
  /\ \/ kern'.queue = kern.queue
     \/ \E e \in KernelMsg : e[1] # "Freeze" /\ kern'.queue = Append(kern.queue, e)

Moves(c) ==
  /\ \A d \in Client : d # c => conn'[d] = conn[d]
  /\ Calm(conn[c], conn'[c]) \/ conn'[c] = Gone(conn[c])
  /\ Here(conn'[c]) => Here(conn[c]) \/ ~paused
  /\ KernCalm

\* What comes from a client is none, nor is the accept loop,
LEMMA ComingCalm ==
  ASSUME ConnTypes, NEW c \in Client,
         \/ Connect(c) \/ HangUp(c) \/ Accept(c) \/ SessionTimeout(c) \/ Verdict(c)
         \/ \E kind \in {"call", "quit", "wait", "upgrade"} : AskFor(c, kind)
  PROVE  Moves(c)
<1>0. conn \in [Client -> Connection] /\ conn[c] \in Connection /\ kern \in KernelState
  BY DEF ConnTypes
<1>1. CASE Connect(c)
  <2>1. \E q : conn' = [conn EXCEPT ![c] = [conn[c] EXCEPT !.at = "backlog", !.sock = q]]
    BY <1>0, <1>1 DEF Connect
  <2>2. kern' = kern /\ conn[c].at = "away"
    BY <1>1 DEF Connect
  <2> QED
    BY <1>0, <2>1, <2>2 DEF Moves, Calm, KernCalm, RunsNone, Here, Connection
<1>2. CASE HangUp(c)
  <2>1. conn' = [conn EXCEPT ![c] = [conn[c] EXCEPT !.hung = TRUE]] /\ kern' = kern
    BY <1>0, <1>2 DEF HangUp
  <2> QED
    BY <1>0, <2>1 DEF Moves, Calm, KernCalm, RunsNone, Here, Connection
<1>3. CASE Accept(c)
  <2>1. /\ conn' = [conn EXCEPT ![c] = [conn[c] EXCEPT !.at = "rpc"]] /\ kern' = kern
        /\ conn[c].at = "backlog" /\ ~paused
    BY <1>0, <1>3 DEF Accept
  <2> QED
    BY <1>0, <2>1 DEF Moves, Calm, KernCalm, RunsNone, Here, Connection
<1>4. CASE SessionTimeout(c)
  <2>1. \E o : conn' = [conn EXCEPT ![c] = [conn[c] EXCEPT !.at = "finish", !.out = o]]
    BY <1>0, <1>4 DEF SessionTimeout
  <2>2. kern' = [kern EXCEPT !.waits = @ \ {c}] /\ conn[c].at = "session" /\ ~conn[c].frozen
    BY <1>4 DEF SessionTimeout
  <2>3. KernCalm
    BY <1>0, <2>2 DEF KernCalm, KernelState
  <2> QED
    BY <1>0, <2>1, <2>2, <2>3 DEF Moves, Calm, RunsNone, Here, Connection
<1>5. CASE Verdict(c)
  <2>1. \E e : conn' = [conn EXCEPT ![c] = [conn[c] EXCEPT !.events = e]]
    BY <1>0, <1>5 DEF Verdict
  <2>2. kern' = [kern EXCEPT !.waits = @ \ {c}]
    BY <1>5 DEF Verdict
  <2>3. KernCalm
    BY <1>0, <2>2 DEF KernCalm, KernelState
  <2> QED
    BY <1>0, <2>1, <2>3 DEF Moves, Calm, RunsNone, Here, Connection, carried
<1>6. ASSUME NEW kind \in {"call", "quit", "wait", "upgrade"}, AskFor(c, kind)
      PROVE  Moves(c)
  <2> DEFINE n == conn[c].sent + 1
             q == Append(conn[c].sock, <<kind, n>>)
  <2>1. conn' = [conn EXCEPT ![c] = [conn[c] EXCEPT !.sent = n, !.sock = q]]
    BY <1>0, <1>6 DEF AskFor
  <2> HIDE DEF n, q
  <2>2. kern' = kern
    BY <1>6 DEF AskFor
  <2> QED
    BY <1>0, <2>1, <2>2 DEF Moves, Calm, KernCalm, RunsNone, Here, Connection, carried
<1> QED
  BY <1>1, <1>2, <1>3, <1>4, <1>5, <1>6

\* nor what a request does to its connection,
LEMMA TakenCalm ==
  ASSUME NEW k, Conn(k), k.at = "rpc", kern \in KernelState, NEW c \in Client, NEW msg \in Msg
  PROVE  /\ Taken(k, c, msg).conn.ctl = k.ctl /\ Taken(k, c, msg).conn.reply = k.reply
         /\ Taken(k, c, msg).conn.at \in {"rpc", "drain"}
         /\ Taken(k, c, msg).conn.hung = k.hung
         /\ Taken(k, c, msg).conn.closing = k.closing
         /\ kern' = Taken(k, c, msg).kern => KernCalm
<1>0. /\ k \in Connection /\ msg[2] \in Nat
      /\ msg[1] \in {"hello", "call", "quit", "wait", "upgrade"}
  BY DEF Conn, Msg
<1>1. CASE msg[1] = "hello"
  <2>1. Taken(k, c, msg) = [conn |-> [k EXCEPT !.hello = TRUE, !.out = Append(@, msg)], kern |-> kern]
    BY <1>1 DEF Taken
  <2>2. Taken(k, c, msg).conn = [k EXCEPT !.hello = TRUE, !.out = Append(@, msg)]
        /\ Taken(k, c, msg).kern = kern
    BY <2>1
  <2> QED
    BY <1>0, <2>2 DEF KernCalm, Connection
<1>2. CASE msg[1] \in {"call", "quit"}
  <2> DEFINE e == <<msg[1], c, msg[2]>>
  <2>1. Taken(k, c, msg) = [conn |-> [k EXCEPT !.running = @ \cup {msg[2]}], kern |-> Queue(kern, e)]
    BY <1>2 DEF Taken, Handle
  <2>2. e \in KernelMsg /\ e[1] # "Freeze"
    BY <1>0, <1>2 DEF KernelMsg
  <2> HIDE DEF e
  <2>3. kern' = Queue(kern, e) => KernCalm
    BY <2>2 DEF KernCalm, Queue, KernelState
  <2>4. Taken(k, c, msg).conn = [k EXCEPT !.running = @ \cup {msg[2]}]
        /\ Taken(k, c, msg).kern = Queue(kern, e)
    BY <2>1
  <2> QED
    BY <1>0, <2>3, <2>4 DEF Connection
<1>3. CASE msg[1] = "wait"
  <2>1. Taken(k, c, msg) = [conn |-> [k EXCEPT !.at = "drain", !.wait = msg[2], !.dropped = k.upgrade],
                            kern |-> kern]
    BY <1>3 DEF Taken
  <2>2. /\ Taken(k, c, msg).conn = [k EXCEPT !.at = "drain", !.wait = msg[2], !.dropped = k.upgrade]
        /\ Taken(k, c, msg).kern = kern
    BY <2>1
  <2> QED
    BY <1>0, <2>2 DEF KernCalm, Connection
<1>4. CASE msg[1] = "upgrade"
  <2>1. Taken(k, c, msg) = [conn |-> IF k.upgrade # 0
                                     THEN [k EXCEPT !.out = Append(@, <<"error", msg[2]>>)]
                                     ELSE [k EXCEPT !.upgrade = msg[2], !.attempt = "spawned"],
                            kern |-> kern]
    BY <1>4 DEF Taken
  <2>2. /\ \/ Taken(k, c, msg).conn = [k EXCEPT !.out = Append(@, <<"error", msg[2]>>)]
           \/ Taken(k, c, msg).conn = [k EXCEPT !.upgrade = msg[2], !.attempt = "spawned"]
        /\ Taken(k, c, msg).kern = kern
    BY <2>1
  <2> QED
    BY <1>0, <2>2 DEF KernCalm, Connection
<1> QED
  BY <1>0, <1>1, <1>2, <1>3, <1>4

\* nor reading,
LEMMA ReadCalm ==
  ASSUME ConnTypes, NEW c \in Client, Read(c)
  PROVE  Moves(c)
<1> DEFINE k == conn[c]
<1>0. /\ Conn(k) /\ k \in Connection /\ kern \in KernelState /\ conn \in [Client -> Connection]
      /\ k.buf \in Seq(Msg) /\ k.sock \in Seq(Msg)
  BY DEF ConnTypes, Conn, Connection
<1>1. k.at = "rpc" /\ ~k.frozen
  BY DEF Read, Reading
<1>2. ASSUME NEW b \in Seq(Msg), NEW s \in Seq(Msg), NEW msg \in Msg,
             conn' = [conn EXCEPT ![c] = Taken([k EXCEPT !.buf = b, !.sock = s], c, msg).conn],
             kern' = Taken([k EXCEPT !.buf = b, !.sock = s], c, msg).kern
      PROVE  Moves(c)
  <2> DEFINE h == [k EXCEPT !.buf = b, !.sock = s]
  <2> HIDE DEF k
  <2>1. /\ h \in Connection /\ h.running = k.running /\ h.at = k.at /\ h.ctl = k.ctl
        /\ h.reply = k.reply /\ h.hung = k.hung /\ h.closing = k.closing
    BY <1>0 DEF Connection
  <2>2. Conn(h)
    BY <1>0, <2>1 DEF Conn
  <2> DEFINE g == Taken(h, c, msg).conn
  <2>3. conn' = [conn EXCEPT ![c] = g] /\ kern' = Taken(h, c, msg).kern
    BY <1>2
  <2> HIDE DEF h
  <2>4. /\ g.ctl = k.ctl /\ g.reply = k.reply /\ g.at \in {"rpc", "drain"} /\ g.hung = k.hung
        /\ g.closing = k.closing /\ KernCalm
    BY <1>0, <1>1, <2>1, <2>2, <2>3, TakenCalm
  <2> HIDE DEF g
  <2>5. Calm(k, g)
    BY <1>1, <2>4 DEF Calm, RunsNone
  <2>6. conn'[c] = g /\ \A d \in Client : d # c => conn'[d] = conn[d]
    BY <1>0, <2>3
  <2> QED
    BY <1>1, <2>4, <2>5, <2>6 DEF Moves, Here, k
<1>3. CASE /\ k.buf # <<>>
           /\ LET taken == Taken([k EXCEPT !.buf = Tail(@)], c, Head(k.buf))
              IN conn' = [conn EXCEPT ![c] = taken.conn] /\ kern' = taken.kern
  <2> DEFINE b == Tail(k.buf)
             msg == Head(k.buf)
  <2>1. b \in Seq(Msg) /\ msg \in Msg
    BY <1>0, <1>3
  <2>2. [k EXCEPT !.buf = Tail(@)] = [k EXCEPT !.buf = b, !.sock = k.sock]
    BY <1>0 DEF Connection
  <2>3. /\ conn' = [conn EXCEPT ![c] = Taken([k EXCEPT !.buf = b, !.sock = k.sock], c, msg).conn]
        /\ kern' = Taken([k EXCEPT !.buf = b, !.sock = k.sock], c, msg).kern
    BY <1>3, <2>2
  <2> HIDE DEF b, msg, k
  <2> QED
    BY <1>0, <1>2, <2>1, <2>3
<1>4. ASSUME NEW n \in 1 .. Len(k.sock),
             LET h == [k EXCEPT !.buf = SubSeq(k.sock, 2, n), !.sock = SubSeq(@, n + 1, Len(@))]
                 taken == Taken(h, c, Head(k.sock))
             IN conn' = [conn EXCEPT ![c] = taken.conn] /\ kern' = taken.kern
      PROVE  Moves(c)
  <2> DEFINE b == SubSeq(k.sock, 2, n)
             s == SubSeq(k.sock, n + 1, Len(k.sock))
             msg == Head(k.sock)
  <2>1. b \in Seq(Msg) /\ s \in Seq(Msg) /\ msg \in Msg
    BY <1>0, <1>4
  <2>2. /\ conn' = [conn EXCEPT ![c] = Taken([k EXCEPT !.buf = b, !.sock = s], c, msg).conn]
        /\ kern' = Taken([k EXCEPT !.buf = b, !.sock = s], c, msg).kern
    BY <1>0, <1>4 DEF Connection
  <2> HIDE DEF b, s, msg, k
  <2> QED
    BY <1>2, <2>1, <2>2
<1>5. CASE kern' = kern /\ k.hung /\ conn' = [conn EXCEPT ![c].closing = TRUE]
  <2> DEFINE h == [k EXCEPT !.closing = TRUE]
  <2>1. conn' = [conn EXCEPT ![c] = h]
    BY <1>5 DEF ConnTypes
  <2> HIDE DEF k
  <2>2. /\ h.ctl = k.ctl /\ h.reply = k.reply /\ h.at = k.at /\ h.hung = k.hung
        /\ h.running = k.running
    BY <1>0 DEF Connection
  <2> HIDE DEF h
  <2>3. Calm(k, h)
    BY <1>1, <1>5, <2>2 DEF Calm, RunsNone
  <2>4. conn'[c] = h /\ \A d \in Client : d # c => conn'[d] = conn[d]
    BY <1>0, <2>1
  <2> QED
    BY <1>5, <2>2, <2>3, <2>4 DEF Moves, Here, KernCalm, k
<1> QED
  BY <1>3, <1>4, <1>5 DEF Read

\* writing and what ends a connection,
LEMMA WriteCalm ==
  ASSUME ConnTypes, NEW c \in Client,
         UpgradeFailed(c) \/ Flush(c) \/ Finish(c) \/ End(c)
  PROVE  Moves(c)
<1>0. conn \in [Client -> Connection] /\ conn[c] \in Connection
  BY DEF ConnTypes
<1>1. kern' = kern
  BY DEF UpgradeFailed, Flush, Finish, End
<1>2. CASE UpgradeFailed(c)
  <2>1. \E o : conn' = [conn EXCEPT ![c] = [conn[c] EXCEPT !.upgrade = 0, !.attempt = "none", !.out = o]]
    BY <1>0, <1>2 DEF UpgradeFailed
  <2>2. conn[c].at = "rpc" /\ ~conn[c].frozen
    BY <1>2 DEF UpgradeFailed
  <2> QED
    BY <1>0, <1>1, <2>1, <2>2 DEF Moves, Calm, KernCalm, RunsNone, Here, Connection
<1>3. CASE conn' = [conn EXCEPT ![c] = Gone(@)]
  <2>1. conn'[c] = Gone(conn[c]) /\ conn'[c].at = "gone"
    BY <1>0, <1>3 DEF Gone, Away
  <2> QED
    BY <1>0, <1>1, <1>3, <2>1 DEF Moves, KernCalm, Here
<1>4. CASE Flush(c) /\ ~conn[c].hung
  <2>1. \E o, g : conn' = [conn EXCEPT ![c] = [conn[c] EXCEPT !.out = o, !.got = g]]
    BY <1>0, <1>4 DEF Flush
  <2>2. ~conn[c].frozen
    BY <1>4 DEF Flush
  <2> QED
    BY <1>0, <1>1, <2>1, <2>2 DEF Moves, Calm, KernCalm, RunsNone, Here, Connection
<1>5. CASE Finish(c)
  <2>1. /\ conn' = [conn EXCEPT ![c] = [conn[c] EXCEPT !.at = "finish", !.frozen = FALSE]]
        /\ conn[c].at = "rpc" /\ conn[c].closing /\ conn[c].running = {}
    BY <1>0, <1>5 DEF Finish
  <2> QED
    BY <1>0, <1>1, <2>1 DEF Moves, Calm, KernCalm, RunsNone, Here, Connection
<1> QED
  BY <1>2, <1>3, <1>4, <1>5 DEF Flush, End

\* and a wait and its session.
LEMMA SessionCalm ==
  ASSUME ConnTypes, NEW c \in Client,
         Ask(c) \/ Begin(c) \/ SessionEvent(c) \/ SessionHungUp(c)
  PROVE  Moves(c)
<1>0. conn \in [Client -> Connection] /\ conn[c] \in Connection /\ kern \in KernelState
  BY DEF ConnTypes
<1>1. CASE Ask(c)
  <2> DEFINE e == <<"wait", c, conn[c].wait>>
  <2>1. /\ conn' = [conn EXCEPT ![c] = [conn[c] EXCEPT !.at = "asking"]] /\ kern' = Queue(kern, e)
        /\ conn[c].at = "drain" /\ conn[c].running = {}
    BY <1>0, <1>1 DEF Ask
  <2>2. e \in KernelMsg /\ e[1] # "Freeze"
    BY <1>0 DEF KernelMsg, Connection
  <2> HIDE DEF e
  <2>3. KernCalm
    BY <1>0, <2>1, <2>2 DEF KernCalm, Queue, KernelState
  <2> QED
    BY <1>0, <2>1, <2>3 DEF Moves, Calm, RunsNone, Here, Connection
<1>2. ASSUME NEW a \in {"session", "finish"}, NEW ev, NEW o, kern' = kern,
             conn' = [conn EXCEPT ![c].at = a, ![c].events = ev, ![c].out = o],
             conn[c].at \in {"asking", "resuming"} \/ (conn[c].at = "session" /\ ~conn[c].frozen)
      PROVE  Moves(c)
  <2>1. conn' = [conn EXCEPT ![c] = [conn[c] EXCEPT !.at = a, !.events = ev, !.out = o]]
    BY <1>0, <1>2
  <2> QED
    BY <1>0, <1>2, <2>1 DEF Moves, Calm, KernCalm, RunsNone, Here, Connection
<1>3. CASE Begin(c)
  <2>1. /\ kern' = kern /\ conn[c].at \in {"asking", "resuming"}
        /\ \E a \in {"session", "finish"} : \E ev, o :
             conn' = [conn EXCEPT ![c].at = a, ![c].events = ev, ![c].out = o]
    BY <1>0, <1>3 DEF Begin
  <2> QED
    BY <1>2, <2>1
<1>4. CASE SessionEvent(c)
  <2>1. /\ kern' = kern /\ conn[c].at = "session" /\ ~conn[c].frozen
        /\ \E o : conn' = [conn EXCEPT ![c].at = "finish", ![c].events = <<>>, ![c].out = o]
    BY <1>0, <1>4 DEF SessionEvent
  <2> QED
    BY <1>2, <2>1
<1>5. CASE SessionHungUp(c)
  <2>1. /\ conn' = [conn EXCEPT ![c] = Gone(@)] /\ kern' = [kern EXCEPT !.waits = @ \ {c}]
    BY <1>5 DEF SessionHungUp
  <2>2. conn'[c] = Gone(conn[c]) /\ conn'[c].at = "gone"
    BY <1>0, <2>1 DEF Gone, Away
  <2>3. KernCalm
    BY <1>0, <2>1 DEF KernCalm, KernelState
  <2> QED
    BY <1>0, <2>1, <2>2, <2>3 DEF Moves, Here
<1> QED
  BY <1>1, <1>3, <1>4, <1>5

-----------------------------------------------------------------------------
(* What the steps of the connections keep *)

\* What a step from k to h keeps, when n freezes were asked for.
KeptAt(k, h, n) ==
  /\ Obeying(h) /\ RunsNone(h) /\ Within(h, n)
  /\ Open(k) => Open(h)
  /\ Open(k) /\ Here(h) =>
       /\ Answers(k, n) => Answers(h, n)
       /\ Awaits(k, n) => Awaits(h, n) \/ Answers(h, n)

\* A calm step, and the end of the connection.
LEMMA CalmKept ==
  ASSUME NEW k \in Connection, NEW h \in Connection, NEW n \in Nat,
         Obeying(k), RunsNone(k), Within(k, n), Calm(k, h) \/ h = Gone(k)
  PROVE  KeptAt(k, h, n)
<1>1. CASE Calm(k, h)
  <2>1. Obeying(h) /\ RunsNone(h) /\ Within(h, n)
    BY <1>1 DEF Calm, Obeying, Within
  <2>2. Open(k) => Open(h)
    BY <1>1 DEF Calm, Open
  <2>3. Awaits(k, n) => Awaits(h, n)
    BY <1>1 DEF Calm, Awaits
  <2>4. Open(k) /\ Answers(k, n) => Answers(h, n)
    BY <1>1 DEF Calm, Open, Answers
  <2> QED
    BY <2>1, <2>2, <2>3, <2>4 DEF KeptAt
<1>2. CASE h = Gone(k)
  <2>1. /\ h.at = "gone" /\ h.ctl = <<>> /\ h.reply = k.reply /\ h.running = {}
        /\ h.closing = FALSE
    BY <1>2 DEF Gone, Away
  <2>2. Len(h.ctl) = 0
    BY <2>1
  <2> QED
    BY <2>1, <2>2 DEF KeptAt, Obeying, RunsNone, Within, Open, Here
<1> QED
  BY <1>1, <1>2

\* What is left to hear when the first is heard.
LEMMA CtlRest ==
  ASSUME NEW ctl \in Seq(Ctl), ctl # <<>>, NEW n \in Nat
  PROVE  /\ (\A i \in 1 .. Len(ctl) : ctl[i][1] = "Freeze" => ctl[i][2] <= n) =>
              /\ Head(ctl)[1] = "Freeze" => Head(ctl)[2] <= n
              /\ \A i \in 1 .. Len(Tail(ctl)) : Tail(ctl)[i][1] = "Freeze" => Tail(ctl)[i][2] <= n
         /\ (\A i \in 1 .. Len(ctl) : ctl[i][1] # "Close") =>
              /\ Head(ctl)[1] # "Close"
              /\ \A i \in 1 .. Len(Tail(ctl)) : Tail(ctl)[i][1] # "Close"
         /\ /\ ctl[Len(ctl)] = <<"Freeze", n>>
            /\ \A i \in 1 .. Len(ctl) - 1 : ctl[i][1] = "Freeze" => ctl[i][2] < n
            => IF Tail(ctl) = <<>> THEN Head(ctl) = <<"Freeze", n>>
               ELSE /\ Tail(ctl)[Len(Tail(ctl))] = <<"Freeze", n>>
                    /\ Head(ctl)[1] = "Freeze" => Head(ctl)[2] < n
                    /\ \A i \in 1 .. Len(Tail(ctl)) - 1 :
                         Tail(ctl)[i][1] = "Freeze" => Tail(ctl)[i][2] < n
<1>1. Len(ctl) \in Nat \ {0} /\ Len(Tail(ctl)) = Len(ctl) - 1 /\ Head(ctl) = ctl[1]
  OBVIOUS
<1>2. \A i \in 1 .. Len(Tail(ctl)) : Tail(ctl)[i] = ctl[i + 1] /\ i + 1 \in 1 .. Len(ctl)
  BY <1>1
<1>3. 1 \in 1 .. Len(ctl)
  BY <1>1
<1>4. \A i \in 1 .. Len(Tail(ctl)) - 1 : i \in 1 .. Len(Tail(ctl)) /\ i + 1 \in 1 .. Len(ctl) - 1
  BY <1>1
<1>5. Tail(ctl) # <<>> => 1 \in 1 .. Len(ctl) - 1
  <2>1. Tail(ctl) \in Seq(Ctl)
    OBVIOUS
  <2>2. Tail(ctl) # <<>> => Len(Tail(ctl)) > 0
    BY <2>1
  <2> QED
    BY <1>1, <2>2
<1>6. /\ Tail(ctl) # <<>> => Tail(ctl)[Len(Tail(ctl))] = ctl[Len(ctl)]
      /\ Tail(ctl) = <<>> => Head(ctl) = ctl[Len(ctl)]
  BY LastOfTail
<1> QED
  BY <1>1, <1>2, <1>3, <1>4, <1>5, <1>6

\* A connection that answers a freeze with the rest before it.
LEMMA FrozenKept ==
  ASSUME NEW k \in Connection, NEW n \in Nat, Obeying(k), RunsNone(k), Within(k, n),
         k.ctl # <<>>, Head(k.ctl)[1] = "Freeze", NEW a \in {"rpc", "session", "finish"},
         k.running = {}
  PROVE  LET h == Frozen([k EXCEPT !.at = a, !.ctl = Tail(@)], Head(k.ctl)[2])
         IN KeptAt(k, h, n) /\ h.at = a
<1>0. k.ctl \in Seq(Ctl)
  BY DEF Connection
<1> DEFINE r == Tail(k.ctl)
           m == Head(k.ctl)[2]
           g == [k EXCEPT !.at = a, !.ctl = r]
           s == [of |-> m, what |-> carried(g)]
           h == [g EXCEPT !.frozen = TRUE, !.reply = s]
<1>1. [k EXCEPT !.at = a, !.ctl = Tail(@)] = g
  BY DEF Connection
<1>2. Frozen(g, m) = h
  BY DEF Frozen
<1>3. s.of = m /\ s.what = carried(g)
  OBVIOUS
<1>4. /\ (\A i \in 1 .. Len(k.ctl) : k.ctl[i][1] = "Freeze" => k.ctl[i][2] <= n) =>
           m <= n /\ \A i \in 1 .. Len(r) : r[i][1] = "Freeze" => r[i][2] <= n
      /\ (\A i \in 1 .. Len(k.ctl) : k.ctl[i][1] # "Close") => \A i \in 1 .. Len(r) : r[i][1] # "Close"
      /\ /\ k.ctl[Len(k.ctl)] = <<"Freeze", n>>
         /\ \A i \in 1 .. Len(k.ctl) - 1 : k.ctl[i][1] = "Freeze" => k.ctl[i][2] < n
         => IF r = <<>> THEN m = n
            ELSE /\ r[Len(r)] = <<"Freeze", n>> /\ m < n
                 /\ \A i \in 1 .. Len(r) - 1 : r[i][1] = "Freeze" => r[i][2] < n
  BY <1>0, CtlRest
<1> HIDE DEF r, m, s
<1>5. /\ h.ctl = r /\ h.reply = s /\ h.at = a /\ h.frozen /\ h.running = {} /\ h.hung = k.hung
      /\ h.closing = k.closing
      /\ carried(h) = carried(g)
  BY DEF Connection, carried
<1> HIDE DEF h, g
<1>6. Obeying(h) /\ RunsNone(h) /\ Within(h, n)
  BY <1>3, <1>4, <1>5 DEF Obeying, RunsNone, Within
<1>7. Open(k) => Open(h)
  BY <1>4, <1>5 DEF Open
<1>8. ~Answers(k, n)
  BY DEF Answers
<1>9. Awaits(k, n) => Awaits(h, n) \/ Answers(h, n)
  BY <1>3, <1>4, <1>5 DEF Awaits, Answers
<1>10. KeptAt(k, h, n)
  BY <1>6, <1>7, <1>8, <1>9 DEF KeptAt
<1> QED
  BY <1>1, <1>2, <1>5, <1>10 DEF r, m

\* What a connection hears.
LEMMA CtlKept ==
  ASSUME ConnTypes, NEW c \in Client, NEW n \in Nat, TakeCtl(c) \/ Freeze(c),
         Obeying(conn[c]), RunsNone(conn[c]), Within(conn[c], n)
  PROVE  /\ KeptAt(conn[c], conn'[c], n) /\ KernCalm
         /\ \A d \in Client : d # c => conn'[d] = conn[d]
         /\ Here(conn'[c]) => Here(conn[c])
<1> DEFINE k == conn[c]
           msg == Head(k.ctl)
           h == [k EXCEPT !.ctl = Tail(@)]
<1>0. /\ conn \in [Client -> Connection] /\ k \in Connection /\ k.ctl \in Seq(Ctl)
      /\ KernCalm
  BY DEF ConnTypes, Connection, TakeCtl, Freeze, KernCalm
<1>1. k.ctl # <<>> => msg \in Ctl
  BY <1>0
<1>2. msg \in Ctl => msg[1] \in {"Freeze", "Thaw", "Close"}
  BY DEF Ctl
<1>3. CASE Freeze(c)
  <2>1. k.ctl # <<>> /\ msg[1] = "Freeze" /\ k.running = {} /\ k.at = "freezing"
    BY <1>3 DEF Freeze, Obeying
  <2>2. conn' = [conn EXCEPT ![c] = Frozen([k EXCEPT !.at = "rpc", !.ctl = Tail(@)], msg[2])]
    BY <1>0, <1>3 DEF Freeze
  <2>3. KeptAt(k, Frozen([k EXCEPT !.at = "rpc", !.ctl = Tail(@)], msg[2]), n)
    BY <1>0, <2>1, FrozenKept
  <2> QED
    BY <1>0, <2>1, <2>2, <2>3 DEF Here
<1>4. CASE TakeCtl(c)
  <2>0. k.ctl # <<>> /\ k.at \in {"rpc", "session", "finish"}
    BY <1>4 DEF TakeCtl
  <2> DEFINE freezing == [k EXCEPT !.at = "freezing"]
             thawed == [h EXCEPT !.frozen = FALSE]
  <2>1. conn' = [conn EXCEPT ![c] =
          CASE msg[1] = "Freeze" /\ h.at = "rpc" -> freezing
            [] msg[1] = "Freeze" /\ h.at # "rpc" -> Frozen(h, msg[2])
            [] msg[1] = "Thaw" -> thawed
            [] msg[1] = "Close" -> Closed(h)]
    BY <1>4 DEF TakeCtl, ConnTypes
  <2> DEFINE r == Tail(k.ctl)
  <2>2. /\ h.at = k.at /\ h.ctl = r /\ h.reply = k.reply /\ h.running = k.running
        /\ h.closing = k.closing /\ h.hung = k.hung
    BY <1>0 DEF Connection
  <2>3. /\ conn'[c] = CASE msg[1] = "Freeze" /\ h.at = "rpc" -> freezing
                        [] msg[1] = "Freeze" /\ h.at # "rpc" -> Frozen(h, msg[2])
                        [] msg[1] = "Thaw" -> thawed
                        [] msg[1] = "Close" -> Closed(h)
        /\ \A d \in Client : d # c => conn'[d] = conn[d]
    BY <1>0, <2>1
  <2>4. /\ (\A i \in 1 .. Len(k.ctl) : k.ctl[i][1] = "Freeze" => k.ctl[i][2] <= n) =>
             \A i \in 1 .. Len(r) : r[i][1] = "Freeze" => r[i][2] <= n
        /\ (\A i \in 1 .. Len(k.ctl) : k.ctl[i][1] # "Close") =>
             msg[1] # "Close" /\ \A i \in 1 .. Len(r) : r[i][1] # "Close"
        /\ /\ k.ctl[Len(k.ctl)] = <<"Freeze", n>>
           /\ \A i \in 1 .. Len(k.ctl) - 1 : k.ctl[i][1] = "Freeze" => k.ctl[i][2] < n
           => IF r = <<>> THEN msg = <<"Freeze", n>>
              ELSE /\ r[Len(r)] = <<"Freeze", n>>
                   /\ \A i \in 1 .. Len(r) - 1 : r[i][1] = "Freeze" => r[i][2] < n
    BY <1>0, <2>0, CtlRest
  <2>5. h \in Connection
    <3>1. r \in Seq(Ctl)
      BY <1>0, <2>0
    <3> HIDE DEF r, k
    <3>2. [k EXCEPT !.ctl = r] \in Connection
      BY <1>0, <3>1 DEF Connection
    <3> QED
      BY <1>0, <3>2 DEF r, Connection
  <2>6. CASE msg[1] = "Freeze" /\ h.at = "rpc"
    <3>1. conn'[c] = freezing
      BY <2>3, <2>6
    <3> HIDE DEF k
    <3>2. /\ freezing.at = "freezing" /\ freezing.ctl = k.ctl /\ freezing.reply = k.reply
          /\ freezing.closing = k.closing /\ freezing.hung = k.hung
      BY <1>0 DEF Connection
    <3> HIDE DEF freezing
    <3>3. Obeying(freezing) /\ RunsNone(freezing) /\ Within(freezing, n)
      BY <2>0, <2>6, <3>2 DEF Obeying, RunsNone, Within, k
    <3>4. KeptAt(k, freezing, n)
      BY <2>0, <3>2, <3>3 DEF KeptAt, Open, Answers, Awaits
    <3> QED
      BY <1>0, <2>0, <2>3, <3>1, <3>4 DEF Here, k
  <2>7. CASE msg[1] = "Freeze" /\ h.at # "rpc"
    <3>1. conn'[c] = Frozen(h, msg[2])
      BY <2>3, <2>7
    <3>2. k.at \in {"session", "finish"} /\ k.running = {}
      BY <2>0, <2>2, <2>7 DEF RunsNone
    <3>3. h = [k EXCEPT !.at = k.at, !.ctl = Tail(@)]
      BY <1>0 DEF Connection
    <3>4. KeptAt(k, Frozen(h, msg[2]), n)
      BY <1>0, <2>0, <2>7, <3>2, <3>3, FrozenKept
    <3> QED
      BY <1>0, <2>0, <2>3, <3>1, <3>4 DEF Here
  <2>8. CASE msg[1] = "Thaw"
    <3>1. conn'[c] = thawed
      BY <2>3, <2>8
    <3> HIDE DEF h
    <3>2. /\ thawed.at = k.at /\ thawed.ctl = r /\ thawed.reply = k.reply
          /\ thawed.running = k.running /\ thawed.closing = k.closing /\ thawed.hung = k.hung
      BY <2>2, <2>5 DEF Connection
    <3> HIDE DEF thawed, k, r
    <3>3. Obeying(thawed) /\ RunsNone(thawed) /\ Within(thawed, n)
      BY <2>0, <2>4, <3>2 DEF Obeying, RunsNone, Within, k
    <3>4. Open(k) => Open(thawed)
      BY <2>4, <3>2 DEF Open
    <3>5. Awaits(k, n) => Awaits(thawed, n)
      BY <2>4, <2>8, <3>2 DEF Awaits
    <3>6. KeptAt(k, thawed, n)
      BY <2>0, <3>3, <3>4, <3>5 DEF KeptAt, Answers
    <3> QED
      BY <1>0, <2>0, <2>3, <3>1, <3>6 DEF Here, k
  <2>9. CASE msg[1] = "Close"
    <3>1. conn'[c] = Closed(h)
      BY <2>3, <2>9
    <3> DEFINE g == Closed(h)
    <3> HIDE DEF h
    <3>2. g.at \in {k.at, "finish"} /\ g.ctl = r /\ g.reply = k.reply /\ g.running = k.running
          /\ (g.at = "finish" => k.at \in {"session", "finish"})
      BY <2>0, <2>2, <2>5 DEF Closed, Connection
    <3> HIDE DEF g, k, r
    <3>3. Obeying(g) /\ RunsNone(g) /\ Within(g, n)
      BY <2>0, <2>4, <3>2 DEF Obeying, RunsNone, Within, k
    <3>4. ~Open(k)
      BY <2>4, <2>9 DEF Open
    <3>5. KeptAt(k, g, n)
      BY <3>3, <3>4 DEF KeptAt
    <3> QED
      BY <1>0, <2>0, <2>3, <3>1, <3>5 DEF Here, k, g
  <2> QED
    BY <1>1, <1>2, <2>0, <2>6, <2>7, <2>8, <2>9
<1> QED
  BY <1>3, <1>4

\* A connection that does nothing.
LEMMA StillKept ==
  ASSUME NEW k \in Connection, NEW n \in Nat, Obeying(k), RunsNone(k), Within(k, n)
  PROVE  KeptAt(k, k, n)
BY DEF KeptAt

\* Every connection keeps what it keeps, and none is accepted while accepting is paused.
Keep ==
  \A c \in Client : /\ KeptAt(conn[c], conn'[c], up.n)
                    /\ Here(conn'[c]) => Here(conn[c]) \/ ~paused

\* Then an upgrade's freezes stand as they stood.
LEMMA ConnsKept ==
  ASSUME ConnsHeld, Keep, UNCHANGED <<paused, runner, up>>,
         kern'.over => kern'.freeze = 0, kern'.over = kern.over
  PROVE  ConnsHeld'
<1>1. \A c \in Client : /\ KeptAt(conn[c], conn'[c], up.n)
                        /\ Here(conn'[c]) => Here(conn[c]) \/ ~paused
  BY DEF Keep
<1>2. \A c \in Client : Obeying(conn'[c]) /\ RunsNone(conn'[c]) /\ Within(conn'[c], up'.n)
  BY <1>1 DEF KeptAt
<1>3. runner' = "serving" => \A c \in Client : Open(conn'[c])
  BY <1>1 DEF ConnsHeld, KeptAt
<1>4. up'.stage # "none" => paused'
  BY DEF ConnsHeld
<1>5. ASSUME runner' = "serving", up'.stage # "none", NEW c \in Client, Here(conn'[c])
      PROVE  /\ c \in up'.asked
             /\ Answers(conn'[c], up'.n) \/ (up'.stage = "freezing" /\ Awaits(conn'[c], up'.n))
  <2>1. Here(conn[c]) /\ Open(conn[c])
    BY <1>1, <1>5 DEF ConnsHeld
  <2>2. /\ c \in up.asked
        /\ Answers(conn[c], up.n) \/ (up.stage = "freezing" /\ Awaits(conn[c], up.n))
    BY <1>5, <2>1 DEF ConnsHeld
  <2> QED
    BY <1>1, <1>5, <2>1, <2>2 DEF KeptAt
<1>6. runner' = "closing" => kern'.over
  BY DEF ConnsHeld
<1> QED
  BY <1>2, <1>3, <1>4, <1>5, <1>6 DEF ConnsHeld

\* What the kernel is asked for, and a freeze it did not take.
LEMMA NumbersKept ==
  ASSUME Types, Numbers, KernCalm, up' = up
  PROVE  Numbers'
<1>1. kern.queue \in Seq(KernelMsg)
  BY DEF Types, KernelState
<1>2. CASE kern'.queue = kern.queue
  BY <1>2 DEF Numbers, KernCalm
<1>3. ASSUME NEW e \in KernelMsg, e[1] # "Freeze", kern'.queue = Append(kern.queue, e)
      PROVE  Numbers'
  <2>1. \A i \in 1 .. Len(kern'.queue) :
          (i \in 1 .. Len(kern.queue) /\ kern'.queue[i] = kern.queue[i]) \/ kern'.queue[i] = e
    BY <1>1, <1>3
  <2> QED
    BY <1>3, <2>1 DEF Numbers, KernCalm
<1> QED
  BY <1>2, <1>3 DEF KernCalm

\* The clients' steps.
LEMMA ClientKept ==
  ASSUME Types, Types', Numbers, TasksHeld, ConnsHeld, ClientStep
  PROVE  Numbers' /\ TasksHeld' /\ ConnsHeld'
<1>0. /\ ConnTypes /\ up.n \in Nat /\ UNCHANGED <<up, task, reaper>>
      /\ here.kinds \subseteq {"call", "quit", "wait", "upgrade"}
      /\ \A c \in Client : /\ conn[c] \in Connection /\ conn'[c] \in Connection
                           /\ Obeying(conn[c]) /\ RunsNone(conn[c]) /\ Within(conn[c], up.n)
  BY UpgradeAssumption DEF Types, ConnTypes, Attempt, ClientStep, ConnsHeld, Population
<1>1. PICK c \in Client :
        \/ Connect(c) \/ HangUp(c) \/ Accept(c) \/ Serve(c) \/ SessionTimeout(c)
        \/ Verdict(c)
        \/ \E kind \in {"call", "quit", "wait", "upgrade"} : AskFor(c, kind)
  BY <1>0 DEF ClientStep
<1>2. UNCHANGED <<paused, runner>>
  <2>1. CASE Connect(c) \/ HangUp(c) \/ Accept(c) \/ SessionTimeout(c) \/ Verdict(c)
    BY <2>1 DEF Connect, HangUp, Accept, SessionTimeout, Verdict
  <2>2. CASE \E kind \in {"call", "quit", "wait", "upgrade"} : AskFor(c, kind)
    BY <2>2 DEF AskFor
  <2>3. CASE Serve(c)
    BY <2>3 DEF Serve, Read, UpgradeFailed, Flush, Finish, End, Ask, Begin, SessionEvent,
                SessionHungUp, TakeCtl, Freeze
  <2> QED
    BY <1>1, <2>1, <2>2, <2>3
<1>3. Keep /\ KernCalm
  <2>1. CASE TakeCtl(c) \/ Freeze(c)
    <3>1. /\ KeptAt(conn[c], conn'[c], up.n) /\ KernCalm
          /\ \A d \in Client : d # c => conn'[d] = conn[d]
          /\ Here(conn'[c]) => Here(conn[c])
      BY <1>0, <2>1, CtlKept
    <3> QED
      BY <1>0, <3>1, StillKept DEF Keep
  <2>2. CASE ~(TakeCtl(c) \/ Freeze(c))
    <3>1. ASSUME \/ Connect(c) \/ HangUp(c) \/ Accept(c) \/ SessionTimeout(c) \/ Verdict(c)
                 \/ \E kind \in {"call", "quit", "wait", "upgrade"} : AskFor(c, kind)
          PROVE  Moves(c)
      BY <1>0, <3>1, ComingCalm
    <3>2. ASSUME Read(c) PROVE Moves(c)
      BY <1>0, <3>2, ReadCalm
    <3>3. ASSUME UpgradeFailed(c) \/ Flush(c) \/ Finish(c) \/ End(c) PROVE Moves(c)
      BY <1>0, <3>3, WriteCalm
    <3>4. ASSUME Ask(c) \/ Begin(c) \/ SessionEvent(c) \/ SessionHungUp(c) PROVE Moves(c)
      BY <1>0, <3>4, SessionCalm
    <3>5. Moves(c)
      BY <1>1, <2>2, <3>1, <3>2, <3>3, <3>4 DEF Serve
    <3>6. /\ \A d \in Client : d # c => conn'[d] = conn[d]
          /\ Calm(conn[c], conn'[c]) \/ conn'[c] = Gone(conn[c])
          /\ Here(conn'[c]) => Here(conn[c]) \/ ~paused
          /\ KernCalm
      BY <3>5 DEF Moves
    <3>7. KeptAt(conn[c], conn'[c], up.n)
      BY <1>0, <3>6, CalmKept
    <3> QED
      BY <1>0, <3>6, <3>7, StillKept DEF Keep
  <2> QED
    BY <2>1, <2>2
<1>4. kern'.over = kern.over /\ kern'.freeze = kern.freeze
  BY <1>3 DEF KernCalm
<1>5. ConnsHeld'
  <2>1. kern'.over => kern'.freeze = 0
    BY <1>4 DEF ConnsHeld
  <2> QED
    BY <1>0, <1>2, <1>3, <1>4, <2>1, ConnsKept
<1>6. Numbers'
  BY <1>0, <1>3, NumbersKept
<1>7. TasksHeld'
  BY <1>0, <1>4 DEF TasksHeld, Tasks, HeldAt
<1> QED
  BY <1>5, <1>6, <1>7

-----------------------------------------------------------------------------
(* The kernel's turns *)

\* What the kernel tells its tasks.
LEMMA Telling ==
  ASSUME task \in [Task -> Handler], NEW cmd \in {"Freeze", "Thaw"}, task' = Tell(cmd),
         NEW t \in Task
  PROVE  /\ task'[t] \in Handler
         /\ task'[t].step = task[t].step /\ task'[t].kind = task[t].kind
         /\ task'[t].mark = task[t].mark /\ task'[t].pid = task[t].pid
         /\ task'[t].child = task[t].child /\ task'[t].run = task[t].run
         /\ task'[t].exited = task[t].exited /\ task'[t].exits = task[t].exits
         /\ task'[t].command = task[t].command /\ task'[t].frozen = task[t].frozen
         /\ task'[t].adopt = task[t].adopt
         /\ t \in Tasks => task'[t].cmds # <<>> /\ task'[t].cmds[Len(task'[t].cmds)] = cmd
<1> DEFINE cmds == Append(task[t].cmds, cmd)
           h == [task[t] EXCEPT !.cmds = cmds]
<1>1. task[t] \in Handler /\ task[t].cmds \in Seq({"Freeze", "Thaw"})
  BY DEF Handler
<1>2. task'[t] = IF t \in Tasks THEN h ELSE task[t]
  BY DEF Tell
<1>3. cmds \in Seq({"Freeze", "Thaw"}) /\ cmds # <<>> /\ cmds[Len(cmds)] = cmd
  BY <1>1, LastOfAppend
<1> HIDE DEF cmds
<1>4. /\ h \in Handler /\ h.cmds = cmds
      /\ h.step = task[t].step /\ h.kind = task[t].kind /\ h.mark = task[t].mark
      /\ h.pid = task[t].pid /\ h.child = task[t].child /\ h.run = task[t].run
      /\ h.exited = task[t].exited /\ h.exits = task[t].exits
      /\ h.command = task[t].command /\ h.frozen = task[t].frozen /\ h.adopt = task[t].adopt
  BY <1>1, <1>3 DEF Handler
<1> HIDE DEF h
<1> QED
  BY <1>1, <1>2, <1>3, <1>4

\* A reply is nothing to a connection that has none running.
LEMMA RepliedCalm ==
  ASSUME NEW k, Conn(k), NEW ids \in SUBSET Nat
  PROVE  Calm(k, Replied(k, ids))
<1> DEFINE S == {<<"answer", id>> : id \in ids \cap k.running}
           r == k.running \ ids
           o == k.out \o SetToSeq(S)
           h == [k EXCEPT !.running = r, !.out = o]
<1>1. k \in Connection /\ k.running \in SUBSET Nat /\ k.out \in Seq(Frame)
  BY DEF Conn, Connection
<1>2. Replied(k, ids) = h
  BY DEF Replied
<1>3. k.running = {} => o = k.out
  <2>1. k.running = {} => S = {}
    OBVIOUS
  <2>2. k.running = {} => SetToSeq(S) = <<>>
    BY <2>1, SeqOfSet, FS_EmptySet
  <2> HIDE DEF S
  <2> QED
    BY <1>1, <2>2
<1>4. k.running = {} => r = {}
  OBVIOUS
<1> HIDE DEF r, o
<1>5. Calm(k, h)
  BY <1>1, <1>3, <1>4 DEF Calm, RunsNone, carried, Connection
<1> QED
  BY <1>2, <1>5

\* Nor is what a session is told.
LEMMA EventCalm ==
  ASSUME NEW k \in Connection, NEW e
  PROVE  Calm(k, [k EXCEPT !.events = e])
BY DEF Calm, RunsNone, carried, Connection

\* The kernel's turns: frozen, it takes no call, and a freeze it takes comes last to its
\* tasks.
LEMMA KernelKept ==
  ASSUME ChildState, Types, Types', Numbers, TasksHeld, ConnsHeld, KernelTurn
  PROVE  ChildState' /\ Numbers' /\ TasksHeld' /\ ConnsHeld'
<1> DEFINE msg == Head(kern.queue)
           q == Tail(kern.queue)
           k == [kern EXCEPT !.queue = q]
<1>0. /\ kern \in KernelState /\ kern.queue # <<>> /\ kern.queue \in Seq(KernelMsg)
      /\ UNCHANGED <<paused, runner, procs, reaper, heard, here, up>>
      /\ task \in [Task -> Handler] /\ reaper \in ReaperState /\ ~kern.over
      /\ conn \in [Client -> Connection] /\ up \in Attempt
      /\ \A c \in Client : Conn(conn[c]) /\ conn[c] \in Connection /\ conn'[c] \in Connection
                           /\ Obeying(conn[c]) /\ RunsNone(conn[c]) /\ Within(conn[c], up.n)
  BY DEF Types, KernelTurn, KernelState, ChildState, ChildTypes, ConnsHeld
<1>1. q \in Seq(KernelMsg) /\ msg \in KernelMsg
  BY <1>0
<1>2. /\ msg[1] \in {"call", "quit", "wait"} => msg[2] \in Client /\ msg[3] \in Nat
      /\ msg[1] = "Freeze" => msg[2] \in Nat
  <2> HIDE DEF msg
  <2> QED
    BY <1>1 DEF KernelMsg
<1>3. \/ /\ kern.freeze = 0 /\ msg[1] \in {"call", "quit"}
         /\ kern' = [k EXCEPT !.quitting = @ \/ msg[1] = "quit"]
         /\ conn' = [conn EXCEPT ![msg[2]] = Replied(@, {msg[3]})]
         /\ task' = task
      \/ /\ kern.freeze = 0 /\ msg[1] = "wait"
         /\ kern' \in {k, [k EXCEPT !.waits = @ \cup {msg[2]}]}
         /\ \E e \in {"Set", "Nothing"} : conn' = [conn EXCEPT ![msg[2]].events = Append(@, e)]
         /\ task' = task
      \/ /\ msg[1] = "Freeze" /\ conn' = conn
         /\ \/ kern' = k /\ task' = task
            \/ kern' = [k EXCEPT !.freeze = msg[2]] /\ task' = Tell("Freeze")
      \/ /\ msg[1] = "Thaw" /\ kern' = [k EXCEPT !.freeze = 0] /\ conn' = conn
         /\ task' = task \/ task' = Tell("Thaw")
  BY DEF KernelTurn
<1>4. /\ k.freeze = kern.freeze /\ k.over = kern.over /\ k.queue = q /\ k \in KernelState
  BY <1>0, <1>1 DEF KernelState
<1>5. /\ kern'.over = FALSE /\ kern'.queue = q
      /\ \/ kern'.freeze = kern.freeze /\ task' = task
         \/ /\ msg[1] = "Freeze" /\ kern'.freeze = msg[2] /\ task' = Tell("Freeze")
         \/ /\ kern'.freeze = 0 /\ msg[1] = "Thaw" /\ (task' = task \/ task' = Tell("Thaw"))
  <2> HIDE DEF k, msg, q
  <2> QED
    BY <1>0, <1>3, <1>4 DEF KernelState
<1>6. ChildState'
  <2>1. CASE task' = task
    BY <1>0, <2>1, SameChildren
  <2>2. ASSUME NEW cmd \in {"Freeze", "Thaw"}, task' = Tell(cmd) PROVE ChildState'
    <3>1. task' \in [Task -> Handler]
      BY <1>0, <2>2, Telling DEF Tell
    <3> QED
      BY <1>0, <2>2, <3>1, Telling, SameChildren
  <2> QED
    BY <1>5, <2>1, <2>2
<1>7. Numbers'
  <2>1. /\ \A i \in 1 .. Len(q) : i + 1 \in 1 .. Len(kern.queue) /\ q[i] = kern.queue[i + 1]
        /\ 1 \in 1 .. Len(kern.queue) /\ msg = kern.queue[1]
    BY <1>0
  <2>2. \A i \in 1 .. Len(q) : q[i][1] = "Freeze" =>
          q[i][2] <= up.n /\ (up.stage = "freezing" => q[i][2] < up.n)
    BY <2>1 DEF Numbers
  <2>3. msg[1] = "Freeze" => msg[2] <= up.n /\ (up.stage = "freezing" => msg[2] < up.n)
    BY <2>1 DEF Numbers
  <2>4. kern'.freeze <= up.n /\ (up.stage = "freezing" => kern'.freeze < up.n)
    BY <1>0, <1>5, <2>3 DEF Numbers, Attempt
  <2> HIDE DEF q, msg
  <2> QED
    BY <1>0, <1>5, <2>2, <2>4 DEF Numbers
<1>8. TasksHeld'
  <2> SUFFICES ASSUME up.stage = "kernel", kern'.freeze = up.n, NEW t \in Task,
                      task'[t].step # "none"
               PROVE  HeldAt(t)'
    BY <1>0 DEF TasksHeld, Tasks
  <2>1. CASE kern'.freeze = kern.freeze /\ task' = task
    BY <2>1 DEF TasksHeld, Tasks, HeldAt
  <2>2. CASE task' = Tell("Freeze")
    <3>1. t \in Tasks
      BY <1>0, <2>2, Telling DEF Tasks
    <3> QED
      BY <1>0, <2>2, <3>1, Telling DEF HeldAt
  <2>3. kern'.freeze # 0
    BY DEF Numbers
  <2> QED
    BY <1>5, <2>1, <2>2, <2>3
<1>9. Keep
  <2>1. ASSUME NEW c \in Client, NEW h, conn' = [conn EXCEPT ![c] = h], Calm(conn[c], h),
               Here(h) => Here(conn[c])
        PROVE  Keep
    <3>1. conn'[c] = h /\ \A d \in Client : d # c => conn'[d] = conn[d]
      BY <1>0, <2>1
    <3>2. KeptAt(conn[c], conn'[c], up.n)
      BY <1>0, <2>1, <3>1, CalmKept DEF Attempt
    <3> QED
      BY <1>0, <2>1, <3>1, <3>2, StillKept DEF Keep, Attempt
  <2>2. CASE msg[1] \in {"call", "quit"}
    <3> DEFINE c == msg[2]
               id == msg[3]
               h == Replied(conn[c], {id})
    <3>1. /\ conn' = [conn EXCEPT ![c] = h] /\ c \in Client /\ {id} \in SUBSET Nat
      BY <1>2, <1>3, <2>2
    <3>2. Calm(conn[c], h)
      BY <1>0, <3>1, RepliedCalm
    <3>3. h.at = conn[c].at
      <4> HIDE DEF c, id
      <4> QED
        BY <1>0, <3>1 DEF Replied, Connection
    <3> HIDE DEF c, h
    <3> QED
      BY <2>1, <3>1, <3>2, <3>3 DEF Here
  <2>3. CASE msg[1] = "wait"
    <3>1. PICK e \in {"Set", "Nothing"} : conn' = [conn EXCEPT ![msg[2]].events = Append(@, e)]
      BY <1>3, <2>3
    <3> DEFINE c == msg[2]
               ev == Append(conn[c].events, e)
               h == [conn[c] EXCEPT !.events = ev]
    <3>2. conn' = [conn EXCEPT ![c] = h] /\ c \in Client
      BY <1>2, <2>3, <3>1
    <3>3. Calm(conn[c], h)
      BY <1>0, <3>2, EventCalm
    <3>4. h.at = conn[c].at
      <4> HIDE DEF c, ev
      <4> QED
        BY <1>0, <3>2 DEF Connection
    <3> HIDE DEF c, h
    <3> QED
      BY <2>1, <3>2, <3>3, <3>4 DEF Here
  <2>4. CASE conn' = conn
    BY <1>0, <2>4, StillKept DEF Keep, Attempt
  <2> QED
    BY <1>3, <2>2, <2>3, <2>4
<1>10. ConnsHeld'
  <2>1. kern.over = FALSE
    BY <1>0 DEF KernelState
  <2> QED
    BY <1>0, <1>5, <1>9, <2>1, ConnsKept
<1> QED
  BY <1>6, <1>7, <1>8, <1>10

-----------------------------------------------------------------------------
(* The upgrade's steps *)

\* A connection that is to hear one thing more, or not.
Told(k, h, e) ==
  /\ h.ctl \in {k.ctl, Append(k.ctl, e)}
  /\ h.at = k.at /\ h.closing = k.closing /\ h.hung = k.hung
  /\ h.running = k.running \/ h.running = {}
  /\ h.reply \in {k.reply, NoReply}

\* It keeps what it keeps, and a freeze with a number past all others is to come.
LEMMA ToHear ==
  ASSUME NEW k \in Connection, NEW h, NEW e \in Ctl, Told(k, h, e), NEW n \in Nat, NEW m \in Nat, n <= m,
         e[1] = "Freeze" => e[2] <= m, Obeying(k), RunsNone(k), Within(k, n)
  PROVE  /\ Obeying(h) /\ RunsNone(h) /\ Within(h, m)
         /\ e[1] # "Close" /\ Open(k) => Open(h)
         /\ e = <<"Freeze", m>> /\ n < m /\ h.ctl = Append(k.ctl, e) => Awaits(h, m)
<1>0. /\ h.ctl \in {k.ctl, Append(k.ctl, e)}
      /\ h.at = k.at /\ h.closing = k.closing /\ h.hung = k.hung
      /\ h.running = k.running \/ h.running = {}
      /\ h.reply \in {k.reply, NoReply}
  BY DEF Told
<1>1. k.ctl \in Seq(Ctl) /\ k.reply.of \in Nat /\ h.reply.of \in Nat /\ h.reply.of <= k.reply.of
  BY <1>0 DEF Connection, Answer, NoReply
<1>2. ASSUME h.ctl = Append(k.ctl, e)
      PROVE  /\ Len(h.ctl) = Len(k.ctl) + 1 /\ h.ctl # <<>> /\ Len(k.ctl) \in Nat
             /\ h.ctl[Len(h.ctl)] = e
             /\ \A i \in 1 .. Len(h.ctl) : (i \in 1 .. Len(k.ctl) /\ h.ctl[i] = k.ctl[i]) \/ h.ctl[i] = e
             /\ \A i \in 1 .. Len(h.ctl) - 1 : i \in 1 .. Len(k.ctl) /\ h.ctl[i] = k.ctl[i]
             /\ k.ctl # <<>> => Head(h.ctl) = Head(k.ctl)
  BY <1>1, <1>2
<1>3. Obeying(h)
  BY <1>0, <1>1, <1>2 DEF Obeying
<1>4. RunsNone(h)
  BY <1>0 DEF RunsNone
<1>5. Within(h, m)
  <2>1. h.reply.of <= m
    BY <1>1 DEF Within
  <2>2. \A i \in 1 .. Len(k.ctl) : k.ctl[i][1] = "Freeze" => k.ctl[i][2] <= m
    <3> SUFFICES ASSUME NEW i \in 1 .. Len(k.ctl), k.ctl[i][1] = "Freeze" PROVE k.ctl[i][2] <= m
      OBVIOUS
    <3>1. k.ctl[i] \in Ctl
      BY <1>1
    <3>2. k.ctl[i][2] \in Nat
      BY <3>1 DEF Ctl
    <3> QED
      BY <3>2 DEF Within
  <2> QED
    BY <1>0, <1>2, <2>1, <2>2 DEF Within
<1>6. e[1] # "Close" /\ Open(k) => Open(h)
  BY <1>0, <1>2 DEF Open
<1>7. ASSUME e = <<"Freeze", m>>, n < m, h.ctl = Append(k.ctl, e) PROVE Awaits(h, m)
  <2>1. h.reply.of < m
    BY <1>1, <1>7 DEF Within
  <2>2. \A i \in 1 .. Len(k.ctl) : k.ctl[i][1] = "Freeze" => k.ctl[i][2] < m
    <3> SUFFICES ASSUME NEW i \in 1 .. Len(k.ctl), k.ctl[i][1] = "Freeze" PROVE k.ctl[i][2] < m
      OBVIOUS
    <3>1. k.ctl[i] \in Ctl
      BY <1>1
    <3>2. k.ctl[i][2] \in Nat
      BY <3>1 DEF Ctl
    <3> QED
      BY <1>7, <3>2 DEF Within
  <2> QED
    BY <1>2, <1>7, <2>1, <2>2 DEF Awaits
<1> QED
  BY <1>3, <1>4, <1>5, <1>6, <1>7

\* What the kernel is asked for last.
LEMMA Queued ==
  ASSUME kern \in KernelState, NEW e \in KernelMsg, kern' = Queue(kern, e)
  PROVE  /\ kern'.freeze = kern.freeze /\ kern'.over = kern.over
         /\ \A i \in 1 .. Len(kern'.queue) :
              (i \in 1 .. Len(kern.queue) /\ kern'.queue[i] = kern.queue[i]) \/ kern'.queue[i] = e
<1> DEFINE q == Append(kern.queue, e)
<1>1. kern.queue \in Seq(KernelMsg)
  BY DEF KernelState
<1>2. \A i \in 1 .. Len(q) : (i \in 1 .. Len(kern.queue) /\ q[i] = kern.queue[i]) \/ q[i] = e
  BY <1>1
<1>3. kern' = [kern EXCEPT !.queue = q]
  BY DEF Queue
<1> HIDE DEF q
<1> QED
  BY <1>2, <1>3 DEF KernelState

\* An upgrade starts: every connection that is there is to hear its freeze.
LEMMA StartKept ==
  ASSUME ChildState, Types, Types', Numbers, TasksHeld, ConnsHeld,
         NEW by \in Client \cup {Other}, Start(by)
  PROVE  ChildState' /\ Numbers' /\ TasksHeld' /\ ConnsHeld'
<1>0. /\ up \in Attempt /\ up.n \in Nat /\ kern \in KernelState /\ up.stage = "none"
      /\ reaper \in ReaperState /\ task \in [Task -> Handler] /\ runner = "serving" /\ paused' = TRUE
      /\ UNCHANGED <<kern, runner, procs, reaper, task, heard, here>>
      /\ \A c \in Client : /\ Conn(conn[c]) /\ conn[c] \in Connection /\ Open(conn[c])
                           /\ Obeying(conn[c]) /\ RunsNone(conn[c]) /\ Within(conn[c], up.n)
  BY DEF Types, Attempt, Start, ChildState, ChildTypes, ConnsHeld
<1> DEFINE a == {c \in Client : Registered(c)}
           m == up.n + 1
           e == <<"Freeze", m>>
<1>1. up' = [up EXCEPT !.stage = "freezing", !.by = by, !.n = m, !.asked = a]
  BY <1>0 DEF Start, Attempt
<1>2. up'.stage = "freezing" /\ up'.n = m /\ up'.asked = a /\ m \in Nat /\ up.n < m /\ m > 0
  <2>1. m \in Nat /\ up.n < m /\ m > 0
    BY <1>0
  <2> HIDE DEF m, a
  <2> QED
    BY <1>0, <1>1, <2>1 DEF Attempt
<1>3. e \in Ctl /\ e[1] = "Freeze" /\ e[2] <= m
  BY <1>2 DEF Ctl
<1>4. ASSUME NEW c \in Client
      PROVE  /\ Obeying(conn'[c]) /\ RunsNone(conn'[c]) /\ Within(conn'[c], m) /\ Open(conn'[c])
             /\ conn'[c].at = conn[c].at
             /\ Registered(c) => Awaits(conn'[c], m)
  <2> DEFINE l == IF Registered(c) THEN Append(conn[c].ctl, e) ELSE conn[c].ctl
             at == IF c = by THEN "running" ELSE conn[c].attempt
             h == [conn[c] EXCEPT !.ctl = l, !.attempt = at]
  <2>1. conn'[c] = h
    BY <1>0 DEF Start, Connection
  <2>2. l \in {conn[c].ctl, Append(conn[c].ctl, e)} /\ (Registered(c) => l = Append(conn[c].ctl, e))
    OBVIOUS
  <2> HIDE DEF l, at
  <2>3. /\ h.ctl = l /\ h.at = conn[c].at /\ h.running = conn[c].running /\ h.hung = conn[c].hung
        /\ h.closing = conn[c].closing /\ h.reply = conn[c].reply
    BY <1>0 DEF Connection
  <2> HIDE DEF h, m
  <2>4. e = <<"Freeze", m>> /\ e[1] # "Close"
    BY <1>3
  <2> HIDE DEF e
  <2>5. /\ Obeying(h) /\ RunsNone(h) /\ Within(h, m) /\ Open(h)
        /\ Registered(c) => Awaits(h, m)
    <3>1. Told(conn[c], h, e)
      BY <2>2, <2>3 DEF Told
    <3>2. conn[c] \in Connection /\ Obeying(conn[c]) /\ RunsNone(conn[c]) /\ Within(conn[c], up.n)
          /\ Open(conn[c])
      BY <1>0
    <3>3. up.n \in Nat /\ m \in Nat /\ up.n <= m /\ up.n < m /\ e \in Ctl /\ e[2] <= m
      BY <1>0, <1>2, <1>3
    <3>4. /\ Obeying(h) /\ RunsNone(h) /\ Within(h, m)
          /\ e[1] # "Close" /\ Open(conn[c]) => Open(h)
          /\ e = <<"Freeze", m>> /\ up.n < m /\ h.ctl = Append(conn[c].ctl, e) => Awaits(h, m)
      BY <3>1, <3>2, <3>3, ToHear
    <3> QED
      BY <2>2, <2>3, <2>4, <3>2, <3>3, <3>4
  <2> QED
    BY <2>1, <2>3, <2>5
<1>5. ChildState'
  BY <1>0, SameChildren
<1>6. Numbers'
  <2>1. ASSUME NEW i \in 1 .. Len(kern.queue), kern.queue[i][1] = "Freeze"
        PROVE  kern.queue[i][2] <= m /\ kern.queue[i][2] < m
    <3>1. kern.queue[i] \in KernelMsg
      BY <1>0 DEF KernelState
    <3>2. kern.queue[i][2] \in Nat
      BY <2>1, <3>1 DEF KernelMsg
    <3>3. kern.queue[i][2] <= up.n
      BY <2>1 DEF Numbers
    <3> QED
      BY <1>0, <3>2, <3>3
  <2>2. kern.freeze <= m /\ kern.freeze < m
    BY <1>0 DEF Numbers, KernelState
  <2> HIDE DEF m
  <2> QED
    BY <1>0, <1>2, <2>1, <2>2 DEF Numbers
<1>7. TasksHeld'
  BY <1>2 DEF TasksHeld
<1>8. ConnsHeld'
  <2> HIDE DEF m
  <2>1. \A c \in Client : Here(conn'[c]) => c \in a /\ Awaits(conn'[c], m)
    BY <1>4 DEF Here, Registered
  <2> QED
    BY <1>0, <1>2, <1>4, <2>1 DEF ConnsHeld
<1> QED
  BY <1>5, <1>6, <1>7, <1>8

\* One that is refused changes nothing.
LEMMA RefuseKept ==
  ASSUME ChildState, Types, Types', Numbers, TasksHeld, ConnsHeld, NEW c \in Client, RefuseUpgrade(c)
  PROVE  ChildState' /\ Numbers' /\ TasksHeld' /\ ConnsHeld'
<1> DEFINE h == [conn[c] EXCEPT !.attempt = "failed"]
<1>0. /\ UNCHANGED <<paused, kern, runner, procs, reaper, task, heard, here, up>>
      /\ conn \in [Client -> Connection] /\ up.n \in Nat /\ kern \in KernelState
      /\ reaper \in ReaperState /\ task \in [Task -> Handler]
      /\ \A d \in Client : /\ conn[d] \in Connection /\ conn'[d] \in Connection
                           /\ Obeying(conn[d]) /\ RunsNone(conn[d]) /\ Within(conn[d], up.n)
  BY DEF Types, Attempt, RefuseUpgrade, ChildState, ChildTypes, ConnsHeld
<1>1. conn'[c] = h /\ \A d \in Client : d # c => conn'[d] = conn[d]
  BY <1>0 DEF RefuseUpgrade
<1>2. Calm(conn[c], h) /\ h.at = conn[c].at
  BY <1>0 DEF Calm, RunsNone, carried, Connection
<1> HIDE DEF h
<1>3. Keep
  <2>1. KeptAt(conn[c], conn'[c], up.n)
    BY <1>0, <1>1, <1>2, CalmKept
  <2> QED
    BY <1>0, <1>1, <1>2, <2>1, StillKept DEF Keep, Here
<1>4. kern'.over => kern'.freeze = 0
  BY <1>0 DEF ConnsHeld
<1> QED
  BY <1>0, <1>3, <1>4, ConnsKept, SameChildren DEF Numbers, TasksHeld, Tasks, HeldAt

\* The kernel is asked when every connection has answered or is gone.
LEMMA FreezeKernelKept ==
  ASSUME ChildState, Types, Types', Numbers, TasksHeld, ConnsHeld, FreezeKernel
  PROVE  ChildState' /\ Numbers' /\ TasksHeld' /\ ConnsHeld'
<1> DEFINE e == <<"Freeze", up.n>>
<1>0. /\ up \in Attempt /\ up.n \in Nat /\ kern \in KernelState /\ up.stage = "freezing"
      /\ reaper \in ReaperState /\ task \in [Task -> Handler]
      /\ kern' = Queue(kern, e) /\ reaper' = [reaper EXCEPT !.paused = TRUE]
      /\ UNCHANGED <<conn, paused, runner, procs, task, heard, here>>
      /\ \A c \in up.asked : Settled(c)
  BY DEF Types, Attempt, FreezeKernel, ChildState, ChildTypes
<1>1. up'.stage = "kernel" /\ up'.n = up.n /\ up'.asked = up.asked
  BY <1>0 DEF FreezeKernel, Attempt
<1>2. e \in KernelMsg /\ e[2] = up.n
  BY <1>0 DEF KernelMsg
<1> HIDE DEF e
<1>3. /\ kern'.freeze = kern.freeze /\ kern'.over = kern.over
      /\ \A i \in 1 .. Len(kern'.queue) :
           (i \in 1 .. Len(kern.queue) /\ kern'.queue[i] = kern.queue[i]) \/ kern'.queue[i] = e
  BY <1>0, <1>2, Queued
<1>4. ChildState'
  BY <1>0, SameChildren DEF ReaperState
<1>5. Numbers'
  BY <1>0, <1>1, <1>2, <1>3 DEF Numbers
<1>6. TasksHeld'
  BY <1>0, <1>1, <1>3 DEF TasksHeld, Numbers, ReaperState, KernelState
<1>7. ConnsHeld'
  <2>1. ASSUME runner = "serving", NEW c \in Client, Here(conn[c])
        PROVE  c \in up.asked /\ Answers(conn[c], up.n)
    <3>1. c \in up.asked /\ (Answers(conn[c], up.n) \/ Awaits(conn[c], up.n))
      BY <1>0, <2>1 DEF ConnsHeld
    <3>2. conn[c].reply.of = up.n
      BY <1>0, <2>1, <3>1 DEF Settled, HasReplied, Here
    <3> QED
      BY <1>0, <3>1, <3>2 DEF Awaits
  <2> QED
    BY <1>0, <1>1, <1>3, <2>1 DEF ConnsHeld
<1> QED
  BY <1>4, <1>5, <1>6, <1>7

\* One that fails leaves what it froze with a thaw behind it.
LEMMA FailKept ==
  ASSUME ChildState, Types, Types', Numbers, TasksHeld, ConnsHeld, Fail
  PROVE  ChildState' /\ Numbers' /\ TasksHeld' /\ ConnsHeld'
<1> DEFINE e == <<"Thaw">>
<1>0. /\ up \in Attempt /\ up.n \in Nat /\ kern \in KernelState
      /\ reaper \in ReaperState /\ task \in [Task -> Handler]
      /\ kern' = Queue(kern, e) /\ reaper' = resume(reaper) /\ up' = NoUpgrade(up.n, up.images)
      /\ UNCHANGED <<runner, procs, task, heard, here>>
      /\ \A c \in Client : /\ Conn(conn[c]) /\ conn[c] \in Connection
                           /\ Obeying(conn[c]) /\ RunsNone(conn[c]) /\ Within(conn[c], up.n)
  BY DEF Types, Attempt, Fail, ChildState, ChildTypes, ConnsHeld
<1>1. up'.stage = "none" /\ up'.n = up.n
  BY <1>0 DEF NoUpgrade
<1>2. e \in KernelMsg /\ e \in Ctl /\ e[1] = "Thaw"
  BY DEF KernelMsg, Ctl
<1> HIDE DEF e
<1>3. /\ kern'.freeze = kern.freeze /\ kern'.over = kern.over
      /\ \A i \in 1 .. Len(kern'.queue) :
           (i \in 1 .. Len(kern.queue) /\ kern'.queue[i] = kern.queue[i]) \/ kern'.queue[i] = e
  BY <1>0, <1>2, Queued
<1>4. ChildState'
  BY <1>0, SameChildren DEF ReaperState, resume
<1>5. Numbers'
  BY <1>0, <1>1, <1>2, <1>3 DEF Numbers
<1>6. TasksHeld'
  BY <1>1 DEF TasksHeld
<1>7. ASSUME NEW c \in Client
      PROVE  /\ Obeying(conn'[c]) /\ RunsNone(conn'[c]) /\ Within(conn'[c], up.n)
             /\ Open(conn[c]) => Open(conn'[c])
  <2> DEFINE l == IF c \in ToThaw THEN Append(conn[c].ctl, e) ELSE conn[c].ctl
             at == IF c = up.by THEN "failed" ELSE conn[c].attempt
             h == [conn[c] EXCEPT !.ctl = l, !.attempt = at, !.reply = NoReply]
  <2>1. conn'[c] = h
    BY <1>0 DEF Fail, Connection, e
  <2>2. l \in {conn[c].ctl, Append(conn[c].ctl, e)}
    OBVIOUS
  <2> HIDE DEF l, at
  <2>3. /\ h.ctl = l /\ h.at = conn[c].at /\ h.running = conn[c].running /\ h.hung = conn[c].hung
        /\ h.closing = conn[c].closing /\ h.reply = NoReply
    BY <1>0 DEF Connection
  <2> HIDE DEF h
  <2>4. Obeying(h) /\ RunsNone(h) /\ Within(h, up.n) /\ (Open(conn[c]) => Open(h))
    <3>1. Told(conn[c], h, e)
      BY <2>2, <2>3 DEF Told
    <3> QED
      BY <1>0, <1>2, <3>1, ToHear
  <2> QED
    BY <2>1, <2>4
<1>8. ConnsHeld'
  BY <1>0, <1>1, <1>3, <1>7 DEF ConnsHeld
<1> QED
  BY <1>4, <1>5, <1>6, <1>8

\* The runner's end: what the connections are told then is no freeze.
LEMMA RunnerKept ==
  ASSUME ChildState, Types, Types', Numbers, TasksHeld, ConnsHeld, RunnerStep
  PROVE  ChildState' /\ Numbers' /\ TasksHeld' /\ ConnsHeld'
<1> DEFINE e == <<"Close">>
<1>0. /\ up \in Attempt /\ up.n \in Nat /\ kern \in KernelState
      /\ reaper \in ReaperState /\ task \in [Task -> Handler]
      /\ UNCHANGED <<procs, reaper, task, heard, here, up>>
      /\ \A c \in Client : /\ Conn(conn[c]) /\ conn[c] \in Connection
                           /\ Obeying(conn[c]) /\ RunsNone(conn[c]) /\ Within(conn[c], up.n)
  BY DEF Types, Attempt, RunnerStep, ChildState, ChildTypes, ConnsHeld
<1>1. ChildState'
  BY <1>0, SameChildren
<1>2. e \in Ctl /\ e[1] = "Close"
  BY DEF Ctl
<1>3. CASE KernelEnds
  <2>1. /\ kern'.over /\ kern'.queue = <<>> /\ kern'.freeze = 0 /\ kern.freeze = 0
        /\ runner' = "closing" /\ paused' = paused
    BY <1>0, <1>3 DEF KernelEnds, KernelState
  <2>2. Len(kern'.queue) = 0
    BY <2>1
  <2>3. Numbers'
    BY <1>0, <2>1, <2>2 DEF Numbers
  <2>4. TasksHeld'
    BY <1>0, <2>1 DEF TasksHeld, Numbers
  <2>5. PICK those \in SUBSET kern.waits :
          conn' = [c \in Client |->
            [Replied(conn[c], conn[c].running) EXCEPT
               !.events = IF c \in those THEN Append(@, "Done") ELSE @,
               !.ctl = IF Registered(c) THEN Append(@, <<"Close">>) ELSE @]]
    BY <1>3 DEF KernelEnds
  <2>6. ASSUME NEW c \in Client
        PROVE  Obeying(conn'[c]) /\ RunsNone(conn'[c]) /\ Within(conn'[c], up.n)
    <3> DEFINE k == Replied(conn[c], conn[c].running)
               ev == IF c \in those THEN Append(k.events, "Done") ELSE k.events
               l == IF Registered(c) THEN Append(k.ctl, e) ELSE k.ctl
               h == [k EXCEPT !.events = ev, !.ctl = l]
    <3>1. /\ k.ctl = conn[c].ctl /\ k.at = conn[c].at /\ k.hung = conn[c].hung
          /\ k.closing = conn[c].closing /\ k.reply = conn[c].reply /\ k.running = {}
      BY <1>0 DEF Replied, Connection
    <3>2. k \in Connection
      BY <1>0, ConnKept DEF Conn, Connection
    <3>3. conn'[c] = h
      BY <2>5, <3>2 DEF Connection
    <3>4. l \in {conn[c].ctl, Append(conn[c].ctl, e)}
      BY <3>1
    <3> HIDE DEF k, ev, l
    <3>5. /\ h.ctl = l /\ h.at = conn[c].at /\ h.running = {} /\ h.hung = conn[c].hung
          /\ h.closing = conn[c].closing /\ h.reply = conn[c].reply
      BY <3>1, <3>2 DEF Connection
    <3> HIDE DEF h, e
    <3>6. Obeying(h) /\ RunsNone(h) /\ Within(h, up.n)
      <4>1. Told(conn[c], h, e)
        BY <3>4, <3>5 DEF Told
      <4> QED
        BY <1>0, <1>2, <4>1, ToHear
    <3> QED
      BY <3>3, <3>6
  <2>7. ConnsHeld'
    BY <1>0, <2>1, <2>6 DEF ConnsHeld
  <2> QED
    BY <1>1, <2>3, <2>4, <2>7
<1>4. CASE ProcessEnds
  <2>1. runner' \in {"cut", "ended"} /\ UNCHANGED <<paused, kern>>
    BY <1>4 DEF ProcessEnds
  <2>2. Numbers' /\ TasksHeld'
    BY <1>0, <2>1 DEF Numbers, TasksHeld, Tasks, HeldAt
  <2>3. ASSUME NEW c \in Client
        PROVE  Obeying(conn'[c]) /\ RunsNone(conn'[c]) /\ Within(conn'[c], up.n)
    <3>1. conn'[c] = Away \/ conn'[c] = Gone(conn[c])
      BY <1>4 DEF ProcessEnds
    <3>2. /\ conn'[c].at \in {"away", "gone"} /\ conn'[c].ctl = <<>>
          /\ conn'[c].reply = NoReply \/ conn'[c].reply = conn[c].reply
      <4>1. CASE conn'[c] = Away
        BY <4>1 DEF Away
      <4>2. CASE conn'[c] = Gone(conn[c])
        BY <4>2 DEF Away, Gone
      <4> QED
        BY <3>1, <4>1, <4>2
    <3>3. Len(conn'[c].ctl) = 0 /\ NoReply.of = 0
      BY <3>2 DEF NoReply
    <3> QED
      BY <1>0, <3>2, <3>3 DEF Obeying, RunsNone, Within
  <2>4. ConnsHeld'
    BY <1>0, <2>1, <2>3 DEF ConnsHeld
  <2> QED
    BY <1>1, <2>2, <2>4
<1> QED
  BY <1>3, <1>4 DEF RunnerStep

\* The new image takes over what the snapshot has, or ends.
LEMMA ExecHeld ==
  ASSUME ChildState, Types, Types', Numbers, TasksHeld, ConnsHeld, Exec \/ ResumeFails
  PROVE  Numbers' /\ TasksHeld' /\ ConnsHeld'
<1>0. /\ up \in Attempt /\ up.n \in Nat /\ kern \in KernelState /\ KernelFrozen /\ Live
      /\ up' = NoUpgrade(up.n, up.images + 1)
      /\ \A c \in Client : /\ conn[c] \in Connection
                           /\ Obeying(conn[c]) /\ RunsNone(conn[c]) /\ Within(conn[c], up.n)
  BY DEF Types, Attempt, Exec, ResumeFails, ConnsHeld
<1>1. up'.stage = "none" /\ up'.n = up.n
  BY <1>0 DEF NoUpgrade
<1>2. up.n > 0 /\ kern.freeze = up.n
  BY <1>0 DEF KernelFrozen, Numbers
<1>3. runner = "serving" /\ \A c \in Client : Open(conn[c])
  BY <1>0, <1>2 DEF ConnsHeld, Live
<1>4. TasksHeld'
  BY <1>1 DEF TasksHeld
<1>5. ASSUME NEW c \in Client, conn'[c] \in {Away, Gone(conn[c]), conn[c]}
      PROVE  /\ Obeying(conn'[c]) /\ RunsNone(conn'[c]) /\ Within(conn'[c], up.n)
             /\ Open(conn'[c])
  <2>1. CASE conn'[c] = conn[c]
    BY <1>0, <1>3, <2>1
  <2>2. CASE conn'[c] \in {Away, Gone(conn[c])}
    <3>1. /\ conn'[c].at \in {"away", "gone"} /\ conn'[c].ctl = <<>> /\ conn'[c].closing = FALSE
          /\ conn'[c].reply = NoReply \/ conn'[c].reply = conn[c].reply
      <4>1. CASE conn'[c] = Away
        BY <4>1 DEF Away
      <4>2. CASE conn'[c] = Gone(conn[c])
        BY <4>2 DEF Away, Gone
      <4> QED
        BY <2>2, <4>1, <4>2
    <3>2. Len(conn'[c].ctl) = 0 /\ NoReply.of = 0
      BY <3>1 DEF NoReply
    <3> QED
      BY <1>0, <3>1, <3>2 DEF Obeying, RunsNone, Within, Open
  <2> QED
    BY <1>5, <2>1, <2>2
<1>6. CASE Exec
  <2> DEFINE q == SetToMsgs({c \in Carried : conn[c].reply.what.kind = "Wait"})
  <2>1. /\ kern' = [Fresh EXCEPT !.queue = q] /\ runner' = runner
        /\ conn' = [c \in Client |-> AfterExec(c)]
    BY <1>6 DEF Exec
  <2>2. q \in Seq({"wait"} \X Client \X Nat)
    BY <1>2, WaitsAnew
  <2> HIDE DEF q
  <2>3. kern'.queue = q /\ kern'.freeze = 0 /\ kern'.over = FALSE
    BY <2>1 DEF Fresh
  <2>4. \A i \in 1 .. Len(q) : q[i][1] # "Freeze"
    <3> SUFFICES ASSUME NEW i \in 1 .. Len(q) PROVE q[i][1] # "Freeze"
      OBVIOUS
    <3>1. q[i] \in {"wait"} \X Client \X Nat
      BY <2>2
    <3> QED
      BY <3>1
  <2>5. Numbers'
    BY <1>0, <1>1, <2>3, <2>4 DEF Numbers
  <2>6. ASSUME NEW c \in Client
        PROVE  /\ Obeying(conn'[c]) /\ RunsNone(conn'[c]) /\ Within(conn'[c], up.n)
               /\ Open(conn'[c])
    <3>1. CASE c \in Carried
      <4> DEFINE h == Resumed(c)
      <4>1. conn'[c] = h
        BY <2>1, <3>1 DEF AfterExec
      <4>2. h.ctl = <<>> /\ h.reply = NoReply /\ h.at \in {"resuming", "rpc"}
        BY <1>2, <3>1, ResumedTyped
      <4>3. h.running = {} /\ h.closing = FALSE
        BY DEF Resumed, Away
      <4>4. Len(h.ctl) = 0 /\ h.reply.of = 0
        BY <4>2 DEF NoReply
      <4> HIDE DEF h
      <4> QED
        BY <1>0, <4>1, <4>2, <4>3, <4>4 DEF Obeying, RunsNone, Within, Open
    <3>2. CASE c \notin Carried
      <4>1. conn'[c] \in {Gone(conn[c]), conn[c]}
        BY <2>1, <3>2 DEF AfterExec
      <4> QED
        BY <1>5, <4>1
    <3> QED
      BY <3>1, <3>2
  <2>7. ConnsHeld'
    BY <1>1, <1>3, <2>1, <2>3, <2>6 DEF ConnsHeld
  <2> QED
    BY <1>4, <2>5, <2>7
<1>7. CASE ResumeFails
  <2>1. runner' = "failed" /\ UNCHANGED <<paused, kern>>
        /\ \A c \in Client : conn'[c] \in {Away, Gone(conn[c])}
    BY <1>7 DEF ResumeFails
  <2>2. Numbers'
    BY <1>1, <2>1 DEF Numbers
  <2>3. ConnsHeld'
    BY <1>1, <1>5, <2>1 DEF ConnsHeld
  <2> QED
    BY <1>4, <2>2, <2>3
<1> QED
  BY <1>6, <1>7

-----------------------------------------------------------------------------
(* What becomes of the children *)

\* The reaper's and the handlers' steps.
LEMMA ReaperKept ==
  ASSUME ChildState, ReaperStep
  PROVE  ChildState' /\ \A p \in Pid : procs[p].st = "free" => procs'[p].st # "zombie"
<1>1. ASSUME NEW p \in Pid, Exit(p) \/ Reap(p)
      PROVE  ChildState' /\ \A q \in Pid : procs[q].st = "free" => procs'[q].st # "zombie"
  BY <1>1, ExitKept, ReapKept
<1>2. ASSUME NEW t \in Task, TaskStep(t) \/ Forget(t)
      PROVE  ChildState' /\ procs' = procs
  <2>1. procs' = procs
    BY <1>2 DEF TaskStep, Register, Adopt, TakeExit, OutputEnds, FreezeTask, ThawTask, Forget
  <2> QED
    BY <1>2, <2>1, RegisterKept, HandlerKept DEF TaskStep
<1>3. ASSUME NEW t \in Task, Kill(t)
      PROVE  ChildState' /\ \A q \in Pid : procs[q].st = "free" => procs'[q].st # "zombie"
  BY <1>3, KillKept
<1>4. ASSUME NEW t \in Task, NEW kind \in {"child", "command"}, Fork(t, kind)
      PROVE  ChildState' /\ \A q \in Pid : procs[q].st = "free" => procs'[q].st # "zombie"
  BY <1>4, ForkKept
<1> QED
  BY <1>1, <1>2, <1>3, <1>4 DEF ReaperStep

\* At the start there are none.
LEMMA ChildInit ==
  ASSUME Init
  PROVE  ChildInv
<1>1. /\ procs = [p \in Pid |-> NoProcess] /\ reaper = NewReaper /\ heard = <<>>
      /\ task = [t \in Task |-> [Idle EXCEPT !.step = IF t \in here.tasks THEN "idle" ELSE "none"]]
      /\ conn = [c \in Client |-> IF c \in here.clients THEN Away ELSE [Away EXCEPT !.at = "gone"]]
      /\ paused = FALSE /\ kern = Fresh /\ runner = "serving" /\ here \in Populations
      /\ up = NoUpgrade(0, 0)
  BY DEF Init, ConnectionsInit, ReaperInit
<1>2. ChildTypes
  <2>1. NoProcess \in Process /\ NewReaper \in ReaperState /\ heard \in Seq(Seq(Nat))
    BY <1>1 DEF NoProcess, Process, NewReaper, ReaperState
  <2>2. Idle \in Handler
    BY DEF Idle, Handler
  <2>3. ASSUME NEW t \in Task PROVE task[t] \in Handler
    <3> DEFINE s == IF t \in here.tasks THEN "idle" ELSE "none"
    <3>1. task[t] = [Idle EXCEPT !.step = s] /\ s \in {"none", "idle", "forked"}
      BY <1>1
    <3> HIDE DEF s
    <3> QED
      BY <2>2, <3>1 DEF Handler
  <2>4. task \in [Task -> Handler]
    BY <1>1, <2>3
  <2> QED
    BY <1>1, <2>1, <2>4 DEF ChildTypes
<1>3. Types
  <2>1. ASSUME NEW c \in Client PROVE Conn(conn[c])
    <3>1. Away \in Connection /\ Away.running = {}
      BY Empties DEF Away, Connection, At
    <3>2. conn[c] \in {Away, [Away EXCEPT !.at = "gone"]}
      BY <1>1
    <3> HIDE DEF Away
    <3>3. /\ [Away EXCEPT !.at = "gone"] \in Connection
          /\ [Away EXCEPT !.at = "gone"].running = {}
      <4>1. Away \in Connection /\ "gone" \in At
        BY <3>1, Empties
      <4>2. [Away EXCEPT !.at = "gone"] \in Connection
        BY <4>1 DEF Connection
      <4> QED
        BY <3>1, <4>1, <4>2 DEF Connection
    <3> QED
      BY <3>1, <3>2, <3>3, Empties DEF Conn
  <2>2. conn \in [Client -> Connection]
    BY <1>1, <2>1 DEF Conn
  <2>3. kern \in KernelState /\ up \in Attempt
    BY <1>1 DEF Fresh, KernelState, NoUpgrade, Attempt
  <2> QED
    BY <1>1, <2>1, <2>2, <2>3 DEF Types
<1>4. Children
  <2>1. Started = 0
    BY <1>1 DEF Started
  <2>2. \A p \in Pid : ~Occupied(p) /\ ~Unclaimed(p) /\ reaper.listeners[p] = 0
                       /\ reaper.unclaimed[p].place < reaper.reaped
    BY <1>1 DEF Occupied, Unclaimed, NoProcess, NewReaper
  <2>3. \A t \in Task : /\ task[t].step \in {"idle", "none"} /\ task[t].pid = 0 /\ task[t].child = 0
                        /\ ~task[t].adopt
    BY <1>1 DEF Idle
  <2>4. OnePlace /\ Listening /\ OwnExit
    BY <2>1, <2>2 DEF OnePlace, Listening, OwnExit
  <2>5. Spawning /\ Known
    BY <2>3 DEF Spawning, SpawningAt, Known, KnownAt
  <2>6. Apart
    BY <2>3, ReaperAssumption DEF Apart, HoldsPid, ChildAt
  <2> QED
    BY <2>4, <2>5, <2>6 DEF Children
<1>5. Numbers /\ TasksHeld
  BY <1>1 DEF Numbers, TasksHeld, Fresh, NoUpgrade
<1>6. ConnsHeld
  <2>1. \A c \in Client : /\ conn[c].at \in {"away", "gone"} /\ conn[c].ctl = <<>>
                          /\ conn[c].reply = NoReply /\ conn[c].closing = FALSE
    BY <1>1 DEF Away
  <2>2. NoReply.of = 0 /\ \A c \in Client : Len(conn[c].ctl) = 0
    BY <2>1 DEF NoReply
  <2>3. \A c \in Client : /\ Obeying(conn[c]) /\ RunsNone(conn[c]) /\ Within(conn[c], up.n)
                          /\ Open(conn[c])
    BY <1>1, <2>1, <2>2 DEF Obeying, RunsNone, Within, Open, NoUpgrade
  <2> QED
    BY <1>1, <2>3 DEF ConnsHeld, NoUpgrade, Fresh
<1> QED
  BY <1>2, <1>3, <1>4, <1>5, <1>6 DEF ChildInv

\* Every step keeps the types,
LEMMA TypesKept ==
  ASSUME ChildInv, [Next]_vars
  PROVE  Types'
<1>0. /\ ConnTypes /\ Types /\ here \in Populations /\ up \in Attempt
      /\ here.kinds \subseteq {"call", "quit", "wait", "upgrade"}
      /\ \A c \in Client : Obeying(conn[c])
  BY UpgradeAssumption DEF ChildInv, Types, ConnTypes, ConnsHeld, Population
<1>1. ASSUME ConnTypes', UNCHANGED <<here, up>> PROVE Types'
  BY <1>0, <1>1 DEF Types, ConnTypes
<1>2. CASE ClientStep
  <2>1. PICK c \in Client :
          \/ Connect(c) \/ HangUp(c) \/ Accept(c) \/ Serve(c) \/ SessionTimeout(c)
          \/ Verdict(c)
          \/ \E kind \in {"call", "quit", "wait", "upgrade"} : AskFor(c, kind)
    BY <1>0, <1>2 DEF ClientStep
  <2>2. UNCHANGED <<here, up>>
    BY <1>2 DEF ClientStep
  <2>3. ConnTypes'
    BY <1>0, <2>1, ComingTyped, ServeTyped
  <2> QED
    BY <1>1, <2>2, <2>3
<1>3. CASE RunnerStep
  <2>1. ConnTypes' /\ UNCHANGED <<here, up>>
    BY <1>0, <1>3, EndTyped DEF RunnerStep
  <2> QED
    BY <1>1, <2>1
<1>4. CASE ReaperStep
  BY <1>0, <1>1, <1>4 DEF ReaperStep, ConnTypes
<1>5. CASE KernelTurn
  <2>1. ConnTypes' /\ UNCHANGED <<here, up>>
    BY <1>0, <1>5, KernelTyped DEF KernelTurn
  <2> QED
    BY <1>1, <2>1
<1>6. CASE (\E c \in Client : StartFor(c) \/ RefuseUpgrade(c)) \/ Start(Other) \/ FreezeKernel \/ Fail
  BY <1>0, <1>6, AttemptTyped
<1>7. CASE Exec \/ ResumeFails
  <2>1. up.n > 0
    BY <1>7 DEF Exec, ResumeFails, KernelFrozen, ChildInv, Numbers
  <2> QED
    BY <1>0, <1>7, <2>1, ExecTyped
<1>8. CASE UNCHANGED vars
  BY <1>0, <1>1, <1>8 DEF vars, ConnTypes
<1> QED
  BY <1>2, <1>3, <1>4, <1>5, <1>6, <1>7, <1>8 DEF Next, UpgradeStep

\* and all else; no number without a process gets a dead one.
LEMMA ChildNext ==
  ASSUME ChildInv, [Next]_vars
  PROVE  ChildInv' /\ \A p \in Pid : procs[p].st = "free" => procs'[p].st # "zombie"
<1>0. Types' /\ Types /\ ChildState /\ Numbers /\ TasksHeld /\ ConnsHeld
      /\ reaper \in ReaperState /\ task \in [Task -> Handler]
  BY TypesKept DEF ChildInv, ChildState, ChildTypes
<1>1. ASSUME procs' = procs, ChildState', Numbers', TasksHeld', ConnsHeld'
      PROVE  ChildInv' /\ \A p \in Pid : procs[p].st = "free" => procs'[p].st # "zombie"
  BY <1>0, <1>1 DEF ChildInv, ChildState
<1>2. CASE ClientStep
  <2>1. UNCHANGED <<procs, reaper, task, heard>>
    BY <1>2 DEF ClientStep
  <2>2. ChildState'
    BY <1>0, <2>1, SameChildren
  <2> QED
    BY <1>0, <1>1, <1>2, <2>1, <2>2, ClientKept
<1>3. CASE RunnerStep
  <2>1. procs' = procs
    BY <1>3 DEF RunnerStep
  <2> QED
    BY <1>0, <1>1, <1>3, <2>1, RunnerKept
<1>4. CASE ReaperStep
  <2>1. UNCHANGED <<conn, paused, kern, runner, here, up>>
    BY <1>4 DEF ReaperStep
  <2>2. Numbers' /\ ConnsHeld'
    BY <1>0, <2>1 DEF Numbers, ConnsHeld
  <2> QED
    BY <1>0, <1>4, <2>2, ReaperKept, ReaperHeld DEF ChildInv, ChildState
<1>5. CASE KernelTurn
  <2>1. procs' = procs
    BY <1>5 DEF KernelTurn
  <2> QED
    BY <1>0, <1>1, <1>5, <2>1, KernelKept
<1>6. ASSUME NEW by \in Client \cup {Other}, Start(by)
      PROVE  ChildInv' /\ \A p \in Pid : procs[p].st = "free" => procs'[p].st # "zombie"
  <2>1. procs' = procs
    BY <1>6 DEF Start
  <2> QED
    BY <1>0, <1>1, <1>6, <2>1, StartKept
<1>7. ASSUME NEW c \in Client, RefuseUpgrade(c)
      PROVE  ChildInv' /\ \A p \in Pid : procs[p].st = "free" => procs'[p].st # "zombie"
  <2>1. procs' = procs
    BY <1>7 DEF RefuseUpgrade
  <2> QED
    BY <1>0, <1>1, <1>7, <2>1, RefuseKept
<1>8. CASE FreezeKernel \/ Fail
  <2>1. procs' = procs
    BY <1>8 DEF FreezeKernel, Fail
  <2> QED
    BY <1>0, <1>1, <1>8, <2>1, FreezeKernelKept, FailKept
<1>9. CASE Exec
  <2>1. procs' = procs
    BY <1>9 DEF Exec
  <2> QED
    BY <1>0, <1>1, <1>9, <2>1, ExecKept, ExecHeld
<1>10. CASE ResumeFails
  BY <1>0, <1>10, FailsKept, ExecHeld DEF ChildInv, ChildState
<1>11. CASE UNCHANGED vars
  <2>1. Numbers' /\ TasksHeld' /\ ConnsHeld'
    BY <1>0, <1>11 DEF vars, Numbers, TasksHeld, Tasks, HeldAt, ConnsHeld
  <2> QED
    BY <1>0, <1>1, <1>11, <2>1, SameChildren DEF vars
<1> QED
  BY <1>2, <1>3, <1>4, <1>5, <1>6, <1>7, <1>8, <1>9, <1>10, <1>11 DEF Next, UpgradeStep, StartFor

\* When the kernel has answered, every connection that is there has.
LEMMA HeldStands ==
  ASSUME ChildInv
  PROVE  SnapshotStands
<1> SUFFICES ASSUME Live, KernelFrozen, NEW c \in Client, Registered(c), ~conn[c].hung
             PROVE  /\ c \in Carried /\ conn[c].reply.what = carried(conn[c])
                    /\ conn[c].running = {}
  BY DEF SnapshotStands
<1>1. up.stage = "kernel" /\ up.n > 0 /\ kern.freeze = up.n
  BY DEF KernelFrozen, ChildInv, Numbers, Types, Attempt
<1>2. runner = "serving"
  BY <1>1 DEF Live, ChildInv, ConnsHeld
<1>3. c \in up.asked /\ Answers(conn[c], up.n)
  BY <1>1, <1>2 DEF ChildInv, ConnsHeld, Here, Registered
<1> QED
  BY <1>3 DEF Answers, Carried, HasReplied

-----------------------------------------------------------------------------
(* What a session is told *)

Attending == {"asking", "resuming", "session"}

\* The kernel is asked for the wait of c, once at most.
IsWait(msg, c) == msg[1] = "wait" /\ msg[2] = c
Waited(q, c) == \E i \in 1 .. Len(q) : IsWait(q[i], c)
WaitedOnce(q, c) == \A i, j \in 1 .. Len(q) : IsWait(q[i], c) /\ IsWait(q[j], c) => i = j

\* What the kernel kn has told the connection k of c: for each wait that it has, or that
\* it took up, a set before a verdict, and after a verdict nothing.
Hears(k, c, kn) ==
  \/ k.hung
  \/ /\ k.at \in {"asking", "resuming"} /\ k.events = <<>> /\ c \notin kn.waits
     /\ ~kn.over => WaitedOnce(kn.queue, c)
  \/ /\ ~kn.over => ~Waited(kn.queue, c)
     /\ \/ k.at \in {"asking", "resuming"} /\ k.events = <<"Set">>
        \/ k.at = "session" /\ k.events = <<>>
        \/ /\ c \notin kn.waits
           /\ \/ k.at \notin Attending /\ k.events = <<>>
              \/ k.at \in {"asking", "resuming"} /\ k.events \in {<<"Set", "Done">>, <<"Nothing">>}
              \/ k.at = "session" /\ k.events = <<"Done">>

Hearing ==
  /\ Live => \A c \in Client : Hears(conn[c], c, kern)
  /\ kern.over => kern.waits = {}

\* The kernel has no more of c than it had.
Quiet(c) ==
  /\ kern'.over = kern.over
  /\ c \in kern'.waits => c \in kern.waits
  /\ Waited(kern'.queue, c) => Waited(kern.queue, c)
  /\ WaitedOnce(kern.queue, c) => WaitedOnce(kern'.queue, c)

\* A connection that goes on with what it was told, or whose client has left.
Still(k, h) ==
  /\ k.hung => h.hung
  /\ \/ k.hung
     \/ h.events = k.events /\ (h.at = k.at \/ {k.at, h.at} \cap Attending = {})

\* A verdict that is no longer to be written was written.
Spoken(k, h) ==
  "Done" \in ToSet(k.events) /\ "Done" \notin ToSet(h.events) =>
    k.hung \/ <<"done", k.wait>> \in ToSet(h.got \o h.out)

\* Then what was told stands as it stood.
LEMMA StillHears ==
  ASSUME NEW c, NEW k \in Connection, NEW h \in Connection, NEW n, NEW m, Hears(k, c, n), Still(k, h),
         m.over = n.over, c \in m.waits => c \in n.waits,
         Waited(m.queue, c) => Waited(n.queue, c), WaitedOnce(n.queue, c) => WaitedOnce(m.queue, c)
  PROVE  Hears(h, c, m) /\ Spoken(k, h)
<1>1. Spoken(k, h)
  <2>1. CASE k.hung
    BY <2>1 DEF Spoken
  <2>2. CASE ~k.hung
    <3>1. h.events = k.events
      BY <2>2 DEF Still
    <3> QED
      BY <3>1 DEF Spoken
  <2> QED
    BY <2>1, <2>2
<1> SUFFICES Hears(h, c, m)
  BY <1>1
<1>2. CASE k.hung
  BY <1>2 DEF Hears, Still
<1>3. CASE ~k.hung
  <2>1. h.events = k.events /\ (h.at = k.at \/ (k.at \notin Attending /\ h.at \notin Attending))
    BY <1>3 DEF Still
  <2>2. ~m.over <=> ~n.over
    OBVIOUS
  <2>3. CASE /\ k.at \in {"asking", "resuming"} /\ k.events = <<>> /\ c \notin n.waits
             /\ ~n.over => WaitedOnce(n.queue, c)
    BY <2>1, <2>2, <2>3 DEF Hears, Attending
  <2>4. CASE (~n.over => ~Waited(n.queue, c)) /\ k.at \notin Attending
    <3>1. c \notin n.waits /\ k.events = <<>>
      BY <1>3, <2>4 DEF Hears, Attending
    <3> QED
      BY <2>1, <2>2, <2>4, <3>1 DEF Hears, Attending
  <2>5. CASE (~n.over => ~Waited(n.queue, c)) /\ k.at \in Attending
    BY <1>3, <2>1, <2>2, <2>3, <2>5 DEF Hears, Attending
  <2> QED
    BY <1>3, <2>3, <2>4, <2>5 DEF Hears
<1> QED
  BY <1>2, <1>3

\* Taking a message from the channel, and a message on something else.
LEMMA QueueQuiet ==
  ASSUME NEW q \in Seq(KernelMsg), NEW p, NEW c,
         \/ p = q
         \/ q # <<>> /\ p = Tail(q)
         \/ \E e \in KernelMsg : ~IsWait(e, c) /\ p = Append(q, e)
  PROVE  /\ Waited(p, c) => Waited(q, c)
         /\ WaitedOnce(q, c) => WaitedOnce(p, c)
<1>1. CASE p = q
  BY <1>1
<1>2. CASE q # <<>> /\ p = Tail(q)
  <2>1. /\ Len(p) = Len(q) - 1
        /\ \A i \in 1 .. Len(p) : p[i] = q[i + 1] /\ i + 1 \in 1 .. Len(q)
    BY <1>2
  <2>2. Waited(p, c) => Waited(q, c)
    BY <2>1 DEF Waited
  <2>3. ASSUME WaitedOnce(q, c), NEW i \in 1 .. Len(p), NEW j \in 1 .. Len(p),
               IsWait(p[i], c), IsWait(p[j], c)
        PROVE  i = j
    <3>1. i + 1 = j + 1
      BY <2>1, <2>3 DEF WaitedOnce
    <3> QED
      BY <2>1, <3>1
  <2> QED
    BY <2>2, <2>3 DEF WaitedOnce
<1>3. ASSUME NEW e \in KernelMsg, ~IsWait(e, c), p = Append(q, e)
      PROVE  /\ Waited(p, c) => Waited(q, c)
             /\ WaitedOnce(q, c) => WaitedOnce(p, c)
  <2>1. \A i \in 1 .. Len(p) : (i \in 1 .. Len(q) /\ p[i] = q[i]) \/ p[i] = e
    BY <1>3
  <2> QED
    BY <1>3, <2>1 DEF Waited, WaitedOnce
<1> QED
  BY <1>1, <1>2, <1>3

\* A kernel that is only taken from, or asked for something else.
LEMMA KernQuiet ==
  ASSUME kern \in KernelState, kern'.over = kern.over, kern'.waits \subseteq kern.waits, NEW c,
         \/ kern'.queue = kern.queue
         \/ kern.queue # <<>> /\ kern'.queue = Tail(kern.queue)
         \/ \E e \in KernelMsg : ~IsWait(e, c) /\ kern'.queue = Append(kern.queue, e)
  PROVE  Quiet(c)
<1>1. kern.queue \in Seq(KernelMsg)
  BY DEF KernelState
<1>2. /\ Waited(kern'.queue, c) => Waited(kern.queue, c)
      /\ WaitedOnce(kern.queue, c) => WaitedOnce(kern'.queue, c)
  BY <1>1, QueueQuiet
<1> QED
  BY <1>2 DEF Quiet

\* What a step of c comes to.
Attends(c) ==
  /\ \A d \in Client : d # c => conn'[d] = conn[d] /\ Quiet(d)
  /\ Hears(conn'[c], c, kern') /\ Spoken(conn[c], conn'[c])

\* A step of c that leaves it with what it was told.
LEMMA StillAttends ==
  ASSUME ConnTypes, ConnTypes', NEW c \in Client, Hears(conn[c], c, kern),
         \A d \in Client : d # c => conn'[d] = conn[d],
         \A d \in Client : Quiet(d), Still(conn[c], conn'[c])
  PROVE  Attends(c)
<1>1. conn[c] \in Connection /\ conn'[c] \in Connection
  BY DEF ConnTypes
<1>2. Quiet(c)
  OBVIOUS
<1>3. Hears(conn'[c], c, kern') /\ Spoken(conn[c], conn'[c])
  BY <1>1, <1>2, StillHears DEF Quiet
<1> QED
  BY <1>3 DEF Attends

\* What comes from a client, and the accept loop.
LEMMA ComingAttends ==
  ASSUME ConnTypes, ConnTypes', NEW c \in Client, Hears(conn[c], c, kern),
         \/ Connect(c) \/ HangUp(c) \/ Accept(c)
         \/ \E kind \in {"call", "quit", "wait", "upgrade"} : AskFor(c, kind)
  PROVE  Attends(c)
<1>0. conn \in [Client -> Connection] /\ conn[c] \in Connection /\ kern \in KernelState
  BY DEF ConnTypes
<1>1. kern' = kern
  BY DEF Connect, HangUp, Accept, AskFor
<1>2. \A d \in Client : Quiet(d)
  BY <1>1 DEF Quiet
<1>3. /\ \A d \in Client : d # c => conn'[d] = conn[d]
      /\ Still(conn[c], conn'[c])
  <2>1. CASE Connect(c)
    <3>1. \E q : conn' = [conn EXCEPT ![c] = [conn[c] EXCEPT !.at = "backlog", !.sock = q]]
      BY <1>0, <2>1 DEF Connect
    <3>2. conn[c].at = "away"
      BY <2>1 DEF Connect
    <3> QED
      BY <1>0, <3>1, <3>2 DEF Still, Attending, Connection
  <2>2. CASE HangUp(c)
    <3>1. conn' = [conn EXCEPT ![c] = [conn[c] EXCEPT !.hung = TRUE]]
      BY <1>0, <2>2 DEF HangUp
    <3> QED
      BY <1>0, <3>1 DEF Still, Attending, Connection
  <2>3. CASE Accept(c)
    <3>1. conn' = [conn EXCEPT ![c] = [conn[c] EXCEPT !.at = "rpc"]] /\ conn[c].at = "backlog"
      BY <1>0, <2>3 DEF Accept
    <3> QED
      BY <1>0, <3>1 DEF Still, Attending, Connection
  <2>4. ASSUME NEW kind \in {"call", "quit", "wait", "upgrade"}, AskFor(c, kind)
        PROVE  /\ \A d \in Client : d # c => conn'[d] = conn[d]
               /\ Still(conn[c], conn'[c])
    <3> DEFINE n == conn[c].sent + 1
               q == Append(conn[c].sock, <<kind, n>>)
    <3>1. conn' = [conn EXCEPT ![c] = [conn[c] EXCEPT !.sent = n, !.sock = q]]
      BY <1>0, <2>4 DEF AskFor
    <3> HIDE DEF n, q
    <3> QED
      BY <1>0, <3>1 DEF Still, Attending, Connection
  <2> QED
    BY <2>1, <2>2, <2>3, <2>4
<1> QED
  BY <1>2, <1>3, StillAttends

\* What a request does to its connection is not to tell it anything.
LEMMA TakenStill ==
  ASSUME NEW k, Conn(k), k.at = "rpc", kern \in KernelState, NEW c \in Client, NEW msg \in Msg
  PROVE  /\ Taken(k, c, msg).conn.events = k.events
         /\ kern' = Taken(k, c, msg).kern => \A d \in Client : Quiet(d)
<1>0. /\ k \in Connection /\ msg[2] \in Nat
      /\ msg[1] \in {"hello", "call", "quit", "wait", "upgrade"}
  BY DEF Conn, Msg
<1>1. kern' = kern => \A d \in Client : Quiet(d)
  BY DEF Quiet
<1>2. CASE msg[1] = "hello"
  <2>1. Taken(k, c, msg) = [conn |-> [k EXCEPT !.hello = TRUE, !.out = Append(@, msg)], kern |-> kern]
    BY <1>2 DEF Taken
  <2>2. /\ Taken(k, c, msg).conn = [k EXCEPT !.hello = TRUE, !.out = Append(@, msg)]
        /\ Taken(k, c, msg).kern = kern
    BY <2>1
  <2>3. Taken(k, c, msg).conn.events = k.events
    BY <1>0, <2>2 DEF Connection
  <2> QED
    BY <1>1, <2>2, <2>3
<1>3. CASE msg[1] \in {"call", "quit"}
  <2> DEFINE e == <<msg[1], c, msg[2]>>
  <2>1. Taken(k, c, msg) = [conn |-> [k EXCEPT !.running = @ \cup {msg[2]}], kern |-> Queue(kern, e)]
    BY <1>3 DEF Taken, Handle
  <2>2. e \in KernelMsg /\ \A d \in Client : ~IsWait(e, d)
    BY <1>0, <1>3 DEF KernelMsg, IsWait
  <2> HIDE DEF e
  <2>3. ASSUME kern' = Queue(kern, e) PROVE \A d \in Client : Quiet(d)
    <3>1. /\ kern'.over = kern.over /\ kern'.waits = kern.waits
          /\ kern'.queue = Append(kern.queue, e)
      BY <2>3 DEF Queue, KernelState
    <3> QED
      BY <2>2, <3>1, KernQuiet
  <2>4. /\ Taken(k, c, msg).conn = [k EXCEPT !.running = @ \cup {msg[2]}]
        /\ Taken(k, c, msg).kern = Queue(kern, e)
    BY <2>1
  <2>5. Taken(k, c, msg).conn.events = k.events
    BY <1>0, <2>4 DEF Connection
  <2> QED
    BY <2>3, <2>4, <2>5
<1>4. CASE msg[1] = "wait"
  <2>1. Taken(k, c, msg) = [conn |-> [k EXCEPT !.at = "drain", !.wait = msg[2], !.dropped = k.upgrade],
                            kern |-> kern]
    BY <1>4 DEF Taken
  <2>2. /\ Taken(k, c, msg).conn = [k EXCEPT !.at = "drain", !.wait = msg[2], !.dropped = k.upgrade]
        /\ Taken(k, c, msg).kern = kern
    BY <2>1
  <2>3. Taken(k, c, msg).conn.events = k.events
    BY <1>0, <2>2 DEF Connection
  <2> QED
    BY <1>1, <2>2, <2>3
<1>5. CASE msg[1] = "upgrade"
  <2>1. Taken(k, c, msg) = [conn |-> IF k.upgrade # 0
                                     THEN [k EXCEPT !.out = Append(@, <<"error", msg[2]>>)]
                                     ELSE [k EXCEPT !.upgrade = msg[2], !.attempt = "spawned"],
                            kern |-> kern]
    BY <1>5 DEF Taken
  <2>2. /\ \/ Taken(k, c, msg).conn = [k EXCEPT !.out = Append(@, <<"error", msg[2]>>)]
           \/ Taken(k, c, msg).conn = [k EXCEPT !.upgrade = msg[2], !.attempt = "spawned"]
        /\ Taken(k, c, msg).kern = kern
    BY <2>1
  <2> QED
    BY <1>0, <1>1, <2>2 DEF Connection
<1> QED
  BY <1>0, <1>2, <1>3, <1>4, <1>5

\* Reading.
LEMMA ReadAttends ==
  ASSUME ConnTypes, ConnTypes', NEW c \in Client, Hears(conn[c], c, kern), Read(c)
  PROVE  Attends(c)
<1> DEFINE k == conn[c]
<1>0. /\ Conn(k) /\ k \in Connection /\ kern \in KernelState /\ conn \in [Client -> Connection]
      /\ k.buf \in Seq(Msg) /\ k.sock \in Seq(Msg)
  BY DEF ConnTypes, Conn, Connection
<1>1. k.at = "rpc"
  BY DEF Read, Reading
<1>2. ASSUME NEW b \in Seq(Msg), NEW s \in Seq(Msg), NEW msg \in Msg,
             conn' = [conn EXCEPT ![c] = Taken([k EXCEPT !.buf = b, !.sock = s], c, msg).conn],
             kern' = Taken([k EXCEPT !.buf = b, !.sock = s], c, msg).kern
      PROVE  Attends(c)
  <2> DEFINE h == [k EXCEPT !.buf = b, !.sock = s]
  <2> HIDE DEF k
  <2>1. /\ h \in Connection /\ h.running = k.running /\ h.at = k.at /\ h.events = k.events
        /\ h.hung = k.hung
    BY <1>0 DEF Connection
  <2>2. Conn(h)
    BY <1>0, <2>1 DEF Conn
  <2> DEFINE g == Taken(h, c, msg).conn
  <2>3. conn' = [conn EXCEPT ![c] = g] /\ kern' = Taken(h, c, msg).kern
    BY <1>2
  <2> HIDE DEF h
  <2>4. /\ g.events = k.events /\ g.at \in {"rpc", "drain"} /\ g.hung = k.hung
        /\ \A d \in Client : Quiet(d)
    BY <1>0, <1>1, <2>1, <2>2, <2>3, TakenCalm, TakenStill
  <2> HIDE DEF g
  <2>5. Still(k, g)
    BY <1>1, <2>4 DEF Still, Attending
  <2>6. conn'[c] = g /\ \A d \in Client : d # c => conn'[d] = conn[d]
    BY <1>0, <2>3
  <2> QED
    BY <2>4, <2>5, <2>6, StillAttends DEF k
<1>3. CASE /\ k.buf # <<>>
           /\ LET taken == Taken([k EXCEPT !.buf = Tail(@)], c, Head(k.buf))
              IN conn' = [conn EXCEPT ![c] = taken.conn] /\ kern' = taken.kern
  <2> DEFINE b == Tail(k.buf)
             msg == Head(k.buf)
  <2>1. b \in Seq(Msg) /\ msg \in Msg
    BY <1>0, <1>3
  <2>2. [k EXCEPT !.buf = Tail(@)] = [k EXCEPT !.buf = b, !.sock = k.sock]
    BY <1>0 DEF Connection
  <2>3. /\ conn' = [conn EXCEPT ![c] = Taken([k EXCEPT !.buf = b, !.sock = k.sock], c, msg).conn]
        /\ kern' = Taken([k EXCEPT !.buf = b, !.sock = k.sock], c, msg).kern
    BY <1>3, <2>2
  <2> HIDE DEF b, msg, k
  <2> QED
    BY <1>0, <1>2, <2>1, <2>3
<1>4. ASSUME NEW n \in 1 .. Len(k.sock),
             LET h == [k EXCEPT !.buf = SubSeq(k.sock, 2, n), !.sock = SubSeq(@, n + 1, Len(@))]
                 taken == Taken(h, c, Head(k.sock))
             IN conn' = [conn EXCEPT ![c] = taken.conn] /\ kern' = taken.kern
      PROVE  Attends(c)
  <2> DEFINE b == SubSeq(k.sock, 2, n)
             s == SubSeq(k.sock, n + 1, Len(k.sock))
             msg == Head(k.sock)
  <2>1. b \in Seq(Msg) /\ s \in Seq(Msg) /\ msg \in Msg
    BY <1>0, <1>4
  <2>2. /\ conn' = [conn EXCEPT ![c] = Taken([k EXCEPT !.buf = b, !.sock = s], c, msg).conn]
        /\ kern' = Taken([k EXCEPT !.buf = b, !.sock = s], c, msg).kern
    BY <1>0, <1>4 DEF Connection
  <2> HIDE DEF b, s, msg, k
  <2> QED
    BY <1>2, <2>1, <2>2
<1>5. CASE kern' = kern /\ k.hung /\ conn' = [conn EXCEPT ![c].closing = TRUE]
  <2> DEFINE h == [k EXCEPT !.closing = TRUE]
  <2>1. conn' = [conn EXCEPT ![c] = h]
    BY <1>5 DEF ConnTypes
  <2> HIDE DEF k
  <2>2. h.at = k.at /\ h.hung = k.hung /\ h.events = k.events
    BY <1>0 DEF Connection
  <2> HIDE DEF h
  <2>3. Still(k, h)
    BY <2>2 DEF Still
  <2>4. conn'[c] = h /\ \A d \in Client : d # c => conn'[d] = conn[d]
    BY <1>0, <2>1
  <2>5. \A d \in Client : Quiet(d)
    BY <1>5 DEF Quiet
  <2> QED
    BY <2>3, <2>4, <2>5, StillAttends DEF k
<1> QED
  BY <1>3, <1>4, <1>5 DEF Read

\* Writing and what ends a connection: one that has a session to write to ends for a
\* client that left.
LEMMA WriteAttends ==
  ASSUME ConnTypes, ConnTypes', NEW c \in Client, Hears(conn[c], c, kern),
         UpgradeFailed(c) \/ Flush(c) \/ Finish(c) \/ End(c)
  PROVE  Attends(c)
<1>0. conn \in [Client -> Connection] /\ conn[c] \in Connection
  BY DEF ConnTypes
<1>1. kern' = kern
  BY DEF UpgradeFailed, Flush, Finish, End
<1>2. \A d \in Client : Quiet(d)
  BY <1>1 DEF Quiet
<1>3. /\ \A d \in Client : d # c => conn'[d] = conn[d]
      /\ Still(conn[c], conn'[c])
  <2>1. CASE UpgradeFailed(c)
    <3>1. \E o : conn' = [conn EXCEPT ![c] = [conn[c] EXCEPT !.upgrade = 0, !.attempt = "none", !.out = o]]
      BY <1>0, <2>1 DEF UpgradeFailed
    <3> QED
      BY <1>0, <3>1 DEF Still, Connection
  <2>2. CASE conn' = [conn EXCEPT ![c] = Gone(@)] /\ (conn[c].hung \/ End(c))
    <3>1. /\ conn'[c].at = "gone" /\ conn'[c].hung = conn[c].hung /\ conn'[c].events = <<>>
          /\ \A d \in Client : d # c => conn'[d] = conn[d]
      BY <1>0, <2>2 DEF Gone, Away
    <3>2. conn[c].hung \/ (conn[c].at = "finish" /\ conn[c].events = <<>>)
      BY <2>2 DEF End, Hears, Attending
    <3> QED
      BY <3>1, <3>2 DEF Still, Attending
  <2>3. CASE Flush(c) /\ ~conn[c].hung
    <3>1. \E o, g : conn' = [conn EXCEPT ![c] = [conn[c] EXCEPT !.out = o, !.got = g]]
      BY <1>0, <2>3 DEF Flush
    <3> QED
      BY <1>0, <3>1 DEF Still, Connection
  <2>4. CASE Finish(c)
    <3>1. /\ conn' = [conn EXCEPT ![c] = [conn[c] EXCEPT !.at = "finish", !.frozen = FALSE]]
          /\ conn[c].at = "rpc"
      BY <1>0, <2>4 DEF Finish
    <3> QED
      BY <1>0, <3>1 DEF Still, Attending, Connection
  <2> QED
    BY <2>1, <2>2, <2>3, <2>4 DEF Flush, End
<1> QED
  BY <1>2, <1>3, StillAttends

\* Sequences are what is in them.
LEMMA SameSeq ==
  ASSUME NEW S, NEW x \in Seq(S), NEW y \in Seq(S), Len(x) = Len(y),
         \A i \in 1 .. Len(x) : x[i] = y[i]
  PROVE  x = y
OBVIOUS

\* A verdict follows the set.
LEMMA SetThenDone == Append(<<"Set">>, "Done") = <<"Set", "Done">>
<1> DEFINE x == Append(<<"Set">>, "Done")
           y == <<"Set", "Done">>
<1>1. <<"Set">> \in Seq(Event) /\ "Done" \in Event /\ y \in Seq(Event)
  BY DEF Event
<1>2. x \in Seq(Event) /\ Len(x) = 2 /\ x[1] = "Set" /\ x[2] = "Done"
  BY <1>1
<1>3. Len(y) = 2 /\ y[1] = "Set" /\ y[2] = "Done"
  OBVIOUS
<1> HIDE DEF x, y
<1>4. \A i \in 1 .. Len(x) : x[i] = y[i]
  BY <1>2, <1>3
<1>5. x = y
  BY <1>1, <1>2, <1>3, <1>4, SameSeq
<1> QED
  BY <1>5 DEF x, y

\* What was appended last is in.
LEMMA LastOf ==
  ASSUME NEW S, NEW a \in Seq(S), NEW b \in Seq(S), NEW w \in S
  PROVE  w \in ToSet(a \o Append(b, w))
<1> DEFINE d == Append(b, w)
           s == a \o d
<1>1. d \in Seq(S) /\ Len(d) = Len(b) + 1 /\ d[Len(d)] = w
  OBVIOUS
<1> HIDE DEF d
<1>2. Len(s) \in DOMAIN s /\ s[Len(s)] = w
  BY <1>1
<1> HIDE DEF s
<1>3. w \in ToSet(s)
  BY <1>2 DEF ToSet
<1> QED
  BY <1>3 DEF s, d

\* A session ends with what it heard last written.
LEMMA LastWord ==
  ASSUME NEW k \in Connection, NEW h \in Connection, NEW c, NEW n, NEW m,
         Hears(k, c, n), k.at = "session", k.events # <<>> \/ (n.over => c \notin n.waits),
         h.at = "finish", h.events = <<>>, h.got = k.got, h.hung = k.hung,
         h.out = IF k.events = <<>> THEN k.out ELSE Append(k.out, <<"done", k.wait>>),
         k.events # <<>> \/ n.over, m = n
  PROVE  Hears(h, c, m) /\ Spoken(k, h)
<1>1. Spoken(k, h)
  <2>1. CASE k.events = <<>>
    <3>1. "Done" \notin ToSet(k.events)
      BY <2>1 DEF ToSet
    <3> QED
      BY <3>1 DEF Spoken
  <2>2. CASE k.events # <<>>
    <3> DEFINE w == <<"done", k.wait>>
    <3>1. k.out \in Seq(Frame) /\ k.got \in Seq(Frame) /\ h.out = Append(k.out, w) /\ w \in Frame
      BY <2>2 DEF Connection, Frame
    <3> HIDE DEF w
    <3>2. w \in ToSet(k.got \o Append(k.out, w))
      BY <3>1, LastOf
    <3> QED
      BY <3>1, <3>2 DEF Spoken, w
  <2> QED
    BY <2>1, <2>2
<1>2. Hears(h, c, m)
  <2>1. CASE k.hung
    BY <2>1 DEF Hears
  <2>2. CASE ~k.hung
    <3>1. /\ ~n.over => ~Waited(n.queue, c)
          /\ k.events = <<>> \/ c \notin n.waits
      BY <2>2 DEF Hears, Attending
    <3>2. c \notin n.waits
      BY <3>1
    <3> QED
      BY <3>1, <3>2 DEF Hears, Attending
  <2> QED
    BY <2>1, <2>2
<1> QED
  BY <1>1, <1>2

\* The end of a wait is heard by who was told of its beginning.
LEMMA VerdictHeard ==
  ASSUME NEW k \in Connection, NEW h \in Connection, NEW c, NEW n, NEW m,
         Hears(k, c, n), c \in n.waits, h.at = k.at, h.hung = k.hung,
         h.events = Append(k.events, "Done"), c \notin m.waits,
         ~m.over => ~n.over /\ m.queue = n.queue
  PROVE  Hears(h, c, m) /\ Spoken(k, h)
<1>1. Spoken(k, h)
  <2>1. k.events \in Seq(Event) /\ "Done" \in Event
    BY DEF Connection, Event
  <2>2. Len(h.events) \in DOMAIN h.events /\ h.events[Len(h.events)] = "Done"
    BY <2>1
  <2> QED
    BY <2>2 DEF Spoken, ToSet
<1>2. Hears(h, c, m)
  <2>1. CASE k.hung
    BY <2>1 DEF Hears
  <2>2. CASE ~k.hung
    <3>1. /\ ~n.over => ~Waited(n.queue, c)
          /\ \/ k.at \in {"asking", "resuming"} /\ k.events = <<"Set">>
             \/ k.at = "session" /\ k.events = <<>>
      BY <2>2 DEF Hears, Attending
    <3>2. Append(<<"Set">>, "Done") = <<"Set", "Done">> /\ Append(<<>>, "Done") = <<"Done">>
      BY SetThenDone
    <3>3. ~m.over => ~Waited(m.queue, c)
      BY <3>1
    <3> QED
      BY <3>1, <3>2, <3>3 DEF Hears
  <2> QED
    BY <2>1, <2>2
<1> QED
  BY <1>1, <1>2

\* A wait and its session.
LEMMA SessionAttends ==
  ASSUME ConnTypes, ConnTypes', NEW c \in Client, Hears(conn[c], c, kern), Hearing,
         \/ Ask(c) \/ Begin(c) \/ SessionEvent(c) \/ SessionHungUp(c) \/ SessionTimeout(c)
         \/ Verdict(c)
  PROVE  Attends(c)
<1>0. /\ conn \in [Client -> Connection] /\ conn[c] \in Connection /\ conn'[c] \in Connection
      /\ kern \in KernelState /\ kern.queue \in Seq(KernelMsg)
  BY DEF ConnTypes, KernelState
<1>1. \A d \in Client : d # c => conn'[d] = conn[d]
  BY <1>0 DEF Ask, Begin, SessionEvent, SessionHungUp, SessionTimeout, Verdict
<1>2. /\ kern'.over = kern.over
      /\ kern'.waits = kern.waits \/ kern'.waits = kern.waits \ {c}
      /\ Ask(c) \/ kern'.queue = kern.queue
  <2>1. CASE Ask(c)
    BY <1>0, <2>1 DEF Ask, Queue, KernelState
  <2>2. CASE kern' = kern
    BY <2>2
  <2>3. CASE kern' = [kern EXCEPT !.waits = @ \ {c}]
    BY <1>0, <2>3 DEF KernelState
  <2> QED
    BY <2>1, <2>2, <2>3 DEF Begin, SessionEvent, SessionHungUp, SessionTimeout, Verdict
<1> DEFINE e == <<"wait", c, conn[c].wait>>
<1>3. Ask(c) => kern'.queue = Append(kern.queue, e) /\ e \in KernelMsg /\ IsWait(e, c)
                /\ \A d \in Client : d # c => ~IsWait(e, d)
  BY <1>0 DEF Ask, Queue, KernelState, KernelMsg, Connection, IsWait
<1>4. \A d \in Client : d # c => Quiet(d)
  <2> TAKE d \in Client
  <2> HIDE DEF e
  <2> QED
    BY <1>0, <1>2, <1>3, KernQuiet
<1>5. \/ kern'.queue = kern.queue
      \/ Ask(c)
  BY <1>2
<1> SUFFICES Hears(conn'[c], c, kern') /\ Spoken(conn[c], conn'[c])
  BY <1>1, <1>4 DEF Attends
<1>6. CASE Ask(c)
  <2>1. /\ conn'[c] = [conn[c] EXCEPT !.at = "asking"] /\ conn[c].at = "drain"
    BY <1>0, <1>6 DEF Ask
  <2>2. /\ conn'[c].at = "asking" /\ conn'[c].events = conn[c].events
        /\ conn'[c].hung = conn[c].hung
    BY <1>0, <2>1 DEF Connection
  <2>3. Spoken(conn[c], conn'[c])
    BY <2>2 DEF Spoken
  <2>4. ASSUME ~Waited(kern.queue, c) PROVE WaitedOnce(kern'.queue, c)
    <3> HIDE DEF e
    <3>1. /\ Len(kern'.queue) = Len(kern.queue) + 1
          /\ \A i \in 1 .. Len(kern.queue) : kern'.queue[i] = kern.queue[i]
      BY <1>0, <1>3, <1>6
    <3>2. \A i \in 1 .. Len(kern'.queue) : IsWait(kern'.queue[i], c) => i = Len(kern.queue) + 1
      BY <1>0, <2>4, <3>1 DEF Waited
    <3> QED
      BY <3>2 DEF WaitedOnce
  <2>5. conn[c].hung \/ (/\ conn[c].events = <<>> /\ c \notin kern.waits
                         /\ ~kern.over => ~Waited(kern.queue, c))
    BY <2>1 DEF Hears, Attending
  <2>6. kern'.over = kern.over /\ (c \in kern'.waits => c \in kern.waits)
    BY <1>2
  <2> QED
    BY <2>2, <2>3, <2>4, <2>5, <2>6 DEF Hears
<1>7. CASE Begin(c)
  <2>1. /\ kern' = kern /\ conn[c].at \in {"asking", "resuming"}
        /\ \/ /\ conn[c].events # <<>> /\ Head(conn[c].events) = "Set"
              /\ conn'[c].at = "session" /\ conn'[c].events = Tail(conn[c].events)
              /\ conn'[c].hung = conn[c].hung
           \/ /\ ~(conn[c].events # <<>> /\ Head(conn[c].events) = "Set")
              /\ conn[c].events # <<>> \/ kern.over
              /\ conn'[c].at = "finish" /\ conn'[c].events = <<>>
              /\ conn'[c].hung = conn[c].hung
    <3>1. kern' = kern /\ conn[c].at \in {"asking", "resuming"}
      BY <1>7 DEF Begin
    <3>2. ASSUME NEW o, NEW a, NEW ev,
                 conn' = [conn EXCEPT ![c].at = a, ![c].events = ev, ![c].out = o]
          PROVE  conn'[c].at = a /\ conn'[c].events = ev /\ conn'[c].hung = conn[c].hung
      BY <1>0, <3>2 DEF Connection
    <3>3. ASSUME NEW o,
                 conn' = [conn EXCEPT ![c].at = "session", ![c].events = Tail(@), ![c].out = o]
          PROVE  /\ conn'[c].at = "session" /\ conn'[c].events = Tail(conn[c].events)
                 /\ conn'[c].hung = conn[c].hung
      BY <1>0, <3>3 DEF Connection
    <3>5. CASE conn[c].events # <<>> /\ Head(conn[c].events) = "Set"
      <4>1. \E o : conn' = [conn EXCEPT ![c].at = "session", ![c].events = Tail(@), ![c].out = o]
        BY <1>7, <3>5 DEF Begin
      <4> QED
        BY <3>1, <3>3, <3>5, <4>1
    <3>6. CASE ~(conn[c].events # <<>> /\ Head(conn[c].events) = "Set")
      <4>1. conn[c].events # <<>> \/ kern.over
        BY <1>7, <3>6 DEF Begin
      <4>2. \E o : conn' = [conn EXCEPT ![c].at = "finish", ![c].events = <<>>, ![c].out = o]
        BY <1>7, <3>6 DEF Begin
      <4> QED
        BY <3>1, <3>2, <3>6, <4>1, <4>2
    <3> QED
      BY <3>5, <3>6
  <2>2. \/ conn[c].hung
        \/ /\ conn[c].events = <<>> /\ c \notin kern.waits
        \/ /\ ~kern.over => ~Waited(kern.queue, c)
           /\ \/ conn[c].events = <<"Set">>
              \/ conn[c].events \in {<<"Set", "Done">>, <<"Nothing">>} /\ c \notin kern.waits
    BY <2>1 DEF Hears, Attending
  <2>3. CASE conn[c].hung
    BY <2>1, <2>3 DEF Hears, Spoken
  <2>4. CASE conn[c].events = <<>> /\ c \notin kern.waits
    <3>1. "Done" \notin ToSet(conn[c].events)
      BY <2>4 DEF ToSet
    <3> QED
      BY <2>1, <2>4, <3>1 DEF Hears, Spoken, Attending
  <2>5. CASE conn[c].events = <<"Set">> /\ (~kern.over => ~Waited(kern.queue, c))
    <3>1. "Done" \notin ToSet(conn[c].events)
      BY <2>5 DEF ToSet
    <3>2. Head(<<"Set">>) = "Set" /\ Tail(<<"Set">>) = <<>> /\ <<"Set">> # <<>>
      OBVIOUS
    <3> QED
      BY <2>1, <2>5, <3>1, <3>2 DEF Hears, Spoken
  <2>6. CASE /\ conn[c].events = <<"Set", "Done">> /\ c \notin kern.waits
             /\ ~kern.over => ~Waited(kern.queue, c)
    <3>1. /\ Head(<<"Set", "Done">>) = "Set" /\ Tail(<<"Set", "Done">>) = <<"Done">>
          /\ <<"Set", "Done">> # <<>>
      OBVIOUS
    <3>2. "Done" \in ToSet(<<"Done">>)
      BY DEF ToSet
    <3>3. conn'[c].at = "session" /\ conn'[c].events = <<"Done">>
      BY <2>1, <2>6, <3>1
    <3> QED
      BY <2>1, <2>6, <3>2, <3>3 DEF Hears, Spoken
  <2>7. CASE /\ conn[c].events = <<"Nothing">> /\ c \notin kern.waits
             /\ ~kern.over => ~Waited(kern.queue, c)
    <3>1. "Done" \notin ToSet(conn[c].events)
      BY <2>7 DEF ToSet
    <3>2. Head(<<"Nothing">>) # "Set" /\ <<"Nothing">> # <<>>
      OBVIOUS
    <3> QED
      BY <2>1, <2>7, <3>1, <3>2 DEF Hears, Spoken, Attending
  <2> QED
    BY <2>2, <2>3, <2>4, <2>5, <2>6, <2>7
<1>8. CASE SessionEvent(c)
  <2> DEFINE o == IF conn[c].events = <<>> THEN conn[c].out
                  ELSE Append(conn[c].out, <<"done", conn[c].wait>>)
  <2>1. /\ kern' = kern /\ conn[c].at = "session"
        /\ conn[c].events # <<>> \/ kern.over
        /\ conn' = [conn EXCEPT ![c] = [conn[c] EXCEPT !.at = "finish", !.events = <<>>, !.out = o]]
    BY <1>0, <1>8 DEF SessionEvent
  <2>2. /\ conn'[c].at = "finish" /\ conn'[c].events = <<>> /\ conn'[c].out = o
        /\ conn'[c].got = conn[c].got /\ conn'[c].hung = conn[c].hung
    BY <1>0, <2>1 DEF Connection
  <2>3. kern.over => c \notin kern.waits
    BY DEF Hearing
  <2> QED
    BY <1>0, <2>1, <2>2, <2>3, LastWord
<1>9. CASE SessionHungUp(c)
  <2>1. conn[c].hung /\ conn'[c].hung = conn[c].hung
    BY <1>0, <1>9 DEF SessionHungUp, Gone, Away
  <2> QED
    BY <2>1 DEF Hears, Spoken
<1>10. CASE SessionTimeout(c)
  <2>1. \E o : conn' = [conn EXCEPT ![c] = [conn[c] EXCEPT !.at = "finish", !.out = o]]
    BY <1>0, <1>10 DEF SessionTimeout
  <2>2. /\ conn'[c].at = "finish" /\ conn'[c].events = conn[c].events
        /\ conn'[c].hung = conn[c].hung
    BY <1>0, <2>1 DEF Connection
  <2>3. kern'.waits = kern.waits \ {c} /\ conn[c].events = <<>> /\ conn[c].at = "session"
    BY <1>0, <1>10 DEF SessionTimeout, KernelState
  <2>4. conn[c].hung \/ (~kern.over => ~Waited(kern.queue, c))
    BY <2>3 DEF Hears, Attending
  <2>5. kern'.over = kern.over /\ kern'.queue = kern.queue
    BY <1>0, <1>10 DEF SessionTimeout, KernelState
  <2> QED
    BY <2>2, <2>3, <2>4, <2>5 DEF Hears, Spoken, Attending
<1>11. CASE Verdict(c)
  <2> DEFINE ev == Append(conn[c].events, "Done")
  <2>1. /\ c \in kern.waits /\ ~kern.over
        /\ conn' = [conn EXCEPT ![c] = [conn[c] EXCEPT !.events = ev]]
    BY <1>0, <1>11 DEF Verdict
  <2>2. /\ conn'[c].at = conn[c].at /\ conn'[c].events = ev /\ conn'[c].hung = conn[c].hung
    BY <1>0, <2>1 DEF Connection
  <2>3. kern'.over = kern.over /\ kern'.queue = kern.queue /\ c \notin kern'.waits
    BY <1>0, <1>11 DEF Verdict, KernelState
  <2> QED
    BY <1>0, <2>1, <2>2, <2>3, VerdictHeard DEF Spoken
<1> QED
  BY <1>6, <1>7, <1>8, <1>9, <1>10, <1>11

\* What a connection hears of freezes and of the end.
LEMMA CtlAttends ==
  ASSUME ConnTypes, ConnTypes', NEW c \in Client, Hears(conn[c], c, kern), Hearing, ConnsHeld,
         TakeCtl(c) \/ Freeze(c)
  PROVE  Attends(c)
<1>0. /\ conn \in [Client -> Connection] /\ conn[c] \in Connection /\ conn'[c] \in Connection
      /\ conn[c].ctl \in Seq(Ctl)
  BY DEF ConnTypes, Connection
<1>1. kern' = kern
  BY DEF TakeCtl, Freeze
<1>2. \A d \in Client : Quiet(d)
  BY <1>1 DEF Quiet
<1>3. \A d \in Client : d # c => conn'[d] = conn[d]
  BY <1>0 DEF TakeCtl, Freeze
<1>4. Still(conn[c], conn'[c]) => Attends(c)
  BY <1>2, <1>3, StillAttends
<1>5. ASSUME NEW k \in Connection, NEW n, k.at = conn[c].at \/ {k.at, conn[c].at} \cap Attending = {},
             k.hung = conn[c].hung, k.events = conn[c].events, conn'[c] = Frozen(k, n)
      PROVE  Attends(c)
  <2>1. conn'[c].at = k.at /\ conn'[c].hung = k.hung /\ conn'[c].events = k.events
    BY <1>5 DEF Frozen, Connection
  <2> QED
    BY <1>4, <1>5, <2>1 DEF Still
<1>6. CASE Freeze(c)
  <2> DEFINE k == [conn[c] EXCEPT !.at = "rpc", !.ctl = Tail(@)]
  <2>1. conn[c].at = "freezing" /\ conn'[c] = Frozen(k, Head(conn[c].ctl)[2])
    BY <1>0, <1>6 DEF Freeze
  <2>2. Tail(conn[c].ctl) \in Seq(Ctl)
    BY <1>0, <1>6 DEF Freeze, ConnsHeld, Obeying
  <2>3. k \in Connection /\ k.at = "rpc" /\ k.hung = conn[c].hung /\ k.events = conn[c].events
    BY <1>0, <2>2, Empties DEF Connection
  <2> HIDE DEF k
  <2> QED
    BY <1>5, <2>1, <2>3 DEF Attending
<1>7. CASE TakeCtl(c)
  <2> DEFINE msg == Head(conn[c].ctl)
             k == [conn[c] EXCEPT !.ctl = Tail(@)]
  <2>1. /\ conn[c].ctl # <<>> /\ conn[c].at \in {"rpc", "session", "finish"} /\ Live
        /\ conn'[c] = CASE msg[1] = "Freeze" /\ k.at = "rpc" -> [conn[c] EXCEPT !.at = "freezing"]
                        [] msg[1] = "Freeze" /\ k.at # "rpc" -> Frozen(k, msg[2])
                        [] msg[1] = "Thaw" -> [k EXCEPT !.frozen = FALSE]
                        [] msg[1] = "Close" -> Closed(k)
    BY <1>0, <1>7 DEF TakeCtl
  <2>2. Tail(conn[c].ctl) \in Seq(Ctl) /\ msg \in Ctl
    BY <1>0, <2>1
  <2>3. /\ k \in Connection /\ k.at = conn[c].at /\ k.hung = conn[c].hung
        /\ k.events = conn[c].events /\ k.out = conn[c].out /\ k.got = conn[c].got
        /\ k.wait = conn[c].wait
    BY <1>0, <2>2 DEF Connection
  <2>4. msg[1] \in {"Freeze", "Thaw", "Close"}
    BY <2>2 DEF Ctl
  <2>5. msg[1] = "Close" => kern.over
    <3> SUFFICES ASSUME msg[1] = "Close" PROVE kern.over
      OBVIOUS
    <3>1. msg = <<"Close">> /\ msg = conn[c].ctl[1] /\ 1 \in 1 .. Len(conn[c].ctl)
      BY <1>0, <2>1, <2>2 DEF Ctl
    <3>2. ~Open(conn[c])
      BY <3>1 DEF Open
    <3> QED
      BY <2>1, <3>2 DEF ConnsHeld, Live
  <2> HIDE DEF msg, k
  <2>6. CASE msg[1] = "Freeze" /\ k.at = "rpc"
    <3>1. conn'[c] = [conn[c] EXCEPT !.at = "freezing"]
      BY <2>1, <2>6
    <3>2. /\ conn'[c].at = "freezing" /\ conn'[c].hung = conn[c].hung
          /\ conn'[c].events = conn[c].events
      BY <1>0, <3>1 DEF Connection
    <3> QED
      BY <1>4, <2>3, <2>6, <3>2 DEF Still, Attending
  <2>7. CASE msg[1] = "Freeze" /\ k.at # "rpc"
    <3>1. conn'[c] = Frozen(k, msg[2])
      BY <2>1, <2>7
    <3> QED
      BY <1>5, <2>3, <3>1
  <2>8. CASE msg[1] = "Thaw"
    <3>1. conn'[c] = [k EXCEPT !.frozen = FALSE]
      BY <2>1, <2>8
    <3>2. /\ conn'[c].at = k.at /\ conn'[c].hung = k.hung /\ conn'[c].events = k.events
      BY <2>3, <3>1 DEF Connection
    <3> QED
      BY <1>4, <2>3, <3>2 DEF Still
  <2>9. CASE msg[1] = "Close"
    <3>1. conn'[c] = Closed(k)
      BY <2>1, <2>9
    <3>2. CASE k.at = "session"
      <4> DEFINE o == IF k.events = <<>> THEN k.out ELSE Append(k.out, <<"done", k.wait>>)
      <4>1. conn'[c] = [k EXCEPT !.at = "finish", !.frozen = FALSE, !.events = <<>>, !.out = o]
        BY <2>3, <3>1, <3>2 DEF Closed, Connection
      <4>2. /\ conn'[c].at = "finish" /\ conn'[c].events = <<>> /\ conn'[c].out = o
            /\ conn'[c].got = k.got /\ conn'[c].hung = k.hung
        BY <2>3, <4>1 DEF Connection
      <4>3. kern.over /\ c \notin kern.waits
        BY <2>5, <2>9 DEF Hearing
      <4>4. Hears(conn'[c], c, kern') /\ Spoken(conn[c], conn'[c])
        BY <1>0, <1>1, <2>3, <3>2, <4>2, <4>3, LastWord
      <4> QED
        BY <1>2, <1>3, <4>4 DEF Attends
    <3>3. CASE k.at # "session"
      <4>1. /\ conn'[c].at = k.at /\ conn'[c].hung = k.hung /\ conn'[c].events = k.events
        BY <2>3, <3>1, <3>3 DEF Closed, Connection
      <4> QED
        BY <1>4, <2>3, <4>1 DEF Still
    <3> QED
      BY <3>2, <3>3
  <2> QED
    BY <2>4, <2>6, <2>7, <2>8, <2>9
<1> QED
  BY <1>6, <1>7

\* A step in which each connection goes on with what it was told.
LEMMA AllStill ==
  ASSUME ConnTypes, ConnTypes', Live, Hearing,
         \A c \in Client : Still(conn[c], conn'[c]) /\ Quiet(c)
  PROVE  \A c \in Client : Hears(conn'[c], c, kern') /\ Spoken(conn[c], conn'[c])
<1> TAKE c \in Client
<1>1. conn[c] \in Connection /\ conn'[c] \in Connection
  BY DEF ConnTypes
<1>2. Hears(conn[c], c, kern) /\ Still(conn[c], conn'[c]) /\ Quiet(c)
  BY DEF Hearing
<1> QED
  BY <1>1, <1>2, StillHears DEF Quiet

\* A reply tells of no wait.
LEMMA RepliedStill ==
  ASSUME NEW k \in Connection, NEW ids
  PROVE  Still(k, Replied(k, ids))
BY DEF Still, Replied, Connection

\* The kernel takes up a wait, of which it then has no other, or finds no task for it.
LEMMA WaitTaken ==
  ASSUME NEW k \in Connection, NEW h \in Connection, NEW c, NEW n \in KernelState, NEW m, NEW e,
         Hears(k, c, n), ~n.over, n.queue # <<>>, IsWait(Head(n.queue), c),
         m.queue = Tail(n.queue), m.over = n.over,
         h.at = k.at, h.hung = k.hung, h.events = Append(k.events, e),
         \/ e = "Set"
         \/ e = "Nothing" /\ m.waits = n.waits
  PROVE  Hears(h, c, m) /\ Spoken(k, h)
<1>0. n.queue \in Seq(KernelMsg) /\ k.events \in Seq(Event)
  BY DEF KernelState, Connection
<1>1. Spoken(k, h)
  <2>1. \A i \in DOMAIN k.events : i \in DOMAIN h.events /\ h.events[i] = k.events[i]
    BY <1>0
  <2> QED
    BY <2>1 DEF Spoken, ToSet
<1>2. Hears(h, c, m)
  <2>1. CASE k.hung
    BY <2>1 DEF Hears
  <2>2. CASE ~k.hung
    <3>1. Waited(n.queue, c)
      BY <1>0 DEF Waited
    <3>2. /\ k.at \in {"asking", "resuming"} /\ k.events = <<>> /\ c \notin n.waits
          /\ WaitedOnce(n.queue, c)
      BY <2>2, <3>1 DEF Hears
    <3>3. ~Waited(m.queue, c)
      <4>1. ASSUME NEW i \in 1 .. Len(Tail(n.queue)), IsWait(Tail(n.queue)[i], c) PROVE FALSE
        <5>1. /\ i + 1 \in 1 .. Len(n.queue) /\ 1 \in 1 .. Len(n.queue)
              /\ Tail(n.queue)[i] = n.queue[i + 1] /\ Head(n.queue) = n.queue[1] /\ i + 1 # 1
          BY <1>0, <4>1
        <5> QED
          BY <3>2, <4>1, <5>1 DEF WaitedOnce
      <4> QED
        BY <4>1 DEF Waited
    <3>4. Append(<<>>, "Set") = <<"Set">> /\ Append(<<>>, "Nothing") = <<"Nothing">>
      OBVIOUS
    <3> QED
      BY <3>2, <3>3, <3>4 DEF Hears
  <2> QED
    BY <2>1, <2>2
<1> QED
  BY <1>1, <1>2

\* The kernel's turn.
LEMMA KernelHears ==
  ASSUME ConnTypes, ConnTypes', Hearing, KernelTurn
  PROVE  /\ \A c \in Client : Hears(conn'[c], c, kern') /\ Spoken(conn[c], conn'[c])
         /\ kern'.over => kern'.waits = {}
<1> DEFINE msg == Head(kern.queue)
           q == Tail(kern.queue)
<1>0. /\ conn \in [Client -> Connection] /\ kern \in KernelState /\ kern.queue \in Seq(KernelMsg)
      /\ \A c \in Client : conn[c] \in Connection /\ conn'[c] \in Connection
  BY DEF ConnTypes, KernelState
<1>1. /\ Live /\ ~kern.over /\ kern.queue # <<>> /\ msg \in KernelMsg
      /\ \A c \in Client : Hears(conn[c], c, kern)
  <2>1. Live /\ ~kern.over /\ kern.queue # <<>>
    BY <1>0 DEF KernelTurn
  <2>2. msg \in KernelMsg
    BY <1>0, <2>1
  <2> QED
    BY <2>1, <2>2 DEF Hearing
<1>2. kern'.over = kern.over /\ kern'.queue = q
  BY <1>0 DEF KernelTurn, KernelState
<1>3. ASSUME NEW c, kern'.waits \subseteq kern.waits PROVE Quiet(c)
  BY <1>0, <1>1, <1>2, <1>3, KernQuiet
<1>4. CASE kern.freeze = 0 /\ msg[1] \in {"call", "quit"}
  <2>1. /\ conn' = [conn EXCEPT ![msg[2]] = Replied(@, {msg[3]})]
        /\ kern'.waits = kern.waits
    BY <1>0, <1>4 DEF KernelTurn, KernelState
  <2>2. ASSUME NEW c \in Client PROVE Still(conn[c], conn'[c])
    <3>1. conn'[c] = conn[c] \/ conn'[c] = Replied(conn[c], {msg[3]})
      BY <1>0, <2>1
    <3>2. Still(conn[c], conn[c])
      BY DEF Still
    <3> QED
      BY <1>0, <3>1, <3>2, RepliedStill
  <2> QED
    BY <1>1, <1>2, <1>3, <2>1, <2>2, AllStill
<1>5. CASE kern.freeze = 0 /\ msg[1] = "wait"
  <2>1. PICK c \in Client : msg[2] = c
    BY <1>1, <1>5 DEF KernelMsg
  <2>2. PICK e \in {"Set", "Nothing"} :
          /\ conn' = [conn EXCEPT ![c] = [conn[c] EXCEPT !.events = Append(@, e)]]
          /\ \/ e = "Set" /\ kern'.waits = kern.waits \cup {c}
             \/ e = "Nothing" /\ kern'.waits = kern.waits
    <3>1. ASSUME NEW e, conn' = [conn EXCEPT ![msg[2]].events = Append(@, e)]
          PROVE  conn' = [conn EXCEPT ![c] = [conn[c] EXCEPT !.events = Append(@, e)]]
      BY <1>0, <2>1, <3>1
    <3>2. \/ /\ conn' = [conn EXCEPT ![msg[2]].events = Append(@, "Set")]
             /\ kern' = [kern EXCEPT !.queue = q, !.waits = @ \cup {c}]
          \/ /\ conn' = [conn EXCEPT ![msg[2]].events = Append(@, "Nothing")]
             /\ kern' = [kern EXCEPT !.queue = q]
      BY <1>0, <1>5, <2>1 DEF KernelTurn, KernelState
    <3> HIDE DEF q, msg
    <3>3. CASE /\ conn' = [conn EXCEPT ![msg[2]].events = Append(@, "Set")]
               /\ kern' = [kern EXCEPT !.queue = q, !.waits = @ \cup {c}]
      <4>1. kern'.waits = kern.waits \cup {c}
        BY <1>0, <3>3 DEF KernelState
      <4> QED
        BY <3>1, <3>3, <4>1
    <3>4. CASE /\ conn' = [conn EXCEPT ![msg[2]].events = Append(@, "Nothing")]
               /\ kern' = [kern EXCEPT !.queue = q]
      <4>1. kern'.waits = kern.waits
        BY <1>0, <3>4 DEF KernelState
      <4> QED
        BY <3>1, <3>4, <4>1
    <3> QED
      BY <3>2, <3>3, <3>4
  <2>3. IsWait(msg, c) /\ \A d \in Client : d # c => conn'[d] = conn[d]
    BY <1>0, <1>5, <2>1, <2>2 DEF IsWait
  <2>4. /\ conn'[c].at = conn[c].at /\ conn'[c].hung = conn[c].hung
        /\ conn'[c].events = Append(conn[c].events, e)
    BY <1>0, <2>2 DEF Connection
  <2>5. Hears(conn'[c], c, kern') /\ Spoken(conn[c], conn'[c])
    <3>1. conn[c] \in Connection /\ conn'[c] \in Connection /\ Hears(conn[c], c, kern)
      BY <1>0, <1>1
    <3>2. kern'.queue = Tail(kern.queue) /\ kern'.over = kern.over /\ IsWait(Head(kern.queue), c)
      BY <1>2, <2>3
    <3>3. \/ e = "Set"
          \/ e = "Nothing" /\ kern'.waits = kern.waits
      BY <2>2
    <3> QED
      BY <1>0, <1>1, <2>4, <3>1, <3>2, <3>3, WaitTaken
  <2>6. ASSUME NEW d \in Client, d # c
        PROVE  Hears(conn'[d], d, kern') /\ Spoken(conn[d], conn'[d])
    <3>1. /\ Waited(kern'.queue, d) => Waited(kern.queue, d)
          /\ WaitedOnce(kern.queue, d) => WaitedOnce(kern'.queue, d)
      BY <1>0, <1>1, <1>2, QueueQuiet
    <3>2. d \in kern'.waits => d \in kern.waits
      BY <2>2, <2>6
    <3>3. Still(conn[d], conn'[d]) /\ Hears(conn[d], d, kern)
      BY <1>1, <2>3, <2>6 DEF Still
    <3> QED
      BY <1>0, <1>2, <3>1, <3>2, <3>3, StillHears
  <2> QED
    BY <1>1, <1>2, <2>5, <2>6
<1>6. CASE msg[1] \in {"Freeze", "Thaw"}
  <2>1. conn' = conn /\ kern'.waits = kern.waits
    BY <1>0, <1>6 DEF KernelTurn, KernelState
  <2>2. \A c \in Client : Still(conn[c], conn'[c])
    BY <2>1 DEF Still
  <2> QED
    BY <1>1, <1>2, <1>3, <2>1, <2>2, AllStill
<1> QED
  BY <1>4, <1>5, <1>6 DEF KernelTurn

\* What is read brings the kernel no wait.
LEMMA ReadWaits ==
  ASSUME ConnTypes, NEW c \in Client, Read(c)
  PROVE  kern'.over = kern.over /\ kern'.waits = kern.waits
<1>1. kern \in KernelState
  BY DEF ConnTypes
<1>2. \A k, msg : \/ Taken(k, c, msg).kern = kern
                  \/ \E e : Taken(k, c, msg).kern = Queue(kern, e)
                  \/ msg[1] \notin {"hello", "call", "quit", "wait", "upgrade"}
  BY DEF Taken, Handle
<1>3. \A e : Queue(kern, e).over = kern.over /\ Queue(kern, e).waits = kern.waits
  BY <1>1 DEF Queue, KernelState
<1>4. conn[c].buf \in Seq(Msg) /\ conn[c].sock \in Seq(Msg)
  BY DEF ConnTypes, Connection
<1>5. \A msg \in Msg : msg[1] \in {"hello", "call", "quit", "wait", "upgrade"}
  BY DEF Msg
<1>6. CASE kern' = kern
  BY <1>6
<1>7. ASSUME NEW k, NEW msg \in Msg, kern' = Taken(k, c, msg).kern
      PROVE  kern'.over = kern.over /\ kern'.waits = kern.waits
  BY <1>2, <1>3, <1>5, <1>7
<1>8. CASE conn[c].buf # <<>> /\ \E k : kern' = Taken(k, c, Head(conn[c].buf)).kern
  <2>1. Head(conn[c].buf) \in Msg
    BY <1>4, <1>8
  <2> QED
    BY <1>7, <1>8, <2>1
<1>9. CASE \E n \in 1 .. Len(conn[c].sock) : \E k : kern' = Taken(k, c, Head(conn[c].sock)).kern
  <2>1. Head(conn[c].sock) \in Msg
    BY <1>4, <1>9
  <2> QED
    BY <1>7, <1>9, <2>1
<1> QED
  BY <1>6, <1>8, <1>9 DEF Read

\* The kernel's end may be a wait's; after the process's nothing is told.
LEMMA EndHears ==
  ASSUME ConnTypes, ConnTypes', Hearing, RunnerStep
  PROVE  /\ Hearing'
         /\ \A c \in Client : Spoken(conn[c], conn'[c]) \/ runner' = "cut"
<1>0. /\ kern \in KernelState
      /\ \A c \in Client : conn[c] \in Connection /\ conn'[c] \in Connection
  BY DEF ConnTypes
<1>1. Live /\ \A c \in Client : Hears(conn[c], c, kern)
  BY DEF RunnerStep, KernelEnds, ProcessEnds, Live, Hearing
<1>2. CASE KernelEnds
  <2>1. /\ kern'.over /\ kern'.waits = {}
    BY <1>0, <1>2 DEF KernelEnds, KernelState
  <2>2. ASSUME NEW c \in Client
        PROVE  Hears(conn'[c], c, kern') /\ Spoken(conn[c], conn'[c])
    <3> DEFINE r == Replied(conn[c], conn[c].running)
    <3>1. /\ r.at = conn[c].at /\ r.hung = conn[c].hung /\ r.events = conn[c].events
      BY <1>0, <2>2 DEF Replied, Connection
    <3>2. \E h \in BOOLEAN :
            /\ h => c \in kern.waits
            /\ \E ctl : conn'[c] = [r EXCEPT !.events = IF h THEN Append(@, "Done") ELSE @,
                                            !.ctl = ctl]
      <4>1. PICK hearers \in SUBSET kern.waits :
              conn' = [d \in Client |->
                [Replied(conn[d], conn[d].running) EXCEPT
                   !.events = IF d \in hearers THEN Append(@, "Done") ELSE @,
                   !.ctl = IF Registered(d) THEN Append(@, <<"Close">>) ELSE @]]
        BY <1>2 DEF KernelEnds
      <4>2. \E ctl : conn'[c] = [r EXCEPT !.events = IF c \in hearers THEN Append(@, "Done") ELSE @,
                                          !.ctl = ctl]
        BY <4>1
      <4> DEFINE h == c \in hearers
      <4>3. h \in BOOLEAN /\ (h => c \in kern.waits)
        OBVIOUS
      <4> QED
        BY <4>2, <4>3
    <3>3. PICK h \in BOOLEAN :
            /\ h => c \in kern.waits
            /\ \E ctl : conn'[c] = [r EXCEPT !.events = IF h THEN Append(@, "Done") ELSE @,
                                            !.ctl = ctl]
      BY <3>2
    <3>4. DOMAIN r = DOMAIN conn[c]
      BY DEF Replied
    <3>5. {"at", "hung", "events", "ctl"} \subseteq DOMAIN conn[c]
      BY <1>0, <2>2 DEF Connection
    <3> HIDE DEF r
    <3>6. /\ conn'[c].at = conn[c].at /\ conn'[c].hung = conn[c].hung
          /\ conn'[c].events = IF h THEN Append(conn[c].events, "Done") ELSE conn[c].events
      BY <3>1, <3>3, <3>4, <3>5
    <3>7. CASE h
      BY <1>0, <1>1, <2>1, <3>3, <3>6, <3>7, VerdictHeard
    <3>8. CASE ~h
      <4>1. Spoken(conn[c], conn'[c])
        BY <3>6, <3>8 DEF Spoken
      <4>2. Hears(conn[c], c, kern)
        BY <1>1
      <4>3. CASE conn[c].at \in {"asking", "resuming"}
        BY <2>1, <3>6, <3>8, <4>1, <4>2, <4>3 DEF Hears, Attending
      <4>4. CASE conn[c].at \notin {"asking", "resuming"}
        BY <2>1, <3>6, <3>8, <4>1, <4>2, <4>4 DEF Hears, Attending
      <4> QED
        BY <4>3, <4>4
    <3> QED
      BY <3>7, <3>8
  <2> QED
    BY <2>1, <2>2 DEF Hearing
<1>3. CASE ProcessEnds
  <2>1. kern' = kern /\ ~Live'
    BY <1>3 DEF ProcessEnds, Live
  <2>2. ASSUME NEW c \in Client, runner' # "cut" PROVE Spoken(conn[c], conn'[c])
    <3>1. conn[c].at \in {"away", "backlog", "gone"}
      BY <1>3, <2>2 DEF ProcessEnds, Registered
    <3>2. conn[c].hung \/ conn[c].events = <<>>
      BY <1>1, <3>1 DEF Hears, Attending
    <3>3. conn[c].events = <<>> => "Done" \notin ToSet(conn[c].events)
      BY DEF ToSet
    <3> QED
      BY <3>2, <3>3 DEF Spoken
  <2> QED
    BY <2>1, <2>2 DEF Hearing
<1> QED
  BY <1>2, <1>3 DEF RunnerStep

\* An upgrade that starts, is refused, asks the kernel or fails tells of no wait.
LEMMA AttemptHears ==
  ASSUME Types, Types', Hearing,
         \/ \E c \in Client : StartFor(c) \/ RefuseUpgrade(c)
         \/ Start(Other) \/ FreezeKernel \/ Fail
  PROVE  /\ Hearing' /\ \A c \in Client : Spoken(conn[c], conn'[c])
<1>0. /\ ConnTypes /\ ConnTypes' /\ kern \in KernelState /\ up.n \in Nat
      /\ \A c \in Client : conn[c] \in Connection
  BY DEF Types, ConnTypes, Attempt
<1>1. Live /\ runner' = runner
  BY DEF StartFor, Start, RefuseUpgrade, FreezeKernel, Fail, Live
<1>2. ASSUME NEW c \in Client PROVE Still(conn[c], conn'[c])
  <2>1. \E ctl, a, r : conn'[c] = [conn[c] EXCEPT !.ctl = ctl, !.attempt = a, !.reply = r]
    <3>1. ASSUME NEW by, Start(by)
          PROVE  \E ctl, a : conn'[c] = [conn[c] EXCEPT !.ctl = ctl, !.attempt = a]
      BY <3>1 DEF Start
    <3>2. ASSUME NEW d \in Client, RefuseUpgrade(d)
          PROVE  \E a : conn'[c] = [conn[c] EXCEPT !.attempt = a]
      <4>1. CASE c = d
        BY <1>0, <3>2, <4>1 DEF RefuseUpgrade, ConnTypes
      <4>2. CASE c # d
        <5>1. conn'[c] = conn[c]
          BY <1>0, <3>2, <4>2 DEF RefuseUpgrade, ConnTypes
        <5>2. conn[c] = [conn[c] EXCEPT !.attempt = conn[c].attempt]
          BY <1>0, <1>2 DEF Connection
        <5> QED
          BY <5>1, <5>2
      <4> QED
        BY <4>1, <4>2
    <3>3. ASSUME Fail
          PROVE  \E ctl, a, r : conn'[c] = [conn[c] EXCEPT !.ctl = ctl, !.attempt = a, !.reply = r]
      BY <3>3 DEF Fail
    <3>4. ASSUME NEW ctl, NEW a, conn'[c] = [conn[c] EXCEPT !.ctl = ctl, !.attempt = a]
          PROVE  \E l, b, r : conn'[c] = [conn[c] EXCEPT !.ctl = l, !.attempt = b, !.reply = r]
      <4>1. conn'[c] = [conn[c] EXCEPT !.ctl = ctl, !.attempt = a, !.reply = conn[c].reply]
        BY <1>0, <1>2, <3>4 DEF Connection
      <4> QED
        BY <4>1
    <3>5. ASSUME NEW a, conn'[c] = [conn[c] EXCEPT !.attempt = a]
          PROVE  \E l, b : conn'[c] = [conn[c] EXCEPT !.ctl = l, !.attempt = b]
      <4>1. conn'[c] = [conn[c] EXCEPT !.ctl = conn[c].ctl, !.attempt = a]
        BY <1>0, <1>2, <3>5 DEF Connection
      <4> QED
        BY <4>1
    <3>6. ASSUME FreezeKernel
          PROVE  \E a : conn'[c] = [conn[c] EXCEPT !.attempt = a]
      <4>1. conn'[c] = [conn[c] EXCEPT !.attempt = conn[c].attempt]
        BY <1>0, <1>2, <3>6 DEF Connection, FreezeKernel
      <4> QED
        BY <4>1
    <3> QED
      BY <3>1, <3>2, <3>3, <3>4, <3>5, <3>6 DEF StartFor
  <2> QED
    BY <1>0, <1>2, <2>1 DEF Still, Connection
<1>3. /\ kern'.over = kern.over /\ kern'.waits = kern.waits
      /\ \/ kern'.queue = kern.queue
         \/ \E e \in KernelMsg : e[1] # "wait" /\ kern'.queue = Append(kern.queue, e)
  <2>1. CASE kern' = kern
    BY <2>1
  <2>2. ASSUME NEW e \in KernelMsg, e[1] # "wait", kern' = Queue(kern, e)
        PROVE  /\ kern'.over = kern.over /\ kern'.waits = kern.waits
               /\ kern'.queue = Append(kern.queue, e)
    BY <1>0, <2>2 DEF Queue, KernelState
  <2>3. CASE FreezeKernel
    <3>1. <<"Freeze", up.n>> \in KernelMsg /\ <<"Freeze", up.n>>[1] # "wait"
      BY <1>0 DEF KernelMsg
    <3> QED
      BY <2>2, <2>3, <3>1 DEF FreezeKernel
  <2>4. CASE Fail
    <3>1. <<"Thaw">> \in KernelMsg /\ <<"Thaw">>[1] # "wait"
      BY DEF KernelMsg
    <3> QED
      BY <2>2, <2>4, <3>1 DEF Fail
  <2> QED
    BY <2>1, <2>3, <2>4 DEF StartFor, Start, RefuseUpgrade
<1>4. \A c \in Client : Quiet(c)
  <2> TAKE c \in Client
  <2>1. \A e : e[1] # "wait" => ~IsWait(e, c)
    BY DEF IsWait
  <2> QED
    BY <1>0, <1>3, <2>1, KernQuiet
<1>5. \A c \in Client : Hears(conn'[c], c, kern') /\ Spoken(conn[c], conn'[c])
  BY <1>0, <1>1, <1>2, <1>4, AllStill
<1> QED
  BY <1>3, <1>5 DEF Hearing

\* In the new image each wait that was carried begins anew, and no other.
LEMMA ExecHears ==
  ASSUME Types, Types', Numbers, Hearing, Exec
  PROVE  Hearing'
<1> DEFINE S == {c \in Carried : conn[c].reply.what.kind = "Wait"}
           M == {<<"wait", c, conn[c].reply.what.wait>> : c \in S}
           f == [c \in S |-> <<"wait", c, conn[c].reply.what.wait>>]
<1>0. /\ Live /\ up.n > 0 /\ kern' = [Fresh EXCEPT !.queue = SetToMsgs(S)]
      /\ conn' = [c \in Client |-> AfterExec(c)] /\ runner' = runner
  BY DEF Exec, KernelFrozen, Numbers
<1>1. kern'.waits = {} /\ kern'.over = FALSE /\ kern'.queue = SetToSeq(M)
  BY <1>0 DEF Fresh, SetToMsgs
<1>2. IsFiniteSet(M)
  <2>1. S \in SUBSET Client
    BY DEF Carried, Types, Attempt
  <2>2. IsFiniteSet(S)
    BY <2>1, ConnectionsAssumption, FS_Subset
  <2>3. f \in Surjection(S, M)
    BY DEF Surjection
  <2> HIDE DEF S, M, f
  <2> QED
    BY <2>2, <2>3, FS_Surjection
<1>3. /\ SetToSeq(M) \in Seq(M)
      /\ \A i, j \in 1 .. Len(SetToSeq(M)) : SetToSeq(M)[i] = SetToSeq(M)[j] => i = j
  BY <1>2, SeqOfSet
<1>4. ASSUME NEW c, NEW i \in 1 .. Len(kern'.queue), IsWait(kern'.queue[i], c)
      PROVE  c \in S /\ kern'.queue[i] = <<"wait", c, conn[c].reply.what.wait>>
  <2>1. kern'.queue[i] \in M
    <3> HIDE DEF S, M, f
    <3>1. kern'.queue \in Seq(M)
      BY <1>1, <1>3
    <3> QED
      BY <1>4, <3>1
  <2>2. PICK d \in S : kern'.queue[i] = <<"wait", d, conn[d].reply.what.wait>>
    BY <2>1
  <2>3. d = c
    BY <1>4, <2>2 DEF IsWait
  <2> QED
    BY <2>2, <2>3
<1> HIDE DEF S, M, f
<1>5. ASSUME NEW c \in Client PROVE WaitedOnce(kern'.queue, c)
  <2>1. ASSUME NEW i \in 1 .. Len(kern'.queue), NEW j \in 1 .. Len(kern'.queue),
               IsWait(kern'.queue[i], c), IsWait(kern'.queue[j], c)
        PROVE  i = j
    <3>1. kern'.queue[i] = kern'.queue[j]
      BY <1>4, <2>1
    <3> QED
      BY <1>1, <1>3, <3>1
  <2> QED
    BY <2>1 DEF WaitedOnce
<1>6. ASSUME NEW c \in Client, c \notin S PROVE ~Waited(kern'.queue, c)
  BY <1>4, <1>6 DEF Waited
<1>7. ASSUME NEW c \in Client PROVE Hears(conn'[c], c, kern')
  <2>0. /\ conn'[c] = AfterExec(c) /\ c \notin kern'.waits
    BY <1>0, <1>1, <1>7
  <2>1. CASE c \in Carried
    <3>1. conn'[c] = Resumed(c)
      BY <2>0, <2>1 DEF AfterExec
    <3>2. /\ Resumed(c).events = <<>>
          /\ Resumed(c).at = IF conn[c].reply.what.kind = "Wait" THEN "resuming" ELSE "rpc"
      BY DEF Resumed, Away
    <3>3. CASE c \in S
      <4>1. conn'[c].at = "resuming" /\ conn'[c].events = <<>>
        BY <3>1, <3>2, <3>3 DEF S
      <4> QED
        BY <1>5, <2>0, <4>1 DEF Hears
    <3>4. CASE c \notin S
      <4>1. conn'[c].at = "rpc" /\ conn'[c].events = <<>>
        BY <2>1, <3>1, <3>2, <3>4 DEF S
      <4> QED
        BY <1>6, <2>0, <3>4, <4>1 DEF Hears, Attending
    <3> QED
      BY <3>3, <3>4
  <2>2. CASE c \notin Carried /\ Registered(c)
    <3>1. conn'[c] = Gone(conn[c])
      BY <2>0, <2>2 DEF AfterExec
    <3>2. conn'[c].at = "gone" /\ conn'[c].events = <<>>
      BY <3>1 DEF Gone, Away
    <3>3. c \notin S
      BY <2>2 DEF S
    <3> QED
      BY <1>6, <2>0, <3>2, <3>3 DEF Hears, Attending
  <2>3. CASE c \notin Carried /\ ~Registered(c)
    <3>1. conn'[c] = conn[c] /\ conn[c].at \in {"away", "backlog", "gone"}
      BY <2>0, <2>3 DEF AfterExec, Registered
    <3>2. conn[c].hung \/ conn[c].events = <<>>
      BY <1>0, <3>1 DEF Hearing, Hears, Attending
    <3>3. c \notin S
      BY <2>3 DEF S
    <3> QED
      BY <1>6, <2>0, <3>1, <3>2, <3>3 DEF Hears, Attending
  <2> QED
    BY <2>1, <2>2, <2>3
<1> QED
  BY <1>1, <1>7 DEF Hearing

\* Every step keeps what was told, and writes what it takes off a session.
LEMMA HearingNext ==
  ASSUME ChildInv, Hearing, [Next]_vars
  PROVE  /\ Hearing'
         /\ \A c \in Client :
              Spoken(conn[c], conn'[c]) \/ runner' \in {"cut", "failed"} \/ up'.images # up.images
<1>0. /\ Types /\ Types' /\ ConnTypes /\ ConnTypes' /\ Numbers /\ ConnsHeld
      /\ here.kinds \subseteq {"call", "quit", "wait", "upgrade"} /\ up.images \in Nat
  BY TypesKept, UpgradeAssumption DEF ChildInv, Types, ConnTypes, Population, Attempt
<1>1. CASE UNCHANGED <<conn, kern, runner>>
  <2>1. Hearing'
    BY <1>1 DEF Hearing, Live, Hears, Waited, WaitedOnce
  <2>2. \A c \in Client : Spoken(conn[c], conn'[c])
    BY <1>1 DEF Spoken
  <2> QED
    BY <2>1, <2>2
<1>2. CASE ClientStep
  <2>1. PICK c \in Client :
          \/ Connect(c) \/ HangUp(c) \/ Accept(c) \/ Serve(c) \/ SessionTimeout(c)
          \/ Verdict(c)
          \/ \E kind \in {"call", "quit", "wait", "upgrade"} : AskFor(c, kind)
    BY <1>0, <1>2 DEF ClientStep
  <2>2. Live
    BY <2>1 DEF Connect, HangUp, Accept, Serve, SessionTimeout, Verdict, AskFor, Read,
                UpgradeFailed, Flush, Finish, End, Ask, Begin, SessionEvent, SessionHungUp,
                TakeCtl, Freeze
  <2>3. Hears(conn[c], c, kern)
    BY <2>2 DEF Hearing
  <2>4. Attends(c)
    BY <1>0, <2>1, <2>3, ComingAttends, ReadAttends, WriteAttends, SessionAttends, CtlAttends
       DEF Serve
  <2>5. ASSUME NEW d \in Client, d # c
        PROVE  Hears(conn'[d], d, kern') /\ Spoken(conn[d], conn'[d])
    <3>1. conn'[d] = conn[d] /\ Quiet(d) /\ Hears(conn[d], d, kern) /\ conn[d] \in Connection
      BY <1>0, <2>2, <2>4, <2>5 DEF Attends, Hearing, ConnTypes
    <3>2. Still(conn[d], conn'[d])
      BY <3>1 DEF Still
    <3> QED
      BY <3>1, <3>2, StillHears DEF Quiet
  <2>6. Hears(conn'[c], c, kern') /\ Spoken(conn[c], conn'[c])
    BY <2>4 DEF Attends
  <2>7. kern'.over => kern'.waits = {}
    <3>1. kern \in KernelState
      BY <1>0 DEF ConnTypes
    <3>2. \/ kern' = kern
          \/ kern'.over = kern.over /\ kern'.waits = kern.waits
          \/ kern'.over = kern.over /\ kern'.waits = kern.waits \ {c}
      <4>1. CASE Read(c)
        BY <1>0, <2>2, <4>1, ReadWaits
      <4>2. CASE Ask(c)
        BY <3>1, <4>2 DEF Ask, Queue, KernelState
      <4>3. CASE SessionHungUp(c) \/ SessionTimeout(c) \/ Verdict(c)
        BY <3>1, <4>3 DEF SessionHungUp, SessionTimeout, Verdict, KernelState
      <4>4. CASE ~(Read(c) \/ Ask(c) \/ SessionHungUp(c) \/ SessionTimeout(c) \/ Verdict(c))
        BY <2>1, <4>4 DEF Connect, HangUp, Accept, Serve, AskFor, UpgradeFailed, Flush, Finish,
                          End, Begin, SessionEvent, TakeCtl, Freeze
      <4> QED
        BY <4>1, <4>2, <4>3, <4>4
    <3> QED
      BY <3>2 DEF Hearing
  <2> QED
    BY <2>5, <2>6, <2>7 DEF Hearing
<1>3. CASE RunnerStep
  BY <1>0, <1>3, EndHears
<1>4. CASE KernelTurn
  BY <1>0, <1>4, KernelHears DEF Hearing
<1>5. CASE (\E c \in Client : StartFor(c) \/ RefuseUpgrade(c)) \/ Start(Other) \/ FreezeKernel \/ Fail
  BY <1>0, <1>5, AttemptHears
<1>6. CASE Exec
  <2>1. up'.images # up.images
    <3>1. up'.images = up.images + 1
      BY <1>6 DEF Exec, NoUpgrade
    <3>2. up.images \in Nat
      BY <1>0
    <3> QED
      BY <3>1, <3>2
  <2> QED
    BY <1>0, <1>6, <2>1, ExecHears
<1>7. CASE ResumeFails
  <2>1. runner' = "failed" /\ kern' = kern /\ ~Live'
    BY <1>7 DEF ResumeFails, Live
  <2> QED
    BY <2>1 DEF Hearing
<1> QED
  BY <1>1, <1>2, <1>3, <1>4, <1>5, <1>6, <1>7 DEF Next, UpgradeStep, ReaperStep, vars

\* Nobody was told anything at first.
LEMMA HearingInit == Init => Hearing
<1> SUFFICES ASSUME Init PROVE Hearing
  OBVIOUS
<1>1. kern = Fresh /\ \A c \in Client : conn[c] = Away \/ conn[c] = [Away EXCEPT !.at = "gone"]
  BY DEF Init, ConnectionsInit
<1>2. kern.queue = <<>> /\ kern.waits = {} /\ kern.over = FALSE
  BY <1>1 DEF Fresh
<1>3. \A c \in Client : conn[c].at \in {"away", "gone"} /\ conn[c].events = <<>>
  BY <1>1 DEF Away
<1>4. \A c \in Client : ~Waited(kern.queue, c)
  BY <1>2 DEF Waited
<1> QED
  BY <1>2, <1>3, <1>4 DEF Hearing, Hears, Attending

-----------------------------------------------------------------------------
(* The theorems *)

(* unix_processes_waiter.rs: whatever upgrades fail or succeed between, every
   owner is handed the exit of its own process and no other's, once at most,
   and a kill reaches no number whose process was reaped, though numbers are
   given out again. *)
THEOREM ChildrenApart == Spec => PidsApart
<1>1. Init => ChildInv
  BY ChildInit
<1>2. ChildInv /\ [Next]_vars => ChildInv'
  BY ChildNext
<1>3. ChildInv /\ ChildInv' /\ [Next]_vars =>
        [/\ OwnExit'
         /\ \A p \in Pid : procs[p].st = "free" => procs'[p].st # "zombie"]_vars
  BY ChildNext DEF ChildInv, Children
<1> QED
  BY <1>1, <1>2, <1>3, PTL DEF Spec, PidsApart

(* upgrade/mod.rs freeze: when the kernel has answered, the snapshot has every
   connection that is there, as it is, and no handler of it runs, whatever the
   clients and the children did while the others froze. *)
THEOREM SnapshotTrue == Spec => []SnapshotStands
<1>1. Init => ChildInv
  BY ChildInit
<1>2. ChildInv /\ [Next]_vars => ChildInv'
  BY ChildNext
<1>3. ChildInv => SnapshotStands
  BY HeldStands
<1> QED
  BY <1>1, <1>2, <1>3, PTL DEF Spec

(* close_all and the wait session's drain: a verdict that the kernel gave a
   client is written for it, though the runner is exiting and whatever froze
   meanwhile.  Only a client that left, the end of the time to write, or a new
   image, which gives the verdict anew, loses it. *)
THEOREM VerdictsKept == Spec => VerdictKept
<1>1. Init => ChildInv /\ Hearing
  BY ChildInit, HearingInit
<1>2. ChildInv /\ Hearing /\ [Next]_vars => (ChildInv /\ Hearing)'
  BY ChildNext, HearingNext
<1>3. ChildInv /\ Hearing /\ [Next]_vars =>
        [\A c \in Client :
           "Done" \in ToSet(conn[c].events) /\ "Done" \notin ToSet(conn'[c].events) =>
             \/ <<"done", conn[c].wait>> \in ToSet(Frames(c)')
             \/ conn[c].hung \/ runner' \in {"cut", "failed"} \/ up'.images # up.images]_vars
  BY HearingNext DEF Spoken, Frames
<1> QED
  BY <1>1, <1>2, <1>3, PTL DEF Spec, VerdictKept
=============================================================================
