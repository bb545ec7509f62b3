----------------------------- MODULE Connections -----------------------------
(***************************************************************************)
(* The runner's clients: the accept loop, one loop for each connection     *)
(* (dekit/server.rs), the wait session a connection may turn into          *)
(* (dekit/wait.rs), and the kernel as they see it: one channel in which    *)
(* calls, waits and quits are taken in order.                              *)
(*                                                                         *)
(* A message is its kind and its number, which counts what its client      *)
(* sent.  An upgrade's own steps are in Upgrade.                           *)
(***************************************************************************)
EXTENDS Integers, FiniteSets, Sequences, SequencesExt

CONSTANT Client  \* the clients

ASSUME ConnectionsAssumption == IsFiniteSet(Client)

VARIABLES
  conn,      \* each client's connection
  paused,    \* whether the accept loop is paused
  kern,      \* the kernel
  runner     \* "serving", "closing" its connections, "ended", "cut" short, or
             \* "failed" to take over

cvars == <<conn, paused, kern, runner>>

\* A connection that has not been asked to freeze.
NoReply == [of |-> 0]

\* A client that has not connected.
Away ==
  [at |-> "away",       \* where its loop stands
   hello |-> FALSE,     \* the client's hello was taken
   sock |-> <<>>,       \* sent and not read,
   buf |-> <<>>,        \* read and not handled
   hung |-> FALSE,      \* the client has hung up
   running |-> {},      \* calls that have no reply yet
   upgrade |-> 0,       \* the upgrade in flight
   attempt |-> "none",  \* and how far it is
   dropped |-> 0,       \* an upgrade whose answer a wait dropped
   wait |-> 0,          \* the wait the session is for
   events |-> <<>>,     \* what the kernel told the session
   out |-> <<>>,        \* queued and not written
   frozen |-> FALSE,
   closing |-> FALSE,
   ctl |-> <<>>,        \* ConnCtl
   reply |-> NoReply,   \* the answer to the last freeze
   sent |-> 0,          \* what the client sent
   got |-> <<>>]        \* and what it was sent

\* A connection that is closed: an upgrade it asked for goes on, and so does an
\* answer it gave to a freeze.
Gone(k) == [Away EXCEPT !.at = "gone", !.hung = k.hung, !.sent = k.sent, !.got = k.got,
                        !.upgrade = k.upgrade, !.attempt = k.attempt, !.reply = k.reply, !.dropped = k.dropped]

\* `freeze` is the number of the upgrade that froze it, 0 when it is not frozen.
Fresh == [queue |-> <<>>, freeze |-> 0,
          quitting |-> FALSE, over |-> FALSE, waits |-> {}]

\* `present` are the clients there are.
ConnectionsInit(present) ==
  /\ conn = [c \in Client |-> IF c \in present THEN Away ELSE [Away EXCEPT !.at = "gone"]]
  /\ paused = FALSE
  /\ kern = Fresh
  /\ runner = "serving"

Registered(c) == conn[c].at \notin {"away", "backlog", "gone"}

Live == runner \in {"serving", "closing"}

-----------------------------------------------------------------------------
(* The clients *)

Asked == FoldSet(LAMBDA c, n : n + conn[c].sent, 0, Client)

\* A client's connection waits in the listener's backlog, its hello sent.
Connect(c) ==
  /\ Live
  /\ conn[c].at = "away"
  /\ conn' = [conn EXCEPT ![c].at = "backlog", ![c].sock = <<<<"hello", 0>>>>]
  /\ UNCHANGED <<paused, kern, runner>>

\* Requests follow each other without waiting for answers; a wait is the last.
AskFor(c, kind) ==
  /\ Live
  /\ conn[c].at \notin {"away", "gone"}
  /\ ~conn[c].hung
  /\ conn[c].wait = 0
  /\ \A msg \in ToSet(conn[c].buf \o conn[c].sock) : msg[1] # "wait"
  /\ conn' = [conn EXCEPT ![c].sent = @ + 1,
                          ![c].sock = Append(@, <<kind, conn[c].sent + 1>>)]
  /\ UNCHANGED <<paused, kern, runner>>

HangUp(c) ==
  /\ Live
  /\ conn[c].at \notin {"away", "gone"}
  /\ ~conn[c].hung
  /\ conn' = [conn EXCEPT ![c].hung = TRUE]
  /\ UNCHANGED <<paused, kern, runner>>

-----------------------------------------------------------------------------
(* The accept loop *)

\* Mutant: a paused loop accepts.
Accept_paused(c) ==
  /\ Live
  /\ conn[c].at = "backlog"
  /\ conn' = [conn EXCEPT ![c].at = "rpc"]
  /\ UNCHANGED <<paused, kern, runner>>

Accept(c) ==
  /\ Live
  /\ ~paused
  /\ conn[c].at = "backlog"
  /\ conn' = [conn EXCEPT ![c].at = "rpc"]
  /\ UNCHANGED <<paused, kern, runner>>

-----------------------------------------------------------------------------
(* A connection's loop: dispatch_connection *)

Queue(k, msg) == [k EXCEPT !.queue = Append(@, msg)]

\* A request whose handler runs from here on.
Handle(k, c, msg) == [conn |-> [k EXCEPT !.running = @ \cup {msg[2]}],
                      kern |-> Queue(kern, <<msg[1], c, msg[2]>>)]

\* What reading `msg` does to the connection k of c, and to the kernel.
Taken(k, c, msg) ==
  CASE msg[1] = "hello" ->
         [conn |-> [k EXCEPT !.hello = TRUE, !.out = Append(@, msg)], kern |-> kern]
    [] msg[1] \in {"call", "quit"} -> Handle(k, c, msg)
    [] msg[1] = "wait" ->
         [conn |-> [k EXCEPT !.at = "drain", !.wait = msg[2], !.dropped = k.upgrade],
          kern |-> kern]
    [] msg[1] = "upgrade" ->
         [conn |-> IF k.upgrade # 0
                   THEN [k EXCEPT !.out = Append(@, <<"error", msg[2]>>)]
                   ELSE [k EXCEPT !.upgrade = msg[2], !.attempt = "spawned"],
          kern |-> kern]

Reading(c) == conn[c].at = "rpc" /\ ~conn[c].frozen /\ ~conn[c].closing /\ conn[c].out = <<>>

\* Nothing is read while output is owed; one read may bring several messages.
Read(c) ==
  /\ Live
  /\ Reading(c)
  /\ \/ /\ conn[c].buf # <<>>
        /\ LET taken == Taken([conn[c] EXCEPT !.buf = Tail(@)], c, Head(conn[c].buf))
           IN conn' = [conn EXCEPT ![c] = taken.conn] /\ kern' = taken.kern
     \/ /\ conn[c].buf = <<>>
        /\ \E n \in 1 .. Len(conn[c].sock) :
             LET k == [conn[c] EXCEPT !.buf = SubSeq(conn[c].sock, 2, n),
                                      !.sock = SubSeq(@, n + 1, Len(@))]
                 taken == Taken(k, c, Head(conn[c].sock))
             IN conn' = [conn EXCEPT ![c] = taken.conn] /\ kern' = taken.kern
     \/ /\ conn[c].buf = <<>> /\ conn[c].sock = <<>> /\ conn[c].hung
        /\ conn' = [conn EXCEPT ![c].closing = TRUE]
        /\ UNCHANGED kern
  /\ UNCHANGED <<paused, runner>>

\* The upgrade in flight has failed.
UpgradeFailed(c) ==
  /\ Live
  /\ conn[c].at = "rpc"
  /\ ~conn[c].frozen
  /\ conn[c].attempt = "failed"
  /\ conn' = [conn EXCEPT ![c].upgrade = 0, ![c].attempt = "none",
                          ![c].out = Append(@, <<"error", conn[c].upgrade>>)]
  /\ UNCHANGED <<paused, kern, runner>>

\* Writing is cancel-safe; to a client that is gone it fails, which ends the
\* connection.
Flush(c) ==
  /\ Live
  /\ conn[c].at \in {"rpc", "session", "finish"}
  /\ ~conn[c].frozen
  /\ conn[c].out # <<>>
  /\ conn' = IF conn[c].hung THEN [conn EXCEPT ![c] = Gone(@)]
             ELSE [conn EXCEPT ![c].out = Tail(@), ![c].got = Append(@, Head(conn[c].out))]
  /\ UNCHANGED <<paused, kern, runner>>

\* The loop ends once only output is owed.  finish has a `frozen` of its own.
Finish(c) ==
  /\ Live
  /\ conn[c].at = "rpc"
  /\ conn[c].closing
  /\ conn[c].running = {}
  /\ conn' = [conn EXCEPT ![c].at = "finish", ![c].frozen = FALSE]
  /\ UNCHANGED <<paused, kern, runner>>

\* Nothing is owed: the connection unregisters.
End(c) ==
  /\ Live
  /\ conn[c].at = "finish"
  /\ conn[c].out = <<>>
  /\ conn' = [conn EXCEPT ![c] = Gone(@)]
  /\ UNCHANGED <<paused, kern, runner>>

-----------------------------------------------------------------------------
(* The wait session *)

\* Earlier requests are answered first; then the kernel is asked.
Ask(c) ==
  /\ Live
  /\ conn[c].at = "drain"
  /\ conn[c].running = {}
  /\ conn' = [conn EXCEPT ![c].at = "asking"]
  /\ kern' = Queue(kern, <<"wait", c, conn[c].wait>>)
  /\ UNCHANGED <<paused, runner>>

\* The set begins the session, unless no task matches or the runner is going
\* down.  A resumed one answered its request before the upgrade.
Begin(c) ==
  /\ Live
  /\ conn[c].at \in {"asking", "resuming"}
  /\ LET asked == conn[c].at = "asking"
         answer == IF asked THEN <<<<"ok", conn[c].wait>>>> ELSE <<>>
         end == IF asked THEN <<"error", conn[c].wait>> ELSE <<"bye", 0>>
     IN IF conn[c].events # <<>> /\ Head(conn[c].events) = "Set"
        THEN conn' = [conn EXCEPT ![c].at = "session", ![c].events = Tail(@),
                                  ![c].out = @ \o answer \o <<<<"tasks", conn[c].wait>>>>]
        ELSE /\ conn[c].events # <<>> \/ kern.over
             /\ conn' = [conn EXCEPT ![c].at = "finish", ![c].events = <<>>,
                                     ![c].out = Append(@, end)]
  /\ UNCHANGED <<paused, kern, runner>>

\* The verdict, or the kernel's end without one.
SessionEvent(c) ==
  /\ Live
  /\ conn[c].at = "session"
  /\ ~conn[c].frozen
  /\ conn[c].events # <<>> \/ kern.over
  /\ conn' = [conn EXCEPT ![c].at = "finish", ![c].events = <<>>,
                          ![c].out = IF conn[c].events = <<>> THEN @
                                     ELSE Append(@, <<"done", conn[c].wait>>)]
  /\ UNCHANGED <<paused, kern, runner>>

\* A verdict already in goes first.
SessionTimeout(c) ==
  /\ Live
  /\ conn[c].at = "session"
  /\ ~conn[c].frozen
  /\ conn[c].events = <<>> /\ conn[c].ctl = <<>>
  /\ conn' = [conn EXCEPT ![c].at = "finish",
                          ![c].out = Append(@, <<"timeout", conn[c].wait>>)]
  /\ kern' = [kern EXCEPT !.waits = @ \ {c}]
  /\ UNCHANGED <<paused, runner>>

SessionHungUp(c) ==
  /\ Live
  /\ conn[c].at = "session"
  /\ ~conn[c].frozen
  /\ conn[c].hung
  /\ conn' = [conn EXCEPT ![c] = Gone(@)]
  /\ kern' = [kern EXCEPT !.waits = @ \ {c}]
  /\ UNCHANGED <<paused, runner>>

-----------------------------------------------------------------------------
(* Freezing, thawing and closing a connection *)

\* Mutant: a wait that only has its last frame to write is carried as a wait.
carried_finishing(k) ==
  [kind |-> IF k.wait # 0 THEN "Wait" ELSE "Rpc", hello |-> k.hello, buf |-> k.buf,
   out |-> k.out, upgrade |-> IF k.at = "rpc" THEN k.upgrade ELSE 0, wait |-> k.wait]

\* What a connection hands the snapshot.
carried(k) ==
  [kind |-> IF k.at = "session" THEN "Wait" ELSE "Rpc",
   hello |-> k.hello,
   buf |-> k.buf,
   out |-> k.out,
   upgrade |-> IF k.at = "rpc" THEN k.upgrade ELSE 0,
   wait |-> k.wait]

\* `number` is the freeze's, and who hears it.
Frozen(k, number) ==
  [k EXCEPT !.frozen = TRUE, !.reply = [of |-> number, what |-> carried(k)]]

\* Mutant: what the kernel sent last is not looked for.
Closed_undrained(k) ==
  CASE k.at = "rpc" -> [k EXCEPT !.closing = TRUE]
    [] k.at = "session" -> [k EXCEPT !.at = "finish", !.frozen = FALSE, !.events = <<>>]
    [] OTHER -> k

\* The runner is exiting: a verdict the kernel sent last still goes out.
Closed(k) ==
  CASE k.at = "rpc" -> [k EXCEPT !.closing = TRUE]
    [] k.at = "session" ->
         [k EXCEPT !.at = "finish", !.frozen = FALSE, !.events = <<>>,
                   !.out = IF k.events = <<>> THEN @ ELSE Append(@, <<"done", k.wait>>)]
    [] OTHER -> k

\* The loop's ctl branch.  A freeze of the dispatch loop first waits for the
\* replies that are due.
TakeCtl(c) ==
  /\ Live
  /\ conn[c].at \in {"rpc", "session"} \/ (conn[c].at = "finish" /\ conn[c].out # <<>>)
  /\ conn[c].ctl # <<>>
  /\ LET msg == Head(conn[c].ctl)
         k == [conn[c] EXCEPT !.ctl = Tail(@)]
     IN conn' = [conn EXCEPT ![c] =
          CASE msg[1] = "Freeze" /\ k.at = "rpc" -> [conn[c] EXCEPT !.at = "freezing"]
            [] msg[1] = "Freeze" /\ k.at # "rpc" -> Frozen(k, msg[2])
            [] msg[1] = "Thaw" -> [k EXCEPT !.frozen = FALSE]
            [] msg[1] = "Close" -> Closed(k)]
  /\ UNCHANGED <<paused, kern, runner>>

\* The replies are in.
Freeze(c) ==
  /\ Live
  /\ conn[c].at = "freezing"
  /\ conn[c].running = {}
  /\ LET k == [conn[c] EXCEPT !.at = "rpc", !.ctl = Tail(@)]
     IN conn' = [conn EXCEPT ![c] = Frozen(k, Head(conn[c].ctl)[2])]
  /\ UNCHANGED <<paused, kern, runner>>

\* One step of a connection's loop.
Serve(c) ==
  \/ Read(c) \/ UpgradeFailed(c) \/ Flush(c) \/ Finish(c) \/ End(c)
  \/ Ask(c) \/ Begin(c) \/ SessionEvent(c) \/ SessionHungUp(c)
  \/ TakeCtl(c) \/ Freeze(c)

-----------------------------------------------------------------------------
(* The kernel, and the end of the runner *)

\* A wait that ends.
Verdict(c) ==
  /\ Live
  /\ c \in kern.waits
  /\ kern.freeze = 0 /\ ~kern.over
  /\ kern' = [kern EXCEPT !.waits = @ \ {c}]
  /\ conn' = [conn EXCEPT ![c].events = Append(@, "Done")]
  /\ UNCHANGED <<paused, runner>>

\* Replies are queued as they come, by the loop, by a freeze, or before a wait.
Replied(k, ids) ==
  [k EXCEPT !.running = @ \ ids,
            !.out = @ \o SetToSeq({<<"answer", id>> : id \in ids \cap k.running})]

\* The kernel's last task has ended; a wait may end with it, and handlers whose
\* message it never took reply all the same.  Then close_all: what connections
\* owe is to be written within 500 ms.
KernelEnds ==
  /\ runner = "serving"
  /\ kern.quitting /\ kern.freeze = 0
  /\ \E heard \in SUBSET kern.waits :
       conn' = [c \in Client |->
         [Replied(conn[c], conn[c].running) EXCEPT
            !.events = IF c \in heard THEN Append(@, "Done") ELSE @,
            !.ctl = IF Registered(c) THEN Append(@, <<"Close">>) ELSE @]]
  /\ kern' = [kern EXCEPT !.over = TRUE, !.waits = {}, !.queue = <<>>]
  /\ runner' = "closing"
  /\ UNCHANGED paused

\* The process ends with its connections written, or when their time is over.
ProcessEnds ==
  /\ runner = "closing"
  /\ runner' = IF \E c \in Client : Registered(c) THEN "cut" ELSE "ended"
  /\ conn' = [c \in Client |-> IF conn[c].at = "away" THEN Away ELSE Gone(conn[c])]
  /\ UNCHANGED <<paused, kern>>
=============================================================================
