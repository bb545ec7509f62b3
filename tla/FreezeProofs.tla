---------------------------- MODULE FreezeProofs ----------------------------
(***************************************************************************)
(* Theorems about the kernel's loop: what a freeze promises, for any number *)
(* of tasks, intents, quits, upgrades and handlers that end.               *)
(*                                                                         *)
(* The parts of the invariant are stated of a kernel kk and a queue q, so  *)
(* that they can be followed through one turn of the loop.                 *)
(***************************************************************************)
EXTENDS FreezeProperties, TLAPS

Deferrable == ({"Quit"} \X BOOLEAN) \cup ({"Intent"} \X Nat)

Message ==
  Deferrable \cup ({"Freeze"} \X (1 .. MaxUpgrades)) \cup ({"FreezeTimeout"} \X Nat)
    \cup ({"Stopped"} \X Task) \cup ({"Frozen"} \X Task \X Nat) \cup {<<"Thaw">>}

Frost == [number : Nat, reply : {"none", "Rpc", "Quit"}, who : Nat,
          waiting : SUBSET Task, deferred : Seq(Deferrable)]

Loop == [frozen : Frost, freezes : Nat, replay : Seq(Deferrable), quitting : BOOLEAN,
         active : SUBSET Task, effects : SUBSET Task, inbox : [Task -> Seq(Nat)],
         timers : SUBSET Nat, snapshot : SUBSET Task, saved : BOOLEAN,
         applied : Seq(Nat), answers : [1 .. MaxUpgrades -> {"none", "ok", "err"}],
         over : BOOLEAN]

\* The types of what the loop and the tasks keep.
Shapes(kk, q) == kk \in Loop /\ q \in Seq(Message)

Around ==
  /\ mode \in [Task -> Nat] /\ alive \subseteq Task /\ dead \subseteq Mortal
  /\ upgrade \in {"none", "asked", "execed"}
  /\ sent \in [intents : Nat, quits : Nat, upgrades : 0 .. MaxUpgrades]
  /\ alive \cap dead = {}
  /\ upgrade # "none" => sent.upgrades > 0

Holds(q, msg) == \E i \in 1 .. Len(q) : q[i] = msg
HasKind(q, kind) == \E i \in 1 .. Len(q) : q[i][1] = kind

\* A task that has not obeyed the last freeze has it last in its inbox.
InStep(kk, t) ==
  \/ t \in dead
  \/ mode[t] = kk.freezes /\ kk.inbox[t] = <<>>
  \/ /\ mode[t] # kk.freezes /\ kk.inbox[t] # <<>>
     /\ kk.inbox[t][Len(kk.inbox[t])] = kk.freezes
     /\ \A i \in 1 .. Len(kk.inbox[t]) - 1 : kk.inbox[t][i] # kk.freezes

\* A freeze has the last number; no answer and no order has a later one.
Numbered(kk, q) ==
  /\ IsFrozen(kk) => kk.frozen.number = kk.freezes /\ kk.freezes > 0
  /\ kk.effects \subseteq dead
  /\ \A i \in 1 .. Len(q) : q[i][1] = "Frozen" => q[i][3] \in 1 .. kk.freezes
  /\ \A t \in Task : mode[t] <= kk.freezes
  /\ \A t \in Task : \A i \in 1 .. Len(kk.inbox[t]) : kk.inbox[t][i] <= kk.freezes
  /\ \A t \in dead : mode[t] = 0 /\ kk.inbox[t] = <<>>

\* Who answered the freeze in progress is frozen by it.
Frozen(kk, q) ==
  IsFrozen(kk) =>
    /\ ~kk.quitting
    /\ \A t \in Task :
         /\ InStep(kk, t)
         /\ t \notin kk.frozen.waiting \/ Holds(q, <<"Frozen", t, kk.freezes>>)
              => mode[t] = kk.freezes

\* A run is active, and one that is over is on its way to be reported, or was.
Runs(kk, q) ==
  /\ ~kk.quitting => alive \subseteq kk.active
  /\ \A t \in kk.active \ alive : Holds(q, <<"Stopped", t>>)
  /\ \A t \in alive : ~Holds(q, <<"Stopped", t>>)

\* The freeze of the upgrade under way.
Ours(kk) == upgrade # "none" /\ IsFrozen(kk) /\ kk.frozen.who = sent.upgrades

\* Upgrades and their freezes are numbered alike.
Upgrades(kk, q) ==
  /\ \A i \in 1 .. Len(q) : q[i][1] = "Freeze" => q[i][2] \in 1 .. sent.upgrades
  /\ kk.frozen.who \in 0 .. sent.upgrades
  /\ kk.frozen.reply = "Rpc" => kk.frozen.who > 0
  /\ kk.frozen.reply = "Quit" => kk.frozen.who = 0
  /\ \A v \in 1 .. MaxUpgrades : v > sent.upgrades => kk.answers[v] = "none"

\* Nothing thaws the freeze of the upgrade under way, or comes before it late.
Kept(kk, q) ==
  /\ upgrade # "none" =>
       \A i, j \in 1 .. Len(q) :
         i < j /\ q[i] = <<"Freeze", sent.upgrades>> => q[j][1] \notin {"Thaw", "Freeze"}
  /\ Ours(kk) => ~HasKind(q, "Thaw") /\ ~HasKind(q, "Freeze")

\* The end of a run is reported before the task answers the upgrade's freeze.
EndsFirst(kk, q) ==
  Ours(kk) =>
    \A t \in Task :
      /\ t \notin kk.frozen.waiting => ~Holds(q, <<"Stopped", t>>)
      /\ \A i, j \in 1 .. Len(q) :
           i < j /\ q[i] = <<"Frozen", t, kk.freezes>> => q[j] # <<"Stopped", t>>

\* An upgrade with its answer has all that ExecFaithful says.
Granted(kk, q) ==
  upgrade # "none" /\ kk.answers[sent.upgrades] = "ok" =>
    /\ Ours(kk) /\ kk.frozen.reply = "none" /\ kk.frozen.waiting = {}
    /\ kk.snapshot = alive /\ kk.active = alive

\* An upgrade that gave up is followed by its thaw.
Followed(q) ==
  upgrade = "none" =>
    \A i \in 1 .. Len(q) : q[i][1] = "Freeze" => \E j \in i + 1 .. Len(q) : q[j] = <<"Thaw">>
Thawing(kk, q) ==
  upgrade = "none" /\ IsFrozen(kk) /\ kk.frozen.who # 0 => Holds(q, <<"Thaw">>)

OneQuit(q) ==
  \A i, j \in 1 .. Len(q) : q[i][1] = "Quit" /\ q[j][1] = "Quit" => i = j

\* The only request to quit is in one place, and once it is taken up in none.
NoQuits(kk, q) ==
  ~HasKind(q, "Quit") /\ ~HasKind(kk.replay, "Quit") /\ ~HasKind(kk.frozen.deferred, "Quit")
Quits(kk, q) ==
  /\ sent.quits = 0 => NoQuits(kk, q) /\ ~kk.quitting /\ (IsFrozen(kk) => kk.frozen.who # 0)
  /\ sent.quits <= 1 =>
       /\ OneQuit(q) /\ OneQuit(kk.replay) /\ OneQuit(kk.frozen.deferred)
       /\ ~(HasKind(q, "Quit") /\ HasKind(kk.replay, "Quit"))
       /\ ~(HasKind(q, "Quit") /\ HasKind(kk.frozen.deferred, "Quit"))
       /\ ~(HasKind(kk.replay, "Quit") /\ HasKind(kk.frozen.deferred, "Quit"))
       /\ kk.quitting \/ kk.frozen.reply = "Quit" => NoQuits(kk, q)
       /\ kk.over => kk.active = {}

\* All but the last thing, which a thaw is in the middle of.
Turning(kk, q) ==
  /\ Shapes(kk, q) /\ Numbered(kk, q) /\ Frozen(kk, q) /\ Runs(kk, q)
  /\ Upgrades(kk, q) /\ Kept(kk, q) /\ EndsFirst(kk, q) /\ Granted(kk, q)
  /\ Followed(q) /\ Quits(kk, q)

FInv == Around /\ Turning(k, queue) /\ Thawing(k, queue)

-----------------------------------------------------------------------------
(* Sequences *)

\* What a queue keeps when its head is taken.
LEMMA TailFacts ==
  ASSUME NEW S, NEW q \in Seq(S), q # <<>>
  PROVE  /\ Tail(q) \in Seq(S) /\ Head(q) \in S /\ Head(q) = q[1]
         /\ Len(Tail(q)) = Len(q) - 1 /\ Len(q) \in Nat /\ Len(q) > 0
         /\ \A i \in 1 .. Len(Tail(q)) : Tail(q)[i] = q[i + 1] /\ i + 1 \in 1 .. Len(q)
  OBVIOUS

\* What a queue has when a message is sent to it.
LEMMA AppendFacts ==
  ASSUME NEW S, NEW q \in Seq(S), NEW m \in S
  PROVE  /\ Append(q, m) \in Seq(S) /\ Len(q) \in Nat /\ Len(Append(q, m)) = Len(q) + 1
         /\ \A i \in 1 .. Len(q) : Append(q, m)[i] = q[i] /\ i \in 1 .. Len(Append(q, m))
         /\ Append(q, m)[Len(q) + 1] = m /\ Len(q) + 1 \in 1 .. Len(Append(q, m))
         /\ \A i \in 1 .. Len(Append(q, m)) : i \in 1 .. Len(q) \/ i = Len(q) + 1
  OBVIOUS

\* What two sequences have between them has one of them.
LEMMA ConcatFacts ==
  ASSUME NEW S, NEW q \in Seq(S), NEW r \in Seq(S)
  PROVE  /\ q \o r \in Seq(S) /\ Len(q) \in Nat /\ Len(r) \in Nat /\ Len(q \o r) = Len(q) + Len(r)
         /\ \A i \in 1 .. Len(q \o r) :
              \/ i \in 1 .. Len(q) /\ (q \o r)[i] = q[i]
              \/ i - Len(q) \in 1 .. Len(r) /\ (q \o r)[i] = r[i - Len(q)]
         /\ \A i \in 1 .. Len(q) : i \in 1 .. Len(q \o r) /\ (q \o r)[i] = q[i]
         /\ \A i \in 1 .. Len(r) : i + Len(q) \in 1 .. Len(q \o r) /\ (q \o r)[i + Len(q)] = r[i]
  OBVIOUS

\* The kinds of messages, with what they carry.
LEMMA Kinds ==
  ASSUME NEW m \in Message
  PROVE  /\ m[1] \in {"Quit", "Intent", "Freeze", "FreezeTimeout", "Stopped", "Frozen", "Thaw"}
         /\ m[1] = "Quit" => m[2] \in BOOLEAN /\ m = <<"Quit", m[2]>>
         /\ m[1] = "Intent" => m[2] \in Nat /\ m = <<"Intent", m[2]>>
         /\ m[1] = "Freeze" => m[2] \in 1 .. MaxUpgrades /\ m = <<"Freeze", m[2]>>
         /\ m[1] = "FreezeTimeout" => m[2] \in Nat /\ m = <<"FreezeTimeout", m[2]>>
         /\ m[1] = "Stopped" => m[2] \in Task /\ m = <<"Stopped", m[2]>>
         /\ m[1] = "Frozen" => m[2] \in Task /\ m[3] \in Nat /\ m = <<"Frozen", m[2], m[3]>>
         /\ m[1] = "Thaw" => m = <<"Thaw">>
  BY DEF Message, Deferrable

\* The rest of a queue has what the queue has, but for its head.
LEMMA TailHas ==
  ASSUME NEW S, NEW q \in Seq(S), q # <<>>
  PROVE  /\ \A m : Holds(Tail(q), m) => Holds(q, m)
         /\ \A m : Holds(q, m) /\ Head(q) # m => Holds(Tail(q), m)
         /\ \A kind : HasKind(Tail(q), kind) => HasKind(q, kind)
         /\ OneQuit(q) => OneQuit(Tail(q))
         /\ Head(q)[1] = "Quit" => HasKind(q, "Quit")
         /\ OneQuit(q) /\ Head(q)[1] = "Quit" => ~HasKind(Tail(q), "Quit")
<1> DEFINE r == Tail(q)
<1>1. /\ r \in Seq(S) /\ Head(q) \in S /\ Head(q) = q[1]
      /\ Len(r) = Len(q) - 1 /\ Len(q) \in Nat /\ Len(q) > 0
      /\ \A i \in 1 .. Len(r) : r[i] = q[i + 1] /\ i + 1 \in 1 .. Len(q)
  BY TailFacts
<1> HIDE DEF r
<1>2. \A m : Holds(r, m) => Holds(q, m)
  BY <1>1 DEF Holds
<1>3. ASSUME NEW m, Holds(q, m), Head(q) # m
      PROVE  Holds(r, m)
  <2>1. PICK i \in 1 .. Len(q) : q[i] = m
    BY <1>3 DEF Holds
  <2>2. i # 1 /\ i - 1 \in 1 .. Len(r) /\ (i - 1) + 1 = i
    BY <2>1, <1>1, <1>3
  <2> QED
    BY <2>1, <2>2, <1>1 DEF Holds
<1>4. \A kind : HasKind(r, kind) => HasKind(q, kind)
  BY <1>1 DEF HasKind
<1>5. OneQuit(q) => OneQuit(r)
  <2> SUFFICES ASSUME OneQuit(q), NEW i \in 1 .. Len(r), NEW j \in 1 .. Len(r),
                      r[i][1] = "Quit", r[j][1] = "Quit"
               PROVE  i = j
    BY DEF OneQuit
  <2>1. i + 1 = j + 1
    <3>1. /\ i + 1 \in 1 .. Len(q) /\ q[i + 1][1] = "Quit"
          /\ j + 1 \in 1 .. Len(q) /\ q[j + 1][1] = "Quit"
      BY <1>1
    <3> QED
      BY <3>1 DEF OneQuit
  <2> QED
    BY <2>1, <1>1
<1>6. Head(q)[1] = "Quit" => HasKind(q, "Quit")
  BY <1>1 DEF HasKind
<1>7. ASSUME OneQuit(q), Head(q)[1] = "Quit", NEW i \in 1 .. Len(r), r[i][1] = "Quit"
      PROVE  FALSE
  <2>1. i + 1 = 1
    BY <1>7, <1>1 DEF OneQuit
  <2> QED
    BY <2>1, <1>1
<1> QED
  BY <1>2, <1>3, <1>4, <1>5, <1>6, <1>7 DEF r, HasKind

\* A queue that was sent a message has what it had, and the message.
LEMMA AppendHas ==
  ASSUME NEW S, NEW q \in Seq(S), NEW msg \in S
  PROVE  /\ \A m : Holds(Append(q, msg), m) <=> Holds(q, m) \/ m = msg
         /\ \A kind : HasKind(Append(q, msg), kind) <=> HasKind(q, kind) \/ msg[1] = kind
         /\ OneQuit(q) /\ (msg[1] # "Quit" \/ ~HasKind(q, "Quit")) => OneQuit(Append(q, msg))
<1> DEFINE r == Append(q, msg)
<1>1. /\ r \in Seq(S) /\ Len(q) \in Nat /\ Len(r) = Len(q) + 1
      /\ \A i \in 1 .. Len(q) : r[i] = q[i] /\ i \in 1 .. Len(r)
      /\ r[Len(q) + 1] = msg /\ Len(q) + 1 \in 1 .. Len(r)
      /\ \A i \in 1 .. Len(r) : i \in 1 .. Len(q) \/ i = Len(q) + 1
  BY AppendFacts
<1> HIDE DEF r
<1>2. \A m : Holds(r, m) <=> Holds(q, m) \/ m = msg
  BY <1>1 DEF Holds
<1>3. \A kind : HasKind(r, kind) <=> HasKind(q, kind) \/ msg[1] = kind
  BY <1>1 DEF HasKind
<1>4. ASSUME OneQuit(q), msg[1] # "Quit" \/ ~HasKind(q, "Quit"),
             NEW i \in 1 .. Len(r), NEW j \in 1 .. Len(r), r[i][1] = "Quit", r[j][1] = "Quit"
      PROVE  i = j
  BY <1>1, <1>4 DEF OneQuit, HasKind
<1> QED
  BY <1>2, <1>3, <1>4 DEF r, OneQuit

\* Two sequences put together have what one of them has.
LEMMA ConcatHas ==
  ASSUME NEW S, NEW q \in Seq(S), NEW r \in Seq(S)
  PROVE  /\ HasKind(q \o r, "Quit") => HasKind(q, "Quit") \/ HasKind(r, "Quit")
         /\ OneQuit(q) /\ OneQuit(r) /\ ~(HasKind(q, "Quit") /\ HasKind(r, "Quit"))
              => OneQuit(q \o r)
<1> DEFINE s == q \o r
<1>1. /\ s \in Seq(S) /\ Len(q) \in Nat /\ Len(r) \in Nat
      /\ \A i \in 1 .. Len(s) : \/ i \in 1 .. Len(q) /\ s[i] = q[i]
                                \/ i - Len(q) \in 1 .. Len(r) /\ s[i] = r[i - Len(q)]
  BY ConcatFacts
<1> HIDE DEF s
<1>2. HasKind(s, "Quit") => HasKind(q, "Quit") \/ HasKind(r, "Quit")
  BY <1>1 DEF HasKind
<1>3. ASSUME OneQuit(q), OneQuit(r), ~(HasKind(q, "Quit") /\ HasKind(r, "Quit")),
             NEW i \in 1 .. Len(s), NEW j \in 1 .. Len(s), s[i][1] = "Quit", s[j][1] = "Quit"
      PROVE  i = j
  <2>1. i \in 1 .. Len(q) \/ i - Len(q) \in 1 .. Len(r)
    BY <1>1
  <2>2. j \in 1 .. Len(q) \/ j - Len(q) \in 1 .. Len(r)
    BY <1>1
  <2>3. CASE HasKind(r, "Quit")
    <3>1. i - Len(q) \in 1 .. Len(r) /\ r[i - Len(q)][1] = "Quit"
          /\ j - Len(q) \in 1 .. Len(r) /\ r[j - Len(q)][1] = "Quit"
      BY <1>1, <1>3, <2>3 DEF HasKind
    <3>2. i - Len(q) = j - Len(q)
      BY <3>1, <1>3 DEF OneQuit
    <3> QED
      BY <3>2, <1>1
  <2>4. CASE ~HasKind(r, "Quit")
    BY <1>1, <1>3, <2>4 DEF HasKind, OneQuit
  <2> QED
    BY <2>3, <2>4
<1> QED
  BY <1>2, <1>3 DEF s, OneQuit

-----------------------------------------------------------------------------
(* One turn of the loop *)

\* A message that says nothing of a run may be taken.
LEMMA Taken ==
  ASSUME NEW kk, NEW q, Turning(kk, q), Around, q # <<>>, Head(q)[1] # "Stopped"
  PROVE  /\ Turning(kk, Tail(q))
         /\ Thawing(kk, q) /\ Head(q)[1] # "Thaw" => Thawing(kk, Tail(q))
<1> DEFINE r == Tail(q)
<1>1. q \in Seq(Message) /\ kk \in Loop
  BY DEF Turning, Shapes
<1>2. /\ r \in Seq(Message) /\ Head(q) \in Message /\ Head(q) = q[1]
      /\ Len(r) = Len(q) - 1 /\ Len(q) \in Nat /\ Len(q) > 0
      /\ \A i \in 1 .. Len(r) : r[i] = q[i + 1] /\ i + 1 \in 1 .. Len(q)
  BY <1>1, TailFacts
<1>3. /\ \A m : Holds(r, m) => Holds(q, m)
      /\ \A m : Holds(q, m) /\ Head(q) # m => Holds(r, m)
      /\ \A kind : HasKind(r, kind) => HasKind(q, kind)
      /\ OneQuit(q) => OneQuit(r)
  BY <1>1, TailHas
<1> HIDE DEF r
<1>4. Shapes(kk, r)
  BY <1>1, <1>2 DEF Shapes
<1>5. Numbered(kk, r)
  BY <1>2 DEF Turning, Numbered
<1>6. Frozen(kk, r)
  BY <1>3 DEF Turning, Frozen
<1>7. Runs(kk, r)
  <2>1. ASSUME NEW t \in kk.active \ alive
        PROVE  Holds(r, <<"Stopped", t>>)
    <3>1. Holds(q, <<"Stopped", t>>) /\ Head(q) # <<"Stopped", t>>
      BY <2>1 DEF Turning, Runs
    <3> QED
      BY <3>1, <1>3
  <2> QED
    BY <2>1, <1>3 DEF Turning, Runs
<1>8. Upgrades(kk, r)
  BY <1>2 DEF Turning, Upgrades
<1>9. Kept(kk, r)
  <2>1. ASSUME upgrade # "none", NEW i \in 1 .. Len(r), NEW j \in 1 .. Len(r),
               i < j, r[i] = <<"Freeze", sent.upgrades>>
        PROVE  r[j][1] \notin {"Thaw", "Freeze"}
    <3>1. i + 1 < j + 1
      BY <2>1
    <3> QED
      BY <3>1, <2>1, <1>2 DEF Turning, Kept
  <2> QED
    BY <2>1, <1>3 DEF Turning, Kept
<1>10. EndsFirst(kk, r)
  <2> SUFFICES ASSUME Ours(kk), NEW t \in Task
               PROVE  /\ t \notin kk.frozen.waiting => ~Holds(r, <<"Stopped", t>>)
                      /\ \A i, j \in 1 .. Len(r) :
                           i < j /\ r[i] = <<"Frozen", t, kk.freezes>> => r[j] # <<"Stopped", t>>
    BY DEF EndsFirst
  <2>1. ASSUME NEW i \in 1 .. Len(r), NEW j \in 1 .. Len(r),
               i < j, r[i] = <<"Frozen", t, kk.freezes>>
        PROVE  r[j] # <<"Stopped", t>>
    <3>1. i + 1 < j + 1
      BY <2>1
    <3> QED
      BY <3>1, <2>1, <1>2 DEF Turning, EndsFirst
  <2> QED
    BY <2>1, <1>3 DEF Turning, EndsFirst
<1>11. Granted(kk, r)
  BY DEF Turning, Granted
<1>12. Followed(r)
  <2> SUFFICES ASSUME upgrade = "none", NEW i \in 1 .. Len(r), r[i][1] = "Freeze"
               PROVE  \E j \in i + 1 .. Len(r) : r[j] = <<"Thaw">>
    BY DEF Followed
  <2>1. PICK j \in (i + 1) + 1 .. Len(q) : q[j] = <<"Thaw">>
    BY <1>2 DEF Turning, Followed
  <2>2. j - 1 \in i + 1 .. Len(r) /\ j - 1 \in 1 .. Len(r) /\ (j - 1) + 1 = j
    BY <1>2
  <2>3. r[j - 1] = <<"Thaw">>
    BY <2>1, <2>2, <1>2
  <2> QED
    BY <2>2, <2>3
<1>13. Quits(kk, r)
  BY <1>3 DEF Turning, Quits, NoQuits
<1>14. Thawing(kk, q) /\ Head(q)[1] # "Thaw" => Thawing(kk, r)
  BY <1>3 DEF Thawing
<1> QED
  BY <1>4, <1>5, <1>6, <1>7, <1>8, <1>9, <1>10, <1>11, <1>12, <1>13, <1>14 DEF Turning, r

\* A command to all is of the same kernel, and the last in each inbox.
LEMMA Told ==
  ASSUME NEW kk \in Loop, NEW n \in Nat, Around
  PROVE  LET told == Broadcast(kk, n) IN
         /\ told \in Loop
         /\ told.frozen = kk.frozen /\ told.freezes = kk.freezes /\ told.replay = kk.replay
         /\ told.quitting = kk.quitting /\ told.active = kk.active
         /\ told.timers = kk.timers /\ told.snapshot = kk.snapshot /\ told.saved = kk.saved
         /\ told.applied = kk.applied /\ told.answers = kk.answers /\ told.over = kk.over
         /\ told.effects = kk.effects \cup dead
         /\ \A t \in Task : told.inbox[t] = IF t \in dead THEN kk.inbox[t]
                                            ELSE Append(kk.inbox[t], n)
<1>1. dead \subseteq Task /\ Task \subseteq Task
  BY FreezeAssumption DEF Around
<1>2. \A t \in Task : kk.inbox[t] \in Seq(Nat) /\ Append(kk.inbox[t], n) \in Seq(Nat)
  BY DEF Loop
<1>3. [t \in Task |-> IF t \in dead THEN kk.inbox[t] ELSE Append(kk.inbox[t], n)]
        \in [Task -> Seq(Nat)]
  BY <1>2
<1> QED
  BY <1>1, <1>3 DEF Loop, Broadcast

\* No freeze in progress has the shape of one.
LEMMA NoFreezeShape ==
  /\ NoFreeze \in Frost
  /\ NoFreeze.number = 0 /\ NoFreeze.reply = "none" /\ NoFreeze.who = 0
  /\ NoFreeze.deferred = <<>> /\ ~HasKind(NoFreeze.deferred, "Quit") /\ OneQuit(NoFreeze.deferred)
BY DEF NoFreeze, Frost, HasKind, OneQuit

\* A thaw that is not the upgrade's loss leaves a kernel that is not frozen, and
\* all that holds of one.
LEMMA Thawed ==
  ASSUME NEW kk, NEW q, Turning(kk, q), Around, ~Ours(kk)
  PROVE  /\ Turning(thaw(kk), q) /\ ~IsFrozen(thaw(kk)) /\ Thawing(thaw(kk), q)
         /\ thaw(kk).frozen.reply = "none"
         /\ thaw(kk).quitting = kk.quitting /\ thaw(kk).over = kk.over
         /\ thaw(kk).active = kk.active /\ thaw(kk).snapshot = kk.snapshot
         /\ thaw(kk).saved = kk.saved
         /\ NoQuits(kk, q) => NoQuits(thaw(kk), q)
<1> DEFINE th == thaw(kk)
<1>0. kk \in Loop /\ q \in Seq(Message)
  BY DEF Turning, Shapes
<1>1. CASE ~IsFrozen(kk)
  BY <1>1, NoFreezeShape DEF thaw, Thawing, IsFrozen
<1>2. CASE IsFrozen(kk)
  <2> DEFINE told == Broadcast(kk, 0)
             d == kk.frozen.deferred
  <2>1. /\ told \in Loop
        /\ told.frozen = kk.frozen /\ told.freezes = kk.freezes /\ told.replay = kk.replay
        /\ told.quitting = kk.quitting /\ told.active = kk.active
        /\ told.timers = kk.timers /\ told.snapshot = kk.snapshot /\ told.saved = kk.saved
        /\ told.applied = kk.applied /\ told.answers = kk.answers /\ told.over = kk.over
        /\ told.effects = kk.effects \cup dead
        /\ \A t \in Task : told.inbox[t] = IF t \in dead THEN kk.inbox[t]
                                           ELSE Append(kk.inbox[t], 0)
    BY <1>0, Told
  <2>2. /\ d \in Seq(Deferrable) /\ kk.replay \in Seq(Deferrable)
        /\ kk.replay \o d \in Seq(Deferrable)
    BY <1>0, ConcatFacts DEF Loop, Frost
  <2>3. th = [told EXCEPT !.frozen = NoFreeze, !.replay = @ \o d]
    BY <1>2 DEF thaw
  <2> HIDE DEF told, d
  <2>4. th \in Loop
    <3> DEFINE back == told.replay \o d
    <3>1. back \in Seq(Deferrable) /\ NoFreeze \in Frost
      BY <2>1, <2>2, NoFreezeShape
    <3>2. th = [told EXCEPT !.frozen = NoFreeze, !.replay = back]
      BY <2>3
    <3> HIDE DEF back
    <3> QED
      BY <2>1, <3>1, <3>2 DEF Loop
  <2>5. /\ th.frozen = NoFreeze /\ th.freezes = kk.freezes /\ th.replay = kk.replay \o d
        /\ th.quitting = kk.quitting /\ th.active = kk.active /\ th.snapshot = kk.snapshot
        /\ th.saved = kk.saved
        /\ th.answers = kk.answers /\ th.over = kk.over /\ th.effects = kk.effects \cup dead
        /\ \A t \in Task : th.inbox[t] = IF t \in dead THEN kk.inbox[t]
                                         ELSE Append(kk.inbox[t], 0)
    BY <2>1, <2>3 DEF Loop
  <2> HIDE DEF th
  <2>6. ~IsFrozen(th) /\ ~Ours(th)
    BY <2>5 DEF IsFrozen, Ours
  <2>7. Numbered(th, q)
    <3>1. \A t \in Task : \A i \in 1 .. Len(th.inbox[t]) : th.inbox[t][i] <= kk.freezes
      <4> SUFFICES ASSUME NEW t \in Task, NEW i \in 1 .. Len(th.inbox[t])
                   PROVE  th.inbox[t][i] <= kk.freezes
        OBVIOUS
      <4>1. CASE t \in dead
        BY <4>1, <2>5 DEF Turning, Numbered
      <4>2. CASE t \notin dead
        <5>1. kk.inbox[t] \in Seq(Nat) /\ kk.freezes \in Nat
          BY <1>0 DEF Loop
        <5>2. \A j \in 1 .. Len(Append(kk.inbox[t], 0)) :
                j \in 1 .. Len(kk.inbox[t]) \/ Append(kk.inbox[t], 0)[j] = 0
          BY <5>1
        <5>3. \A j \in 1 .. Len(kk.inbox[t]) : Append(kk.inbox[t], 0)[j] = kk.inbox[t][j]
          BY <5>1
        <5>4. th.inbox[t] = Append(kk.inbox[t], 0)
          BY <4>2, <2>5
        <5>5. \A j \in 1 .. Len(kk.inbox[t]) : kk.inbox[t][j] <= kk.freezes
          BY DEF Turning, Numbered
        <5> QED
          BY <5>1, <5>2, <5>3, <5>4, <5>5
      <4> QED
        BY <4>1, <4>2
    <3>2. dead \subseteq Task
      BY FreezeAssumption DEF Around
    <3> QED
      BY <3>1, <3>2, <2>5, <2>6 DEF Turning, Numbered
  <2>8. Upgrades(th, q)
    BY <2>5, NoFreezeShape DEF Turning, Upgrades, Around
  <2>9. Granted(th, q)
    BY <2>5 DEF Turning, Granted
  <2>10. Quits(th, q) /\ (NoQuits(kk, q) => NoQuits(th, q))
    <3>1. /\ HasKind(th.replay, "Quit") => HasKind(kk.replay, "Quit") \/ HasKind(d, "Quit")
          /\ OneQuit(kk.replay) /\ OneQuit(d) /\ ~(HasKind(kk.replay, "Quit") /\ HasKind(d, "Quit"))
               => OneQuit(th.replay)
      BY <2>2, <2>5, ConcatHas
    <3> QED
      BY <3>1, <2>5, <2>6, NoFreezeShape DEF Turning, Quits, NoQuits, d
  <2>11. Frozen(th, q) /\ Runs(th, q) /\ Kept(th, q) /\ EndsFirst(th, q) /\ Thawing(th, q)
    BY <2>5, <2>6 DEF Turning, Frozen, Runs, Kept, EndsFirst, Thawing
  <2> QED
    BY <1>0, <2>4, <2>5, <2>6, <2>7, <2>8, <2>9, <2>10, <2>11, NoFreezeShape
       DEF Turning, Shapes, th
<1> QED
  BY <1>1, <1>2

\* A freeze of a kernel that is not frozen nor quitting: of an upgrade that asked
\* for it, or of a quit that was taken.
LEMMA Begun ==
  ASSUME NEW kk, NEW q, NEW reply, NEW u, Turning(kk, q), Around,
         ~IsFrozen(kk), ~kk.quitting,
         \/ reply = "Rpc" /\ u \in 1 .. sent.upgrades
         \/ reply = "Quit" /\ u = 0 /\ sent.quits > 0 /\ (sent.quits <= 1 => NoQuits(kk, q)),
         upgrade # "none" /\ u = sent.upgrades => ~HasKind(q, "Thaw") /\ ~HasKind(q, "Freeze")
  PROVE  LET begun == BeginFreezeFor(kk, reply, u) IN
         /\ Turning(begun, q) /\ IsFrozen(begun) /\ begun.over = kk.over
         /\ begun.frozen.who = u /\ begun.frozen.waiting = Task
         /\ begun.active = kk.active /\ begun.saved = kk.saved /\ begun.quitting = kk.quitting
<1> DEFINE n == kk.freezes + 1
           first == [kk EXCEPT !.freezes = n]
           told == Broadcast(first, n)
           frost == [number |-> n, reply |-> IF dead = {} THEN reply ELSE "none", who |-> u,
                     waiting |-> Task, deferred |-> <<>>]
           ans == IF reply = "Rpc" /\ dead # {} THEN [told.answers EXCEPT ![u] = "err"]
                  ELSE told.answers
           be == BeginFreezeFor(kk, reply, u)
<1>0. kk \in Loop /\ q \in Seq(Message) /\ kk.freezes \in Nat /\ n \in Nat
  BY DEF Turning, Shapes, Loop
<1>1. /\ first \in Loop /\ first.frozen = kk.frozen /\ first.freezes = n
      /\ first.replay = kk.replay /\ first.quitting = kk.quitting /\ first.active = kk.active
      /\ first.answers = kk.answers /\ first.over = kk.over /\ first.effects = kk.effects
      /\ first.snapshot = kk.snapshot /\ first.inbox = kk.inbox /\ first.saved = kk.saved
  BY <1>0 DEF Loop
<1>2. be = [told EXCEPT !.frozen = frost, !.answers = ans]
  BY DEF BeginFreezeFor
<1>3. /\ told \in Loop /\ told.freezes = n
      /\ told.replay = kk.replay /\ told.quitting = kk.quitting /\ told.active = kk.active
      /\ told.answers = kk.answers /\ told.over = kk.over /\ told.effects = kk.effects \cup dead
      /\ told.snapshot = kk.snapshot /\ told.saved = kk.saved
      /\ \A t \in Task : told.inbox[t] = IF t \in dead THEN kk.inbox[t]
                                         ELSE Append(kk.inbox[t], n)
  <2> HIDE DEF first, n
  <2>1. /\ told \in Loop /\ told.freezes = first.freezes
        /\ told.replay = first.replay /\ told.quitting = first.quitting
        /\ told.active = first.active /\ told.answers = first.answers
        /\ told.over = first.over /\ told.effects = first.effects \cup dead
        /\ told.snapshot = first.snapshot /\ told.saved = first.saved
        /\ \A t \in Task : told.inbox[t] = IF t \in dead THEN first.inbox[t]
                                           ELSE Append(first.inbox[t], n)
    BY <1>0, <1>1, Told
  <2> HIDE DEF told
  <2> QED
    BY <1>1, <2>1
<1>4. frost \in Frost
  BY <1>0 DEF Frost, Around
<1> HIDE DEF first
<1>5. /\ ans \in [1 .. MaxUpgrades -> {"none", "ok", "err"}]
      /\ \A v \in 1 .. MaxUpgrades : ans[v] = kk.answers[v] \/ (ans[v] = "err" /\ v = u)
  <2>1. kk.answers \in [1 .. MaxUpgrades -> {"none", "ok", "err"}]
    BY <1>0 DEF Loop
  <2> QED
    BY <2>1, <1>3
<1>6. frost.number = n /\ frost.who = u /\ frost.waiting = Task /\ frost.deferred = <<>>
      /\ frost.reply \in {reply, "none"}
  OBVIOUS
<1> HIDE DEF told, frost, ans, be
<1>7. be \in Loop
  BY <1>2, <1>3, <1>4, <1>5 DEF Loop
<1>8. /\ be.frozen = frost /\ be.freezes = n /\ be.answers = ans
      /\ be.replay = kk.replay /\ be.quitting = kk.quitting /\ be.active = kk.active
      /\ be.over = kk.over /\ be.effects = kk.effects \cup dead
      /\ be.snapshot = kk.snapshot /\ be.saved = kk.saved
      /\ \A t \in Task : be.inbox[t] = IF t \in dead THEN kk.inbox[t]
                                       ELSE Append(kk.inbox[t], n)
  BY <1>2, <1>3 DEF Loop
<1>9. IsFrozen(be) /\ n > kk.freezes /\ n > 0
  BY <1>0, <1>6, <1>8, NoFreezeShape DEF IsFrozen
<1> HIDE DEF n
<1>10. \A t \in Task \ dead :
         /\ kk.inbox[t] \in Seq(Nat)
         /\ be.inbox[t] = Append(kk.inbox[t], n)
         /\ Len(be.inbox[t]) = Len(kk.inbox[t]) + 1 /\ Len(kk.inbox[t]) \in Nat
         /\ be.inbox[t][Len(kk.inbox[t]) + 1] = n
         /\ \A i \in 1 .. Len(kk.inbox[t]) :
              be.inbox[t][i] = kk.inbox[t][i] /\ kk.inbox[t][i] <= kk.freezes
              /\ kk.inbox[t][i] \in Nat
  <2> SUFFICES ASSUME NEW t \in Task \ dead
               PROVE  /\ kk.inbox[t] \in Seq(Nat)
                      /\ be.inbox[t] = Append(kk.inbox[t], n)
                      /\ Len(be.inbox[t]) = Len(kk.inbox[t]) + 1 /\ Len(kk.inbox[t]) \in Nat
                      /\ be.inbox[t][Len(kk.inbox[t]) + 1] = n
                      /\ \A i \in 1 .. Len(kk.inbox[t]) :
                           be.inbox[t][i] = kk.inbox[t][i] /\ kk.inbox[t][i] <= kk.freezes
                           /\ kk.inbox[t][i] \in Nat
    OBVIOUS
  <2>1. kk.inbox[t] \in Seq(Nat)
    BY <1>0 DEF Loop
  <2>2. be.inbox[t] = Append(kk.inbox[t], n)
    BY <1>8
  <2>3. \A i \in 1 .. Len(kk.inbox[t]) : kk.inbox[t][i] <= kk.freezes
    BY DEF Turning, Numbered
  <2>4. /\ Len(kk.inbox[t]) \in Nat
        /\ Len(Append(kk.inbox[t], n)) = Len(kk.inbox[t]) + 1
        /\ \A i \in 1 .. Len(kk.inbox[t]) :
             Append(kk.inbox[t], n)[i] = kk.inbox[t][i] /\ kk.inbox[t][i] \in Nat
        /\ Append(kk.inbox[t], n)[Len(kk.inbox[t]) + 1] = n
    <3> DEFINE box == kk.inbox[t]
    <3>1. box \in Seq(Nat) /\ n \in Nat
      BY <2>1, <1>0
    <3> HIDE DEF box
    <3>2. \A i \in 1 .. Len(box) : box[i] \in Nat
      BY <3>1
    <3>3. /\ Len(box) \in Nat /\ Len(Append(box, n)) = Len(box) + 1
          /\ \A i \in 1 .. Len(box) : Append(box, n)[i] = box[i]
          /\ Append(box, n)[Len(box) + 1] = n
      BY <3>1, AppendFacts
    <3> QED
      BY <3>2, <3>3 DEF box
  <2> QED
    BY <2>1, <2>2, <2>3, <2>4
<1>11. dead \subseteq Task /\ mode \in [Task -> Nat] /\ \A t \in Task : mode[t] <= kk.freezes
  BY FreezeAssumption DEF Around, Turning, Numbered
<1>12. Numbered(be, q)
  <2>1. \A t \in Task : \A i \in 1 .. Len(be.inbox[t]) : be.inbox[t][i] <= n
    <3> SUFFICES ASSUME NEW t \in Task, NEW i \in 1 .. Len(be.inbox[t])
                 PROVE  be.inbox[t][i] <= n
      OBVIOUS
    <3>1. CASE t \in dead
      <4>1. be.inbox[t] = <<>>
        BY <3>1, <1>8 DEF Turning, Numbered
      <4> QED
        BY <4>1
    <3>2. CASE t \notin dead
      <4>1. i \in 1 .. Len(kk.inbox[t]) \/ i = Len(kk.inbox[t]) + 1
        BY <3>2, <1>10
      <4>2. CASE i \in 1 .. Len(kk.inbox[t])
        <5>1. be.inbox[t][i] \in Nat /\ be.inbox[t][i] <= kk.freezes
          BY <4>2, <3>2, <1>10
        <5> QED
          BY <5>1, <1>9, <1>0
      <4>3. CASE i = Len(kk.inbox[t]) + 1
        BY <4>3, <3>2, <1>0, <1>10
      <4> QED
        BY <4>1, <4>2, <4>3
    <3> QED
      BY <3>1, <3>2
  <2>2. \A t \in dead : mode[t] = 0 /\ be.inbox[t] = <<>>
    BY <1>8, <1>11 DEF Turning, Numbered
  <2>3. \A i \in 1 .. Len(q) : q[i][1] = "Frozen" => q[i][3] \in 1 .. n
    BY <1>0, <1>9 DEF Turning, Numbered
  <2>4. \A t \in Task : mode[t] <= n
    BY <1>0, <1>9, <1>11
  <2>5. be.effects \subseteq dead
    BY <1>8 DEF Turning, Numbered
  <2> QED
    BY <2>1, <2>2, <2>3, <2>4, <2>5, <1>6, <1>8, <1>9 DEF Numbered
<1>13. Frozen(be, q)
  <2>1. ASSUME NEW t \in Task
        PROVE  InStep(be, t)
    <3>1. CASE t \notin dead
      <4>1. mode[t] # n
        BY <1>0, <1>9, <1>11
      <4>2. ASSUME NEW i \in 1 .. Len(be.inbox[t]) - 1
            PROVE  be.inbox[t][i] # n
        <5>1. i \in 1 .. Len(kk.inbox[t])
          BY <3>1, <1>10
        <5>2. be.inbox[t][i] \in Nat /\ be.inbox[t][i] <= kk.freezes
          BY <5>1, <3>1, <1>10
        <5> QED
          BY <5>2, <1>9, <1>0
      <4>3. be.inbox[t] # <<>> /\ be.inbox[t][Len(be.inbox[t])] = n
        BY <3>1, <1>10
      <4> QED
        BY <4>1, <4>2, <4>3, <1>8 DEF InStep
    <3> QED
      BY <3>1 DEF InStep
  <2>2. ASSUME NEW t \in Task
        PROVE  ~Holds(q, <<"Frozen", t, n>>)
    <3>1. \A i \in 1 .. Len(q) : q[i][1] = "Frozen" => q[i][3] \in 1 .. kk.freezes
      BY DEF Turning, Numbered
    <3> QED
      BY <3>1, <1>0, <1>9 DEF Holds
  <2> QED
    BY <2>1, <2>2, <1>6, <1>8 DEF Frozen
<1>14. Runs(be, q)
  BY <1>8 DEF Turning, Runs
<1>15. Upgrades(be, q)
  <2>1. \A v \in 1 .. MaxUpgrades : v > sent.upgrades => ans[v] = "none"
    BY <1>5 DEF Turning, Upgrades, Around
  <2> QED
    BY <2>1, <1>6, <1>8 DEF Turning, Upgrades, Around
<1>16. Kept(be, q)
  BY <1>6, <1>8 DEF Turning, Kept, Ours
<1>17. EndsFirst(be, q)
  <2>1. ASSUME NEW t \in Task
        PROVE  ~Holds(q, <<"Frozen", t, n>>)
    <3>1. \A i \in 1 .. Len(q) : q[i][1] = "Frozen" => q[i][3] \in 1 .. kk.freezes
      BY DEF Turning, Numbered
    <3> QED
      BY <3>1, <1>0, <1>9 DEF Holds
  <2> QED
    BY <2>1, <1>6, <1>8 DEF EndsFirst, Holds
<1>18. Granted(be, q)
  <2>1. ASSUME upgrade # "none", ans[sent.upgrades] = "ok"
        PROVE  FALSE
    <3>1. sent.upgrades \in 1 .. MaxUpgrades
      BY <2>1 DEF Around
    <3>2. kk.answers[sent.upgrades] = "ok"
      BY <3>1, <2>1, <1>5
    <3> QED
      BY <3>2, <2>1 DEF Turning, Granted, Ours
  <2> QED
    BY <2>1, <1>8 DEF Granted
<1>19. Quits(be, q)
  <2>1. kk.frozen = NoFreeze
    BY DEF IsFrozen
  <2>2. NoQuits(kk, q) <=> NoQuits(be, q)
    BY <2>1, <1>6, <1>8, NoFreezeShape DEF NoQuits, HasKind
  <2>3. frost.reply = "Quit" => u = 0 /\ sent.quits > 0 /\ (sent.quits <= 1 => NoQuits(kk, q))
    BY <1>6
  <2>4. OneQuit(frost.deferred) /\ ~HasKind(frost.deferred, "Quit")
    BY <1>6 DEF OneQuit, HasKind
  <2>5. u = 0 => sent.quits > 0
    BY DEF Around
  <2> QED
    BY <2>2, <2>3, <2>4, <2>5, <1>6, <1>8 DEF Turning, Quits, Around
<1> QED
  BY <1>0, <1>6, <1>7, <1>8, <1>9, <1>12, <1>13, <1>14, <1>15, <1>16, <1>17, <1>18, <1>19
     DEF Turning, Shapes, be

\* What the invariant does not speak of: the intents handled, the timers, and
\* whether the save went well.
LEMMA Alike ==
  ASSUME NEW kk, NEW kj \in Loop, NEW q, Turning(kk, q),
         kj.frozen = kk.frozen, kj.freezes = kk.freezes, kj.quitting = kk.quitting,
         kj.active = kk.active, kj.snapshot = kk.snapshot, kj.answers = kk.answers,
         kj.inbox = kk.inbox, kj.effects = kk.effects, kj.replay = kk.replay, kj.over = kk.over
  PROVE  Turning(kj, q) /\ (Thawing(kk, q) <=> Thawing(kj, q)) /\ (IsFrozen(kk) <=> IsFrozen(kj))
<1>1. (IsFrozen(kk) <=> IsFrozen(kj)) /\ (Ours(kk) <=> Ours(kj))
  BY DEF IsFrozen, Ours
<1>2. Shapes(kj, q)
  BY DEF Turning, Shapes
<1>3. Numbered(kj, q) /\ Runs(kj, q) /\ Upgrades(kj, q)
  BY <1>1 DEF Turning, Numbered, Runs, Upgrades
<1>4. Frozen(kj, q)
  BY <1>1 DEF Turning, Frozen, InStep
<1>5. Kept(kj, q) /\ EndsFirst(kj, q) /\ Granted(kj, q) /\ Quits(kj, q)
  BY <1>1 DEF Turning, Kept, EndsFirst, Granted, Quits, NoQuits
<1>6. Thawing(kk, q) <=> Thawing(kj, q)
  BY <1>1 DEF Thawing
<1> QED
  BY <1>1, <1>2, <1>3, <1>4, <1>5, <1>6 DEF Turning

\* A kernel that is not frozen begins to quit, for a request that was taken; or
\* ends, for a second one.
LEMMA QuitBegun ==
  ASSUME NEW kk, NEW q, Turning(kk, q), Around, ~IsFrozen(kk), sent.quits > 0,
         sent.quits <= 1 => ~kk.quitting /\ NoQuits(kk, q)
  PROVE  /\ Turning(begin_quit(kk), q) /\ ~IsFrozen(begin_quit(kk))
         /\ begin_quit(kk).frozen = kk.frozen /\ begin_quit(kk).quitting
         /\ begin_quit(kk).active = kk.active /\ begin_quit(kk).snapshot = kk.snapshot
         /\ begin_quit(kk).saved = kk.saved
<1> DEFINE bq == begin_quit(kk)
<1>0. kk \in Loop
  BY DEF Turning, Shapes
<1>1. bq \in Loop
  BY <1>0 DEF begin_quit, Loop
<1>2. /\ bq.frozen = kk.frozen /\ bq.freezes = kk.freezes /\ bq.active = kk.active
      /\ bq.snapshot = kk.snapshot /\ bq.answers = kk.answers /\ bq.inbox = kk.inbox
      /\ bq.effects = kk.effects /\ bq.replay = kk.replay /\ bq.quitting
      /\ bq.saved = kk.saved
      /\ bq.over = (kk.over \/ kk.quitting)
  BY <1>0 DEF begin_quit, Loop
<1> HIDE DEF bq
<1>3. ~IsFrozen(bq) /\ ~Ours(bq)
  BY <1>2 DEF IsFrozen, Ours
<1>4. Shapes(bq, q)
  BY <1>1 DEF Turning, Shapes
<1>5. Numbered(bq, q) /\ Frozen(bq, q) /\ Kept(bq, q) /\ EndsFirst(bq, q)
  BY <1>2, <1>3 DEF Turning, Numbered, Frozen, Kept, EndsFirst
<1>6. Runs(bq, q) /\ Upgrades(bq, q)
  BY <1>2 DEF Turning, Runs, Upgrades
<1>7. Granted(bq, q)
  BY <1>2 DEF Turning, Granted, Ours
<1>8. Quits(bq, q)
  <2>1. sent.quits # 0
    OBVIOUS
  <2>2. sent.quits <= 1 => ~kk.quitting /\ (NoQuits(kk, q) <=> NoQuits(bq, q)) /\ NoQuits(kk, q)
    BY <1>2 DEF NoQuits
  <2>3. sent.quits <= 1 => (kk.over => kk.active = {})
    BY DEF Turning, Quits
  <2> QED
    BY <2>1, <2>2, <2>3, <1>2, <1>3 DEF Turning, Quits
<1> QED
  BY <1>2, <1>3, <1>4, <1>5, <1>6, <1>7, <1>8 DEF Turning, bq

\* A freeze that is refused leaves all but the answer to it.
LEMMA Refused ==
  ASSUME NEW kk, NEW q, Turning(kk, q), Around, NEW u \in 1 .. sent.upgrades
  PROVE  LET ref == [kk EXCEPT !.answers[u] = "err"] IN
         /\ Turning(ref, q) /\ (Thawing(kk, q) <=> Thawing(ref, q)) /\ ref.over = kk.over
         /\ ref.saved = kk.saved
<1> DEFINE ans == [kk.answers EXCEPT ![u] = "err"]
           ref == [kk EXCEPT !.answers[u] = "err"]
<1>0. kk \in Loop /\ kk.answers \in [1 .. MaxUpgrades -> {"none", "ok", "err"}]
  BY DEF Turning, Shapes, Loop
<1>1. /\ ans \in [1 .. MaxUpgrades -> {"none", "ok", "err"}]
      /\ \A v \in 1 .. MaxUpgrades : ans[v] = kk.answers[v] \/ (ans[v] = "err" /\ v = u)
  BY <1>0
<1>2. ref = [kk EXCEPT !.answers = ans]
  BY <1>0 DEF Loop
<1> HIDE DEF ans, ref
<1>3. ref \in Loop
  BY <1>0, <1>1, <1>2 DEF Loop
<1>4. /\ ref.frozen = kk.frozen /\ ref.freezes = kk.freezes /\ ref.quitting = kk.quitting
      /\ ref.active = kk.active /\ ref.snapshot = kk.snapshot /\ ref.answers = ans
      /\ ref.inbox = kk.inbox /\ ref.effects = kk.effects /\ ref.replay = kk.replay
      /\ ref.over = kk.over /\ ref.saved = kk.saved
  BY <1>0, <1>2 DEF Loop
<1>5. (IsFrozen(kk) <=> IsFrozen(ref)) /\ (Ours(kk) <=> Ours(ref))
  BY <1>4 DEF IsFrozen, Ours
<1>6. Shapes(ref, q)
  BY <1>3 DEF Turning, Shapes
<1>7. Numbered(ref, q) /\ Runs(ref, q) /\ Kept(ref, q) /\ EndsFirst(ref, q)
  BY <1>4, <1>5 DEF Turning, Numbered, Runs, Kept, EndsFirst
<1>8. Frozen(ref, q) /\ Quits(ref, q)
  BY <1>4, <1>5 DEF Turning, Frozen, InStep, Quits, NoQuits
<1>9. Upgrades(ref, q)
  <2>1. \A v \in 1 .. MaxUpgrades : v > sent.upgrades => ans[v] = "none"
    BY <1>1 DEF Turning, Upgrades, Around
  <2> QED
    BY <2>1, <1>4 DEF Turning, Upgrades
<1>10. Granted(ref, q)
  <2>1. ASSUME upgrade # "none", ans[sent.upgrades] = "ok"
        PROVE  kk.answers[sent.upgrades] = "ok"
    BY <2>1, <1>1 DEF Around
  <2> QED
    BY <2>1, <1>4, <1>5 DEF Turning, Granted
<1>11. Thawing(kk, q) <=> Thawing(ref, q)
  BY <1>4, <1>5 DEF Thawing
<1> QED
  BY <1>4, <1>6, <1>7, <1>8, <1>9, <1>10, <1>11 DEF Turning, ref

\* An answer to the freeze in progress is of a task that is frozen by it, and
\* whose end was reported before, if the freeze is the upgrade's.
LEMMA AnswerTaken ==
  ASSUME NEW kk, NEW q, Turning(kk, q), Around, NEW t \in Task, NEW n \in Nat,
         IsFrozen(kk) /\ n = kk.freezes =>
           mode[t] = kk.freezes /\ (Ours(kk) => ~Holds(q, <<"Stopped", t>>))
  PROVE  LET ans == on_task_frozen(kk, t, n) IN
         /\ Turning(ans, q) /\ (Thawing(kk, q) <=> Thawing(ans, q)) /\ ans.over = kk.over
         /\ ans.saved = kk.saved
<1> DEFINE ans == on_task_frozen(kk, t, n)
           fr == [kk.frozen EXCEPT !.waiting = @ \ {t}]
<1>0. kk \in Loop /\ kk.frozen \in Frost
  BY DEF Turning, Shapes, Loop
<1>1. CASE ~(IsFrozen(kk) /\ kk.frozen.number = n)
  BY <1>1 DEF on_task_frozen
<1>2. CASE IsFrozen(kk) /\ kk.frozen.number = n
  <2>1. /\ fr \in Frost /\ fr.number = kk.frozen.number /\ fr.reply = kk.frozen.reply
        /\ fr.who = kk.frozen.who /\ fr.deferred = kk.frozen.deferred
        /\ fr.waiting = kk.frozen.waiting \ {t}
    BY <1>0 DEF Frost
  <2>2. ans = [kk EXCEPT !.frozen = fr]
    BY <1>2, <1>0 DEF on_task_frozen, Loop
  <2> HIDE DEF fr, ans
  <2>3. ans \in Loop
    BY <1>0, <2>1, <2>2 DEF Loop
  <2>4. /\ ans.frozen = fr /\ ans.freezes = kk.freezes /\ ans.quitting = kk.quitting
        /\ ans.active = kk.active /\ ans.snapshot = kk.snapshot /\ ans.answers = kk.answers
        /\ ans.inbox = kk.inbox /\ ans.effects = kk.effects /\ ans.replay = kk.replay
        /\ ans.over = kk.over /\ ans.saved = kk.saved
    BY <1>0, <2>2 DEF Loop
  <2>5. n = kk.freezes /\ kk.freezes > 0
    BY <1>2 DEF Turning, Numbered
  <2>6. IsFrozen(ans) /\ (Ours(kk) <=> Ours(ans))
    BY <1>2, <2>1, <2>4, <2>5, NoFreezeShape DEF IsFrozen, Ours
  <2>7. mode[t] = kk.freezes /\ (Ours(kk) => ~Holds(q, <<"Stopped", t>>))
    BY <1>2, <2>5
  <2>8. Shapes(ans, q)
    BY <2>3 DEF Turning, Shapes
  <2>9. Numbered(ans, q) /\ Runs(ans, q) /\ Kept(ans, q) /\ Upgrades(ans, q)
    BY <1>2, <2>1, <2>4, <2>6 DEF Turning, Numbered, Runs, Kept, Upgrades
  <2>10. Frozen(ans, q)
    BY <1>2, <2>1, <2>4, <2>6, <2>7 DEF Turning, Frozen, InStep
  <2>11. EndsFirst(ans, q)
    BY <2>1, <2>4, <2>6, <2>7 DEF Turning, EndsFirst
  <2>12. Granted(ans, q)
    BY <2>1, <2>4, <2>6 DEF Turning, Granted
  <2>13. Quits(ans, q)
    BY <1>2, <2>1, <2>4, <2>6 DEF Turning, Quits, NoQuits
  <2>14. Thawing(kk, q) <=> Thawing(ans, q)
    BY <1>2, <2>1, <2>4, <2>6 DEF Thawing
  <2> QED
    BY <2>4, <2>8, <2>9, <2>10, <2>11, <2>12, <2>13, <2>14 DEF Turning, ans
<1> QED
  BY <1>1, <1>2

\* The end of a run is taken: it was no longer one.
LEMMA EndTaken ==
  ASSUME NEW kk, NEW q, Turning(kk, q), Around, q # <<>>, NEW t \in Task,
         Head(q) = <<"Stopped", t>>
  PROVE  LET end == [kk EXCEPT !.active = @ \ {t}] IN
         /\ Turning(end, Tail(q)) /\ (Thawing(kk, q) => Thawing(end, Tail(q)))
         /\ end.over = kk.over /\ end.saved = kk.saved
<1> DEFINE end == [kk EXCEPT !.active = @ \ {t}]
           r == Tail(q)
<1>0. q \in Seq(Message) /\ kk \in Loop
  BY DEF Turning, Shapes
<1>1. /\ r \in Seq(Message) /\ Head(q) = q[1]
      /\ Len(r) = Len(q) - 1 /\ Len(q) \in Nat /\ Len(q) > 0
      /\ \A i \in 1 .. Len(r) : r[i] = q[i + 1] /\ i + 1 \in 1 .. Len(q)
  BY <1>0, TailFacts
<1>2. /\ \A m : Holds(r, m) => Holds(q, m)
      /\ \A m : Holds(q, m) /\ Head(q) # m => Holds(r, m)
      /\ \A kind : HasKind(r, kind) => HasKind(q, kind)
      /\ OneQuit(q) => OneQuit(r)
  BY <1>0, TailHas
<1>3. end \in Loop
  BY <1>0 DEF Loop
<1>4. /\ end.frozen = kk.frozen /\ end.freezes = kk.freezes /\ end.quitting = kk.quitting
      /\ end.active = kk.active \ {t} /\ end.snapshot = kk.snapshot
      /\ end.answers = kk.answers /\ end.inbox = kk.inbox /\ end.effects = kk.effects
      /\ end.replay = kk.replay /\ end.over = kk.over /\ end.saved = kk.saved
  BY <1>0 DEF Loop
<1> HIDE DEF end, r
<1>5. (IsFrozen(kk) <=> IsFrozen(end)) /\ (Ours(kk) <=> Ours(end))
  BY <1>4 DEF IsFrozen, Ours
<1>6. Holds(q, <<"Stopped", t>>) /\ t \notin alive
  BY <1>1 DEF Holds, Turning, Runs
<1>7. Shapes(end, r)
  BY <1>1, <1>3 DEF Shapes
<1>8. Numbered(end, r)
  BY <1>1, <1>4, <1>5 DEF Turning, Numbered
<1>9. Frozen(end, r)
  BY <1>2, <1>4, <1>5 DEF Turning, Frozen, InStep
<1>10. Runs(end, r)
  <2>1. ASSUME NEW u \in end.active \ alive
        PROVE  Holds(r, <<"Stopped", u>>)
    <3>1. Holds(q, <<"Stopped", u>>) /\ Head(q) # <<"Stopped", u>>
      BY <2>1, <1>4 DEF Turning, Runs
    <3> QED
      BY <3>1, <1>2
  <2> QED
    BY <2>1, <1>2, <1>4, <1>6 DEF Turning, Runs
<1>11. Upgrades(end, r)
  BY <1>1, <1>4 DEF Turning, Upgrades
<1>12. Kept(end, r)
  <2>1. ASSUME upgrade # "none", NEW i \in 1 .. Len(r), NEW j \in 1 .. Len(r),
               i < j, r[i] = <<"Freeze", sent.upgrades>>
        PROVE  r[j][1] \notin {"Thaw", "Freeze"}
    <3>1. i + 1 < j + 1
      BY <2>1
    <3> QED
      BY <3>1, <2>1, <1>1 DEF Turning, Kept
  <2> QED
    BY <2>1, <1>2, <1>5 DEF Turning, Kept
<1>13. EndsFirst(end, r)
  <2> SUFFICES ASSUME Ours(end), NEW u \in Task
               PROVE  /\ u \notin end.frozen.waiting => ~Holds(r, <<"Stopped", u>>)
                      /\ \A i, j \in 1 .. Len(r) :
                           i < j /\ r[i] = <<"Frozen", u, end.freezes>> => r[j] # <<"Stopped", u>>
    BY DEF EndsFirst
  <2>1. ASSUME NEW i \in 1 .. Len(r), NEW j \in 1 .. Len(r),
               i < j, r[i] = <<"Frozen", u, end.freezes>>
        PROVE  r[j] # <<"Stopped", u>>
    <3>1. i + 1 < j + 1
      BY <2>1
    <3> QED
      BY <3>1, <2>1, <1>1, <1>4, <1>5 DEF Turning, EndsFirst
  <2> QED
    BY <2>1, <1>2, <1>4, <1>5 DEF Turning, EndsFirst
<1>14. Granted(end, r)
  <2>1. ~(upgrade # "none" /\ kk.answers[sent.upgrades] = "ok")
    BY <1>6 DEF Turning, Granted, EndsFirst
  <2> QED
    BY <2>1, <1>4 DEF Granted
<1>15. Followed(r)
  <2> SUFFICES ASSUME upgrade = "none", NEW i \in 1 .. Len(r), r[i][1] = "Freeze"
               PROVE  \E j \in i + 1 .. Len(r) : r[j] = <<"Thaw">>
    BY DEF Followed
  <2>1. PICK j \in (i + 1) + 1 .. Len(q) : q[j] = <<"Thaw">>
    BY <1>1 DEF Turning, Followed
  <2>2. j - 1 \in i + 1 .. Len(r) /\ j - 1 \in 1 .. Len(r) /\ (j - 1) + 1 = j
    BY <1>1
  <2>3. r[j - 1] = <<"Thaw">>
    BY <2>1, <2>2, <1>1
  <2> QED
    BY <2>2, <2>3
<1>16. Quits(end, r)
  BY <1>2, <1>4, <1>5 DEF Turning, Quits, NoQuits
<1>17. Thawing(kk, q) => Thawing(end, r)
  <2>1. Head(q) # <<"Thaw">>
    OBVIOUS
  <2> QED
    BY <2>1, <1>2, <1>4, <1>5 DEF Thawing
<1> QED
  BY <1>4, <1>7, <1>8, <1>9, <1>10, <1>11, <1>12, <1>13, <1>14, <1>15, <1>16, <1>17
     DEF Turning, end, r

\* An intent, or a quit, that a frozen kernel puts off.
LEMMA PutOff ==
  ASSUME NEW kk, NEW q, Turning(kk, q), Around, IsFrozen(kk), NEW msg \in Deferrable,
         msg[1] = "Quit" =>
           /\ sent.quits > 0
           /\ sent.quits <= 1 => NoQuits(kk, q) /\ kk.frozen.reply # "Quit"
  PROVE  LET off == [kk EXCEPT !.frozen.deferred = Append(@, msg)] IN
         /\ Turning(off, q) /\ (Thawing(kk, q) <=> Thawing(off, q)) /\ IsFrozen(off)
         /\ off.over = kk.over /\ off.saved = kk.saved
<1> DEFINE off == [kk EXCEPT !.frozen.deferred = Append(@, msg)]
           d == Append(kk.frozen.deferred, msg)
           fr == [kk.frozen EXCEPT !.deferred = d]
<1>0. kk \in Loop /\ kk.frozen \in Frost /\ kk.frozen.deferred \in Seq(Deferrable)
  BY DEF Turning, Shapes, Loop, Frost
<1>1. /\ d \in Seq(Deferrable)
      /\ HasKind(d, "Quit") <=> HasKind(kk.frozen.deferred, "Quit") \/ msg[1] = "Quit"
      /\ OneQuit(kk.frozen.deferred)
           /\ (msg[1] # "Quit" \/ ~HasKind(kk.frozen.deferred, "Quit")) => OneQuit(d)
  <2>1. d \in Seq(Deferrable)
    BY <1>0
  <2> QED
    BY <2>1, <1>0, AppendHas
<1> HIDE DEF d
<1>2. /\ fr \in Frost /\ fr.number = kk.frozen.number /\ fr.reply = kk.frozen.reply
      /\ fr.who = kk.frozen.who /\ fr.waiting = kk.frozen.waiting /\ fr.deferred = d
  BY <1>0, <1>1 DEF Frost
<1>3. off = [kk EXCEPT !.frozen = fr]
  BY <1>0 DEF Loop, d
<1> HIDE DEF fr, off
<1>4. off \in Loop
  BY <1>0, <1>2, <1>3 DEF Loop
<1>5. /\ off.frozen = fr /\ off.freezes = kk.freezes /\ off.quitting = kk.quitting
      /\ off.active = kk.active /\ off.snapshot = kk.snapshot /\ off.answers = kk.answers
      /\ off.inbox = kk.inbox /\ off.effects = kk.effects /\ off.replay = kk.replay
      /\ off.over = kk.over /\ off.saved = kk.saved
  BY <1>0, <1>3 DEF Loop
<1>6. kk.frozen.number = kk.freezes /\ kk.freezes > 0
  BY DEF Turning, Numbered
<1>7. IsFrozen(off) /\ (Ours(kk) <=> Ours(off))
  BY <1>2, <1>5, <1>6, NoFreezeShape DEF IsFrozen, Ours
<1>8. Shapes(off, q)
  BY <1>4 DEF Turning, Shapes
<1>9. Numbered(off, q) /\ Runs(off, q) /\ Kept(off, q) /\ Upgrades(off, q)
  BY <1>2, <1>5, <1>7 DEF Turning, Numbered, Runs, Kept, Upgrades
<1>10. Frozen(off, q) /\ EndsFirst(off, q) /\ Granted(off, q)
  BY <1>2, <1>5, <1>7 DEF Turning, Frozen, InStep, EndsFirst, Granted
<1>11. Quits(off, q)
  <2>1. sent.quits \in Nat
    BY DEF Around
  <2>2. ~kk.quitting
    BY DEF Turning, Frozen
  <2> QED
    BY <2>1, <2>2, <1>1, <1>2, <1>5, <1>7 DEF Turning, Quits, NoQuits
<1>12. Thawing(kk, q) <=> Thawing(off, q)
  BY <1>2, <1>5, <1>7 DEF Thawing
<1> QED
  BY <1>5, <1>7, <1>8, <1>9, <1>10, <1>11, <1>12 DEF Turning, off

\* Settling takes from the active tasks none that is alive.
LEMMA SettledDown ==
  ASSUME NEW kk, NEW q, Turning(kk, q), Thawing(kk, q), Around
  PROVE  /\ Turning(after_dispatch(kk), q) /\ Thawing(after_dispatch(kk), q)
         /\ after_dispatch(kk).over = kk.over /\ after_dispatch(kk).saved = kk.saved
         /\ after_dispatch(kk).snapshot = kk.snapshot
<1> DEFINE ad == after_dispatch(kk)
           gone == kk.effects \cup (IF kk.quitting THEN dead ELSE {})
<1>0. kk \in Loop
  BY DEF Turning, Shapes
<1>1. CASE IsFrozen(kk)
  BY <1>1 DEF after_dispatch
<1>2. CASE ~IsFrozen(kk)
  <2>1. gone \subseteq dead
    BY DEF Turning, Numbered
  <2>2. ad = [kk EXCEPT !.active = @ \ gone, !.effects = {}]
    BY <1>2 DEF after_dispatch
  <2> HIDE DEF gone, ad
  <2>3. ad \in Loop
    BY <1>0, <2>2 DEF Loop
  <2>4. /\ ad.frozen = kk.frozen /\ ad.freezes = kk.freezes /\ ad.quitting = kk.quitting
        /\ ad.active = kk.active \ gone /\ ad.snapshot = kk.snapshot
        /\ ad.answers = kk.answers /\ ad.inbox = kk.inbox /\ ad.effects = {}
        /\ ad.replay = kk.replay /\ ad.over = kk.over /\ ad.saved = kk.saved
    BY <1>0, <2>2 DEF Loop
  <2>5. ~IsFrozen(ad) /\ ~Ours(ad)
    BY <1>2, <2>4 DEF IsFrozen, Ours
  <2>6. Shapes(ad, q)
    BY <2>3 DEF Turning, Shapes
  <2>7. Numbered(ad, q) /\ Frozen(ad, q) /\ Upgrades(ad, q) /\ Kept(ad, q) /\ EndsFirst(ad, q)
    BY <2>4, <2>5 DEF Turning, Numbered, Frozen, Upgrades, Kept, EndsFirst
  <2>8. Runs(ad, q)
    BY <2>1, <2>4 DEF Turning, Runs, Around
  <2>9. Granted(ad, q)
    BY <1>2, <2>4 DEF Turning, Granted, Ours
  <2>10. Quits(ad, q)
    BY <2>4, <2>5 DEF Turning, Quits, NoQuits
  <2>11. Thawing(ad, q)
    BY <2>5 DEF Thawing
  <2> QED
    BY <2>4, <2>6, <2>7, <2>8, <2>9, <2>10, <2>11 DEF Turning, ad
<1> QED
  BY <1>1, <1>2

\* A complete freeze is answered with what the tasks are; one for a quit goes on
\* to quit.
LEMMA Finished ==
  ASSUME NEW kk, NEW q, NEW saveOk \in BOOLEAN, Turning(kk, q), Thawing(kk, q), Around
  PROVE  LET fin == finish_freeze(kk, saveOk) IN
         /\ Turning(fin, q) /\ Thawing(fin, q)
         /\ fin.saved /\ ~kk.saved =>
              /\ IsFrozen(kk) /\ kk.frozen.waiting = {} /\ fin.snapshot = kk.active
<1> DEFINE fin == finish_freeze(kk, saveOk)
           fr == [kk.frozen EXCEPT !.reply = "none"]
           done == [kk EXCEPT !.frozen.reply = "none", !.snapshot = kk.active]
           kept == [done EXCEPT !.saved = saveOk]
           u == kk.frozen.who
           ans == [kk.answers EXCEPT ![u] = "ok"]
           granted == [done EXCEPT !.answers[kk.frozen.who] = "ok"]
<1>0. kk \in Loop /\ q \in Seq(Message) /\ kk.frozen \in Frost
      /\ kk.answers \in [1 .. MaxUpgrades -> {"none", "ok", "err"}]
  BY DEF Turning, Shapes, Loop
<1>1. CASE ~IsFrozen(kk) \/ kk.frozen.waiting # {} \/ kk.frozen.reply = "none"
  <2>1. fin = kk
    BY <1>1 DEF finish_freeze
  <2> QED
    BY <2>1
<1>2. CASE IsFrozen(kk) /\ kk.frozen.waiting = {} /\ kk.frozen.reply # "none"
  <2>1. /\ fr \in Frost /\ fr.number = kk.frozen.number /\ fr.reply = "none"
        /\ fr.who = u /\ fr.waiting = {} /\ fr.deferred = kk.frozen.deferred
    BY <1>0, <1>2 DEF Frost
  <2>2. done = [kk EXCEPT !.frozen = fr, !.snapshot = kk.active]
    BY <1>0 DEF Loop
  <2> HIDE DEF done, fr
  <2>3. /\ done \in Loop
        /\ done.frozen = fr /\ done.freezes = kk.freezes /\ done.quitting = kk.quitting
        /\ done.active = kk.active /\ done.snapshot = kk.active /\ done.answers = kk.answers
        /\ done.inbox = kk.inbox /\ done.effects = kk.effects /\ done.replay = kk.replay
        /\ done.over = kk.over /\ done.saved = kk.saved
    BY <1>0, <2>1, <2>2 DEF Loop
  <2>4. kk.frozen.number = kk.freezes /\ kk.freezes > 0
    BY <1>2 DEF Turning, Numbered
  <2>5. IsFrozen(done) /\ (Ours(kk) <=> Ours(done))
    BY <1>2, <2>1, <2>3, <2>4, NoFreezeShape DEF IsFrozen, Ours
  <2>6. Numbered(done, q) /\ Runs(done, q) /\ Kept(done, q) /\ Upgrades(done, q)
    BY <1>2, <2>1, <2>3, <2>5 DEF Turning, Numbered, Runs, Kept, Upgrades
  <2>7. Frozen(done, q) /\ EndsFirst(done, q)
    BY <1>2, <2>1, <2>3, <2>5 DEF Turning, Frozen, InStep, EndsFirst
  <2>8. ~(upgrade # "none" /\ kk.answers[sent.upgrades] = "ok")
    BY <1>2 DEF Turning, Granted
  <2>9. Quits(done, q)
    BY <1>2, <2>1, <2>3, <2>5 DEF Turning, Quits, NoQuits
  <2>10. Turning(done, q) /\ (Thawing(kk, q) <=> Thawing(done, q))
    <3>1. Granted(done, q)
      BY <2>3, <2>8 DEF Granted
    <3>2. Shapes(done, q)
      BY <1>0, <2>3 DEF Shapes
    <3>3. Thawing(kk, q) <=> Thawing(done, q)
      BY <1>2, <2>1, <2>3, <2>5 DEF Thawing
    <3> QED
      BY <2>6, <2>7, <2>9, <3>1, <3>2, <3>3 DEF Turning
  <2>11. CASE kk.frozen.reply = "Quit"
    <3>1. fin = begin_quit(thaw(kept))
      BY <1>2, <2>11 DEF finish_freeze, done
    <3>2. /\ kept \in Loop /\ kept.frozen = done.frozen /\ kept.freezes = done.freezes
          /\ kept.quitting = done.quitting /\ kept.active = done.active
          /\ kept.snapshot = done.snapshot /\ kept.answers = done.answers
          /\ kept.inbox = done.inbox /\ kept.effects = done.effects
          /\ kept.replay = done.replay /\ kept.over = done.over
      BY <2>3 DEF Loop
    <3> HIDE DEF kept, fin
    <3>3. Turning(kept, q) /\ IsFrozen(kept)
      BY <3>2, <2>5, <2>10, Alike
    <3>4. ~Ours(kept)
      BY <2>11, <2>1, <2>3, <3>2 DEF Ours, Around, Turning, Upgrades
    <3>5. ~kept.quitting
      BY <1>2, <2>3, <3>2 DEF Turning, Frozen
    <3>6. sent.quits > 0 /\ (sent.quits <= 1 => NoQuits(kept, q))
      <4>1. kk.frozen.who = 0 /\ sent.quits # 0 /\ sent.quits \in Nat
        BY <1>2, <2>11 DEF Turning, Quits, Upgrades, Around
      <4> QED
        BY <4>1, <2>11, <2>1, <2>3, <3>2 DEF Turning, Quits, NoQuits
    <3>7. /\ Turning(thaw(kept), q) /\ ~IsFrozen(thaw(kept))
          /\ thaw(kept).quitting = kept.quitting /\ thaw(kept).snapshot = kept.snapshot
          /\ NoQuits(kept, q) => NoQuits(thaw(kept), q)
      BY <3>3, <3>4, Thawed
    <3>8. /\ Turning(fin, q) /\ ~IsFrozen(fin) /\ fin.snapshot = thaw(kept).snapshot
      BY <3>1, <3>5, <3>6, <3>7, QuitBegun
    <3>9. fin.snapshot = kk.active
      BY <3>8, <3>7, <3>2, <2>3
    <3> QED
      BY <1>2, <3>8, <3>9 DEF Thawing, fin
  <2>12. CASE kk.frozen.reply = "Rpc"
    <3>1. fin = granted
      BY <1>2, <2>12 DEF finish_freeze, done, granted
    <3>2. u \in 1 .. MaxUpgrades /\ u \in 1 .. sent.upgrades
      <4>1. u \in 0 .. sent.upgrades /\ u > 0
        BY <2>12 DEF Turning, Upgrades
      <4>2. sent.upgrades \in 0 .. MaxUpgrades /\ MaxUpgrades \in Nat
        BY FreezeAssumption DEF Around
      <4> QED
        BY <4>1, <4>2
    <3>3. /\ ans \in [1 .. MaxUpgrades -> {"none", "ok", "err"}]
          /\ \A v \in 1 .. MaxUpgrades : ans[v] = IF v = u THEN "ok" ELSE kk.answers[v]
      BY <1>0, <3>2
    <3>4. fin = [done EXCEPT !.answers = ans]
      BY <3>1, <2>3 DEF Loop
    <3> HIDE DEF ans, fin
    <3>5. /\ fin \in Loop /\ fin.frozen = done.frozen /\ fin.freezes = done.freezes
          /\ fin.quitting = done.quitting /\ fin.active = done.active
          /\ fin.snapshot = done.snapshot /\ fin.answers = ans
          /\ fin.inbox = done.inbox /\ fin.effects = done.effects
          /\ fin.replay = done.replay /\ fin.over = done.over /\ fin.saved = done.saved
      BY <2>3, <3>3, <3>4 DEF Loop
    <3>6. (IsFrozen(done) <=> IsFrozen(fin)) /\ (Ours(done) <=> Ours(fin))
      BY <3>5 DEF IsFrozen, Ours
    <3>7. Numbered(fin, q) /\ Runs(fin, q) /\ Kept(fin, q) /\ EndsFirst(fin, q)
      BY <2>6, <2>7, <3>5, <3>6 DEF Numbered, Runs, Kept, EndsFirst
    <3>8. Frozen(fin, q) /\ Quits(fin, q)
      BY <2>7, <2>9, <3>5, <3>6 DEF Frozen, InStep, Quits, NoQuits
    <3>9. Upgrades(fin, q)
      <4>1. \A v \in 1 .. MaxUpgrades : v > sent.upgrades => ans[v] = "none"
        BY <3>2, <3>3 DEF Turning, Upgrades, Around
      <4> QED
        BY <4>1, <2>6, <3>5 DEF Upgrades
    <3>10. Granted(fin, q)
      <4> SUFFICES ASSUME upgrade # "none", ans[sent.upgrades] = "ok"
                   PROVE  /\ Ours(fin) /\ fin.frozen.reply = "none" /\ fin.frozen.waiting = {}
                          /\ fin.snapshot = alive /\ fin.active = alive
        BY <3>5 DEF Granted
      <4>1. sent.upgrades \in 1 .. MaxUpgrades
        BY DEF Around
      <4>2. sent.upgrades = u
        BY <4>1, <2>8, <3>3
      <4>3. Ours(kk) /\ ~kk.quitting
        BY <1>2, <4>2 DEF Ours, Turning, Frozen
      <4>4. \A t \in Task : ~Holds(q, <<"Stopped", t>>)
        BY <1>2, <4>3 DEF Turning, EndsFirst
      <4>5. kk.active \subseteq Task
        BY <1>0 DEF Loop
      <4>6. kk.active = alive
        BY <4>3, <4>4, <4>5 DEF Turning, Runs
      <4> QED
        BY <4>3, <4>6, <2>1, <2>3, <2>5, <3>5, <3>6
    <3>11. Thawing(fin, q)
      BY <2>10, <3>5, <3>6 DEF Thawing
    <3>12. Shapes(fin, q)
      BY <1>0, <3>5 DEF Shapes
    <3> QED
      BY <1>2, <2>3, <2>10, <3>5, <3>7, <3>8, <3>9, <3>10, <3>11, <3>12 DEF Turning, fin
  <2> QED
    BY <1>0, <1>2, <2>11, <2>12 DEF Frost
<1> QED
  BY <1>1, <1>2

\* What a handler does before the freeze is looked at: it saves nothing, takes
\* back no quit, and completes no freeze that it began.
Near(kk, h) ==
  /\ h.saved = kk.saved
  /\ kk.quitting => h.quitting
  /\ IsFrozen(h) /\ h.frozen.waiting = {} /\ Task # {} => h.frozen.number = kk.frozen.number

\* A save is of a complete freeze, and of what the tasks are.
Saving(kk, h, q) ==
  h.saved /\ ~kk.saved =>
    /\ ~kk.quitting
    /\ \A t \in Task : mode[t] = kk.frozen.number
    /\ alive \subseteq h.snapshot
    /\ \A t \in h.snapshot \ alive : Holds(q, <<"Stopped", t>>)

\* The end of a turn's handler: the freeze is looked at, unless the loop ended.
LEMMA LookedAt ==
  ASSUME NEW kk, NEW h, NEW q, NEW saveOk \in BOOLEAN, Turning(h, q), Thawing(h, q), Around,
         Near(kk, h), NEW d, d = IF h.over THEN h ELSE finish_freeze(h, saveOk)
  PROVE  Turning(d, q) /\ Thawing(d, q) /\ Saving(kk, d, q)
<1>1. CASE h.over
  BY <1>1 DEF Near, Saving
<1>2. CASE ~h.over
  <2> DEFINE fin == finish_freeze(h, saveOk)
  <2>1. /\ Turning(fin, q) /\ Thawing(fin, q)
        /\ fin.saved /\ ~h.saved =>
             /\ IsFrozen(h) /\ h.frozen.waiting = {} /\ fin.snapshot = h.active
    BY Finished
  <2> HIDE DEF fin
  <2>2. ASSUME fin.saved, ~kk.saved
        PROVE  /\ ~kk.quitting
               /\ \A t \in Task : mode[t] = kk.frozen.number
               /\ alive \subseteq fin.snapshot
               /\ \A t \in fin.snapshot \ alive : Holds(q, <<"Stopped", t>>)
    <3>1. IsFrozen(h) /\ h.frozen.waiting = {} /\ fin.snapshot = h.active
      BY <2>1, <2>2 DEF Near
    <3>2. /\ ~h.quitting /\ \A t \in Task : mode[t] = h.frozen.number
      BY <3>1 DEF Turning, Frozen, Numbered
    <3>3. alive \subseteq h.active /\ \A t \in h.active \ alive : Holds(q, <<"Stopped", t>>)
      BY <3>2 DEF Turning, Runs
    <3>4. ~kk.quitting
      BY <3>2 DEF Near
    <3>5. Task # {} => h.frozen.number = kk.frozen.number
      BY <3>1 DEF Near
    <3> QED
      BY <3>1, <3>2, <3>3, <3>4, <3>5
  <2> QED
    BY <1>2, <2>1, <2>2 DEF Saving, fin
<1> QED
  BY <1>1, <1>2

\* A quit that is let through: the kernel is not frozen, or for a quit already.
LEMMA QuitHandled ==
  ASSUME NEW kk, NEW q, NEW save \in BOOLEAN, Turning(kk, q), Thawing(kk, q), Around,
         sent.quits > 0, sent.quits <= 1 => ~kk.quitting /\ NoQuits(kk, q),
         ~IsFrozen(kk) \/ (freezing_for_quit(kk) /\ ~save)
  PROVE  LET h == quit(kk, save) IN Turning(h, q) /\ Thawing(h, q) /\ Near(kk, h)
<1> DEFINE h == quit(kk, save)
<1>0. kk \in Loop
  BY DEF Turning, Shapes
<1>1. CASE save /\ HasSave /\ ~kk.quitting
  <2> DEFINE b == BeginFreezeFor(kk, "Quit", 0)
  <2>1. ~IsFrozen(kk)
    BY <1>1
  <2>2. upgrade # "none" => sent.upgrades # 0
    BY DEF Around
  <2>3. /\ Turning(b, q) /\ IsFrozen(b) /\ b.over = kk.over /\ b.frozen.who = 0
        /\ b.frozen.waiting = Task /\ b.active = kk.active /\ b.saved = kk.saved
        /\ b.quitting = kk.quitting
    BY <1>1, <2>1, <2>2, Begun
  <2>4. h = [b EXCEPT !.timers = @ \cup {b.freezes}]
    BY <1>1 DEF quit
  <2> HIDE DEF b, h
  <2>5. b \in Loop
    BY <2>3 DEF Turning, Shapes
  <2>6. h \in Loop
    BY <2>4, <2>5 DEF Loop
  <2>7. /\ h.frozen = b.frozen /\ h.freezes = b.freezes /\ h.quitting = b.quitting
        /\ h.active = b.active /\ h.snapshot = b.snapshot /\ h.answers = b.answers
        /\ h.inbox = b.inbox /\ h.effects = b.effects /\ h.replay = b.replay
        /\ h.over = b.over /\ h.saved = b.saved
    BY <2>4, <2>5 DEF Loop
  <2>8. Turning(h, q)
    BY <2>3, <2>6, <2>7, Alike
  <2> QED
    BY <2>3, <2>7, <2>8 DEF Thawing, Near, h
<1>2. CASE ~(save /\ HasSave /\ ~kk.quitting)
  <2> DEFINE th == IF freezing_for_quit(kk) THEN thaw(kk) ELSE kk
  <2>1. h = begin_quit(th)
    BY <1>2 DEF quit
  <2>2. /\ Turning(th, q) /\ ~IsFrozen(th) /\ th.quitting = kk.quitting /\ th.saved = kk.saved
        /\ NoQuits(kk, q) => NoQuits(th, q)
    <3>1. CASE freezing_for_quit(kk)
      <4>1. ~Ours(kk)
        BY <3>1 DEF Ours, freezing_for_quit, Turning, Upgrades, Around
      <4> QED
        BY <3>1, <4>1, Thawed
    <3>2. CASE ~freezing_for_quit(kk)
      BY <3>2
    <3> QED
      BY <3>1, <3>2
  <2> HIDE DEF th, h
  <2>3. /\ Turning(h, q) /\ ~IsFrozen(h) /\ h.quitting /\ h.saved = th.saved
    BY <2>1, <2>2, QuitBegun
  <2> QED
    BY <2>2, <2>3 DEF Thawing, Near, h
<1> QED
  BY <1>1, <1>2

\* The save gave up waiting; or the timer is of a save that is over.
LEMMA TimeoutHandled ==
  ASSUME NEW kk, NEW q, NEW n, Turning(kk, q), Thawing(kk, q), Around
  PROVE  LET h == on_freeze_timeout(kk, n) IN Turning(h, q) /\ Thawing(h, q) /\ Near(kk, h)
<1> DEFINE h == on_freeze_timeout(kk, n)
<1>1. CASE freezing_for_quit(kk) /\ kk.frozen.number = n
  <2>1. IsFrozen(kk) /\ ~kk.quitting
    BY <1>1, NoFreezeShape DEF freezing_for_quit, IsFrozen, Turning, Frozen
  <2>2. ~Ours(kk)
    BY <1>1 DEF Ours, freezing_for_quit, Turning, Upgrades, Around
  <2>3. sent.quits > 0 /\ (sent.quits <= 1 => NoQuits(kk, q))
    <3>1. kk.frozen.who = 0 /\ sent.quits # 0 /\ sent.quits \in Nat
      BY <1>1, <2>1 DEF freezing_for_quit, Turning, Quits, Upgrades, Around
    <3> QED
      BY <1>1, <3>1 DEF freezing_for_quit, Turning, Quits
  <2>4. /\ Turning(thaw(kk), q) /\ ~IsFrozen(thaw(kk)) /\ thaw(kk).quitting = kk.quitting
        /\ thaw(kk).saved = kk.saved /\ (NoQuits(kk, q) => NoQuits(thaw(kk), q))
    BY <2>2, Thawed
  <2>5. h = begin_quit(thaw(kk))
    BY <1>1 DEF on_freeze_timeout
  <2> HIDE DEF h
  <2>6. /\ Turning(h, q) /\ ~IsFrozen(h) /\ h.quitting /\ h.saved = thaw(kk).saved
    BY <2>1, <2>3, <2>4, <2>5, QuitBegun
  <2> QED
    BY <2>4, <2>6 DEF Thawing, Near, h
<1>2. CASE ~(freezing_for_quit(kk) /\ kk.frozen.number = n)
  <2>1. h = kk
    BY <1>2 DEF on_freeze_timeout
  <2> QED
    BY <2>1 DEF Near
<1> QED
  BY <1>1, <1>2

\* The freeze an upgrade asked for: of the upgrade under way, with no thaw behind
\* it, or of one that gave up, with its thaw behind it.
LEMMA FreezeHandled ==
  ASSUME NEW kk, NEW q, NEW u \in 1 .. sent.upgrades, Turning(kk, q), Thawing(kk, q), Around,
         upgrade # "none" /\ u = sent.upgrades => ~HasKind(q, "Thaw") /\ ~HasKind(q, "Freeze"),
         upgrade = "none" => Holds(q, <<"Thaw">>)
  PROVE  LET h == begin_freeze(kk, u) IN Turning(h, q) /\ Thawing(h, q) /\ Near(kk, h)
<1> DEFINE h == begin_freeze(kk, u)
<1>1. CASE IsFrozen(kk) \/ kk.quitting
  <2> DEFINE ref == [kk EXCEPT !.answers[u] = "err"]
  <2>1. h = ref
    BY <1>1 DEF begin_freeze
  <2>2. /\ Turning(ref, q) /\ (Thawing(kk, q) <=> Thawing(ref, q)) /\ ref.saved = kk.saved
    BY Refused
  <2>3. ref.quitting = kk.quitting /\ ref.frozen = kk.frozen
    BY DEF Turning, Shapes, Loop
  <2> QED
    BY <2>1, <2>2, <2>3 DEF Near, IsFrozen
<1>2. CASE ~IsFrozen(kk) /\ ~kk.quitting
  <2>1. h = BeginFreezeFor(kk, "Rpc", u)
    BY <1>2 DEF begin_freeze
  <2> HIDE DEF h
  <2>2. /\ Turning(h, q) /\ IsFrozen(h) /\ h.frozen.who = u /\ h.frozen.waiting = Task
        /\ h.saved = kk.saved /\ h.quitting = kk.quitting
    BY <1>2, <2>1, Begun
  <2> QED
    BY <2>2 DEF Thawing, Near, h
<1> QED
  BY <1>1, <1>2

\* What dispatch_now makes of the kernel, before it looks at the freeze.
Handle(kk, msg) ==
  CASE msg[1] = "Quit"          -> quit(kk, msg[2])
    [] msg[1] = "Intent"        -> [kk EXCEPT !.applied = Append(@, msg[2])]
    [] msg[1] = "Stopped"       -> [kk EXCEPT !.active = @ \ {msg[2]}]
    [] msg[1] = "Freeze"        -> begin_freeze(kk, msg[2])
    [] msg[1] = "Frozen"        -> on_task_frozen(kk, msg[2], msg[3])
    [] msg[1] = "FreezeTimeout" -> on_freeze_timeout(kk, msg[2])
    [] msg[1] = "Thaw"          -> thaw(kk)

\* dispatch_now handles, and looks at the freeze.
LEMMA DispatchesNow ==
  ASSUME NEW kk, NEW msg, NEW saveOk
  PROVE  dispatch_now(kk, msg, saveOk) =
           IF Handle(kk, msg).over THEN Handle(kk, msg)
           ELSE finish_freeze(Handle(kk, msg), saveOk)
BY DEF dispatch_now, Handle

\* An intent or a quit, already taken from where it was.
LEMMA IntentDispatched ==
  ASSUME NEW kk, NEW q, NEW msg \in Deferrable, NEW saveOk \in BOOLEAN,
         Turning(kk, q), Thawing(kk, q), Around,
         msg[1] = "Quit" =>
           /\ sent.quits > 0
           /\ sent.quits <= 1 => NoQuits(kk, q) /\ ~kk.quitting /\ kk.frozen.reply # "Quit"
  PROVE  LET d == dispatch(kk, msg, saveOk) IN
         Turning(d, q) /\ Thawing(d, q) /\ Saving(kk, d, q)
<1> DEFINE d == dispatch(kk, msg, saveOk)
           h == Handle(kk, msg)
<1>0. kk \in Loop
  BY DEF Turning, Shapes
<1>1. \/ msg[1] = "Quit" /\ msg[2] \in BOOLEAN
      \/ msg[1] = "Intent" /\ msg[2] \in Nat
  BY DEF Deferrable
<1>2. ASSUME Turning(h, q), Thawing(h, q), Near(kk, h), d = dispatch_now(kk, msg, saveOk)
      PROVE  Turning(d, q) /\ Thawing(d, q) /\ Saving(kk, d, q)
  <2>1. d = IF h.over THEN h ELSE finish_freeze(h, saveOk)
    BY <1>2, DispatchesNow
  <2> HIDE DEF d, h
  <2> QED
    BY <1>2, <2>1, LookedAt
<1>3. CASE msg[1] = "Intent" /\ ~IsFrozen(kk)
  <2> DEFINE ap == Append(kk.applied, msg[2])
  <2>1. ap \in Seq(Nat)
    BY <1>0, <1>1, <1>3 DEF Loop
  <2>2. h = [kk EXCEPT !.applied = ap]
    BY <1>3 DEF Handle
  <2>3. d = dispatch_now(kk, msg, saveOk)
    BY <1>3 DEF dispatch
  <2> HIDE DEF ap, h, d
  <2>4. h \in Loop
    BY <1>0, <2>1, <2>2 DEF Loop
  <2>5. /\ h.frozen = kk.frozen /\ h.freezes = kk.freezes /\ h.quitting = kk.quitting
        /\ h.active = kk.active /\ h.snapshot = kk.snapshot /\ h.answers = kk.answers
        /\ h.inbox = kk.inbox /\ h.effects = kk.effects /\ h.replay = kk.replay
        /\ h.over = kk.over /\ h.saved = kk.saved
    BY <1>0, <2>2 DEF Loop
  <2>6. Turning(h, q) /\ Thawing(h, q)
    BY <2>4, <2>5, Alike
  <2>7. Near(kk, h)
    BY <2>5 DEF Near
  <2> QED
    BY <2>3, <2>6, <2>7, <1>2 DEF d
<1>4. CASE msg[1] = "Quit" /\ (~IsFrozen(kk) \/ (freezing_for_quit(kk) /\ ~msg[2]))
  <2>1. h = quit(kk, msg[2])
    BY <1>4 DEF Handle
  <2>2. d = dispatch_now(kk, msg, saveOk)
    BY <1>4 DEF dispatch
  <2>3. Turning(h, q) /\ Thawing(h, q) /\ Near(kk, h)
    BY <1>1, <1>4, <2>1, QuitHandled
  <2> QED
    BY <2>2, <2>3, <1>2
<1>5. CASE msg[1] = "Quit" /\ IsFrozen(kk) /\ freezing_for_quit(kk) /\ msg[2]
  <2>1. d = kk
    BY <1>5 DEF dispatch
  <2> QED
    BY <2>1 DEF Saving
<1>6. CASE IsFrozen(kk) /\ (msg[1] = "Intent" \/ ~freezing_for_quit(kk))
  <2> DEFINE off == [kk EXCEPT !.frozen.deferred = Append(@, msg)]
  <2>1. d = off
    BY <1>1, <1>6 DEF dispatch
  <2>2. Turning(off, q) /\ (Thawing(kk, q) <=> Thawing(off, q)) /\ off.saved = kk.saved
    BY <1>1, <1>6, PutOff DEF freezing_for_quit
  <2> QED
    BY <2>1, <2>2 DEF Saving
<1> QED
  BY <1>1, <1>3, <1>4, <1>5, <1>6

\* The only request to quit, once taken, is nowhere, and was not taken up yet.
LEMMA QuitTaken ==
  ASSUME NEW kk, NEW q, Turning(kk, q), Around
  PROVE  /\ q # <<>> /\ Head(q)[1] = "Quit" =>
              /\ sent.quits > 0
              /\ sent.quits <= 1 =>
                   NoQuits(kk, Tail(q)) /\ ~kk.quitting /\ kk.frozen.reply # "Quit"
         /\ kk.replay # <<>> =>
              LET popped == [kk EXCEPT !.replay = Tail(@)] IN
              /\ Turning(popped, q) /\ (Thawing(kk, q) => Thawing(popped, q))
              /\ popped.saved = kk.saved /\ popped.quitting = kk.quitting
              /\ popped.frozen = kk.frozen
              /\ Head(kk.replay) \in Deferrable
              /\ Head(kk.replay)[1] = "Quit" =>
                   /\ sent.quits > 0
                   /\ sent.quits <= 1 =>
                        NoQuits(popped, q) /\ ~popped.quitting /\ popped.frozen.reply # "Quit"
<1>0. kk \in Loop /\ q \in Seq(Message) /\ kk.replay \in Seq(Deferrable) /\ sent.quits \in Nat
  BY DEF Turning, Shapes, Loop, Around
<1>1. ASSUME q # <<>>, Head(q)[1] = "Quit"
      PROVE  /\ sent.quits > 0
             /\ sent.quits <= 1 =>
                  NoQuits(kk, Tail(q)) /\ ~kk.quitting /\ kk.frozen.reply # "Quit"
  <2>1. HasKind(q, "Quit") /\ (OneQuit(q) => ~HasKind(Tail(q), "Quit"))
    BY <1>0, <1>1, TailHas
  <2> QED
    BY <1>0, <2>1 DEF Turning, Quits, NoQuits
<1>2. ASSUME kk.replay # <<>>
      PROVE  LET popped == [kk EXCEPT !.replay = Tail(@)] IN
              /\ Turning(popped, q) /\ (Thawing(kk, q) => Thawing(popped, q))
              /\ popped.saved = kk.saved /\ popped.quitting = kk.quitting
              /\ popped.frozen = kk.frozen
              /\ Head(kk.replay) \in Deferrable
              /\ Head(kk.replay)[1] = "Quit" =>
                   /\ sent.quits > 0
                   /\ sent.quits <= 1 =>
                        NoQuits(popped, q) /\ ~popped.quitting /\ popped.frozen.reply # "Quit"
  <2> DEFINE rp == Tail(kk.replay)
             popped == [kk EXCEPT !.replay = Tail(@)]
  <2>1. /\ rp \in Seq(Deferrable) /\ Head(kk.replay) \in Deferrable
        /\ HasKind(rp, "Quit") => HasKind(kk.replay, "Quit")
        /\ OneQuit(kk.replay) => OneQuit(rp)
        /\ Head(kk.replay)[1] = "Quit" => HasKind(kk.replay, "Quit")
        /\ OneQuit(kk.replay) /\ Head(kk.replay)[1] = "Quit" => ~HasKind(rp, "Quit")
    BY <1>0, <1>2, TailHas, TailFacts
  <2>2. popped = [kk EXCEPT !.replay = rp]
    OBVIOUS
  <2> HIDE DEF rp, popped
  <2>3. popped \in Loop
    BY <1>0, <2>1, <2>2 DEF Loop
  <2>4. /\ popped.frozen = kk.frozen /\ popped.freezes = kk.freezes
        /\ popped.quitting = kk.quitting /\ popped.active = kk.active
        /\ popped.snapshot = kk.snapshot /\ popped.answers = kk.answers
        /\ popped.inbox = kk.inbox /\ popped.effects = kk.effects /\ popped.replay = rp
        /\ popped.over = kk.over /\ popped.saved = kk.saved
    BY <1>0, <2>2 DEF Loop
  <2>5. (IsFrozen(kk) <=> IsFrozen(popped)) /\ (Ours(kk) <=> Ours(popped))
    BY <2>4 DEF IsFrozen, Ours
  <2>6. Shapes(popped, q)
    BY <1>0, <2>3 DEF Shapes
  <2>7. Numbered(popped, q) /\ Runs(popped, q) /\ Kept(popped, q) /\ Upgrades(popped, q)
    BY <2>4, <2>5 DEF Turning, Numbered, Runs, Kept, Upgrades
  <2>8. Frozen(popped, q) /\ EndsFirst(popped, q) /\ Granted(popped, q)
    BY <2>4, <2>5 DEF Turning, Frozen, InStep, EndsFirst, Granted
  <2>9. Quits(popped, q)
    BY <2>1, <2>4, <2>5 DEF Turning, Quits, NoQuits
  <2>10. Thawing(kk, q) => Thawing(popped, q)
    BY <2>4, <2>5 DEF Thawing
  <2>11. Turning(popped, q)
    BY <2>6, <2>7, <2>8, <2>9 DEF Turning
  <2>12. Head(kk.replay)[1] = "Quit" =>
           /\ sent.quits > 0
           /\ sent.quits <= 1 =>
                NoQuits(popped, q) /\ ~popped.quitting /\ popped.frozen.reply # "Quit"
    BY <1>0, <2>1, <2>4 DEF Turning, Quits, NoQuits
  <2> QED
    BY <2>1, <2>4, <2>10, <2>11, <2>12 DEF popped
<1> QED
  BY <1>1, <1>2

\* The message at the head of the channel.
LEMMA QueueDispatched ==
  ASSUME NEW kk, NEW q, NEW saveOk \in BOOLEAN, Turning(kk, q), Thawing(kk, q), Around, q # <<>>
  PROVE  LET d == dispatch(kk, Head(q), saveOk) IN
         Turning(d, Tail(q)) /\ Thawing(d, Tail(q)) /\ Saving(kk, d, q)
<1> DEFINE msg == Head(q)
           r == Tail(q)
           d == dispatch(kk, msg, saveOk)
           h == Handle(kk, msg)
<1>0. kk \in Loop /\ q \in Seq(Message)
  BY DEF Turning, Shapes
<1>1. /\ r \in Seq(Message) /\ msg \in Message /\ msg = q[1]
      /\ Len(r) = Len(q) - 1 /\ Len(q) \in Nat /\ Len(q) > 0
      /\ \A i \in 1 .. Len(r) : r[i] = q[i + 1] /\ i + 1 \in 1 .. Len(q)
  BY <1>0, TailFacts
<1>2. /\ \A m : Holds(r, m) => Holds(q, m)
      /\ \A m : Holds(q, m) /\ msg # m => Holds(r, m)
  BY <1>0, TailHas
<1>3. /\ msg[1] \in {"Quit", "Intent", "Freeze", "FreezeTimeout", "Stopped", "Frozen", "Thaw"}
      /\ msg[1] = "Freeze" => msg[2] \in 1 .. MaxUpgrades /\ msg = <<"Freeze", msg[2]>>
      /\ msg[1] = "Stopped" => msg[2] \in Task /\ msg = <<"Stopped", msg[2]>>
      /\ msg[1] = "Frozen" => msg[2] \in Task /\ msg[3] \in Nat /\ msg = <<"Frozen", msg[2], msg[3]>>
      /\ msg[1] = "Thaw" => msg = <<"Thaw">>
  BY <1>1, Kinds
<1>4. /\ msg[1] # "Stopped" => Turning(kk, r)
      /\ msg[1] # "Stopped" /\ msg[1] # "Thaw" => Thawing(kk, r)
  BY Taken
<1>5. Saving(kk, d, r) => Saving(kk, d, q)
  BY <1>2 DEF Saving
<1>6. ASSUME Turning(h, r), Thawing(h, r), Near(kk, h), msg[1] \notin {"Quit", "Intent"}
      PROVE  Turning(d, r) /\ Thawing(d, r) /\ Saving(kk, d, q)
  <2>1. d = dispatch_now(kk, msg, saveOk)
    BY <1>6 DEF dispatch
  <2>2. d = IF h.over THEN h ELSE finish_freeze(h, saveOk)
    BY <2>1, DispatchesNow
  <2> HIDE DEF d, h, r, msg
  <2> QED
    BY <1>5, <1>6, <2>2, LookedAt
<1>7. CASE msg[1] \in {"Quit", "Intent"}
  <2>1. msg \in Deferrable
    BY <1>1, <1>7 DEF Message, Deferrable
  <2>2. msg[1] = "Quit" =>
          /\ sent.quits > 0
          /\ sent.quits <= 1 => NoQuits(kk, r) /\ ~kk.quitting /\ kk.frozen.reply # "Quit"
    BY QuitTaken
  <2> HIDE DEF msg, r
  <2>3. Turning(d, r) /\ Thawing(d, r) /\ Saving(kk, d, r)
    BY <1>4, <1>7, <2>1, <2>2, IntentDispatched
  <2> QED
    BY <2>3, <1>5 DEF msg, r
<1>8. CASE msg[1] = "Stopped"
  <2> DEFINE end == [kk EXCEPT !.active = @ \ {msg[2]}]
  <2>1. h = end
    BY <1>8 DEF Handle
  <2>2. /\ Turning(end, r) /\ (Thawing(kk, q) => Thawing(end, r)) /\ end.saved = kk.saved
    BY <1>3, <1>8, EndTaken
  <2>3. end.frozen = kk.frozen /\ end.quitting = kk.quitting
    BY <1>0 DEF Loop
  <2>4. Near(kk, end)
    BY <2>2, <2>3 DEF Near
  <2> QED
    BY <1>6, <1>8, <2>1, <2>2, <2>4
<1>9. CASE msg[1] = "Frozen"
  <2> DEFINE ans == on_task_frozen(kk, msg[2], msg[3])
  <2>1. h = ans
    BY <1>9 DEF Handle
  <2>2. ASSUME IsFrozen(kk), msg[3] = kk.freezes
        PROVE  mode[msg[2]] = kk.freezes /\ (Ours(kk) => ~Holds(r, <<"Stopped", msg[2]>>))
    <3>1. q[1] = <<"Frozen", msg[2], kk.freezes>> /\ 1 \in 1 .. Len(q)
      BY <1>1, <1>3, <1>9, <2>2
    <3>2. Holds(q, <<"Frozen", msg[2], kk.freezes>>) /\ msg[2] \in Task
      BY <3>1, <1>3, <1>9 DEF Holds
    <3>3. mode[msg[2]] = kk.freezes
      BY <2>2, <3>2 DEF Turning, Frozen
    <3>4. ASSUME Ours(kk), NEW j \in 1 .. Len(r), r[j] = <<"Stopped", msg[2]>>
          PROVE  FALSE
      <4>1. q[j + 1] = <<"Stopped", msg[2]>> /\ j + 1 \in 1 .. Len(q) /\ 1 < j + 1
        BY <1>1, <3>4
      <4> QED
        BY <3>1, <3>2, <3>4, <4>1 DEF Turning, EndsFirst
    <3> QED
      BY <3>3, <3>4 DEF Holds
  <2>3. /\ Turning(ans, r) /\ (Thawing(kk, r) <=> Thawing(ans, r)) /\ ans.saved = kk.saved
    <3> HIDE DEF msg, r
    <3> QED
      BY <1>3, <1>4, <1>9, <2>2, AnswerTaken
  <2>4. Near(kk, ans)
    <3>1. ans.quitting = kk.quitting /\ ans.frozen.number = kk.frozen.number
      BY <1>0 DEF on_task_frozen, Loop, Frost
    <3> QED
      BY <2>3, <3>1 DEF Near
  <2> QED
    BY <1>4, <1>6, <1>9, <2>1, <2>3, <2>4
<1>10. CASE msg[1] = "FreezeTimeout"
  <2>1. h = on_freeze_timeout(kk, msg[2])
    BY <1>10 DEF Handle
  <2>2. Turning(h, r) /\ Thawing(h, r) /\ Near(kk, h)
    <3> HIDE DEF msg, r
    <3> QED
      BY <1>4, <1>10, <2>1, TimeoutHandled
  <2> QED
    BY <1>6, <1>10, <2>2
<1>11. CASE msg[1] = "Freeze"
  <2>1. h = begin_freeze(kk, msg[2])
    BY <1>11 DEF Handle
  <2>2. q[1] = <<"Freeze", msg[2]>> /\ q[1][1] = "Freeze" /\ q[1][2] = msg[2] /\ 1 \in 1 .. Len(q)
    BY <1>1, <1>3, <1>11
  <2>3. msg[2] \in 1 .. sent.upgrades
    BY <2>2 DEF Turning, Upgrades
  <2>4. ASSUME upgrade # "none", msg[2] = sent.upgrades
        PROVE  ~HasKind(r, "Thaw") /\ ~HasKind(r, "Freeze")
    <3>1. ASSUME NEW j \in 1 .. Len(r)
          PROVE  r[j][1] \notin {"Thaw", "Freeze"}
      <4>1. 1 < j + 1 /\ j + 1 \in 1 .. Len(q) /\ r[j] = q[j + 1]
        BY <1>1
      <4> QED
        BY <2>2, <2>4, <4>1 DEF Turning, Kept
    <3> QED
      BY <3>1 DEF HasKind
  <2>5. ASSUME upgrade = "none"
        PROVE  Holds(r, <<"Thaw">>)
    <3>1. PICK j \in 1 + 1 .. Len(q) : q[j] = <<"Thaw">>
      BY <2>2, <2>5 DEF Turning, Followed
    <3>2. j - 1 \in 1 .. Len(r) /\ (j - 1) + 1 = j
      BY <1>1
    <3>3. r[j - 1] = <<"Thaw">>
      BY <1>1, <3>1, <3>2
    <3> QED
      BY <3>2, <3>3 DEF Holds
  <2>6. Turning(h, r) /\ Thawing(h, r) /\ Near(kk, h)
    <3> HIDE DEF msg, r
    <3> QED
      BY <1>4, <1>11, <2>1, <2>3, <2>4, <2>5, FreezeHandled
  <2> QED
    BY <1>6, <1>11, <2>6
<1>12. CASE msg[1] = "Thaw"
  <2>1. h = thaw(kk)
    BY <1>12 DEF Handle
  <2>2. ~Ours(kk)
    BY <1>1, <1>12 DEF Turning, Kept, HasKind
  <2>3. /\ Turning(thaw(kk), r) /\ ~IsFrozen(thaw(kk)) /\ Thawing(thaw(kk), r)
        /\ thaw(kk).quitting = kk.quitting /\ thaw(kk).saved = kk.saved
    <3> HIDE DEF msg, r
    <3> QED
      BY <1>4, <1>12, <2>2, Thawed
  <2> QED
    BY <1>6, <1>12, <2>1, <2>3 DEF Near
<1> QED
  BY <1>3, <1>7, <1>8, <1>9, <1>10, <1>11, <1>12

-----------------------------------------------------------------------------
(* The actions *)

\* What is said of a turn's end, and of a message sent, is said of the next state.
LEMMA Unmoved ==
  ASSUME Turning(k', queue'), Thawing(k', queue'), Around,
         mode' = mode, alive' = alive, dead' = dead, upgrade' = upgrade,
         sent' \in [intents : Nat, quits : Nat, upgrades : 0 .. MaxUpgrades],
         sent'.quits = sent.quits, sent'.upgrades = sent.upgrades
  PROVE  FInv'
<1>1. Around'
  BY DEF Around
<1>2. Shapes(k, queue)' /\ Numbered(k, queue)' /\ Runs(k, queue)'
  BY DEF Turning, Shapes, Numbered, Runs, IsFrozen, Holds
<1>3. Frozen(k, queue)'
  BY DEF Turning, Frozen, IsFrozen, InStep, Holds
<1>4. Ours(k)' <=> Ours(k')
  BY DEF Ours, IsFrozen
<1>5. Upgrades(k, queue)' /\ Kept(k, queue)'
  BY <1>4 DEF Turning, Upgrades, Kept, HasKind
<1>6. EndsFirst(k, queue)' /\ Granted(k, queue)'
  BY <1>4 DEF Turning, EndsFirst, Granted, Holds
<1>7. Followed(queue)' /\ Thawing(k, queue)'
  BY DEF Turning, Followed, Thawing, IsFrozen, Holds
<1>8. Quits(k, queue)'
  BY DEF Turning, Quits, NoQuits, OneQuit, HasKind, IsFrozen
<1> QED
  BY <1>1, <1>2, <1>3, <1>5, <1>6, <1>7, <1>8 DEF FInv, Turning

\* The loop's own turn, with what a save in it is of.
LEMMA TurnKeeps ==
  ASSUME FInv, Turn
  PROVE  FInv' /\ Saving(k, k', queue)
<1> DEFINE fromReplay == k.replay # <<>>
           msg == IF fromReplay THEN Head(k.replay) ELSE Head(queue)
           popped == IF fromReplay THEN [k EXCEPT !.replay = Tail(@)] ELSE k
           rest == IF fromReplay THEN queue ELSE Tail(queue)
<1>0. Turning(k, queue) /\ Thawing(k, queue) /\ Around
  BY DEF FInv
<1>1. PICK saveOk \in BOOLEAN :
        LET dispatched == dispatch(popped, msg, saveOk)
            settled == IF dispatched.over THEN dispatched ELSE after_dispatch(dispatched)
        IN k' = [settled EXCEPT !.over = @ \/ (settled.quitting /\ settled.active = {})]
  BY DEF Turn
<1> DEFINE d == dispatch(popped, msg, saveOk)
           s == IF d.over THEN d ELSE after_dispatch(d)
           over == s.over \/ (s.quitting /\ s.active = {})
<1>2. k' = [s EXCEPT !.over = over] /\ queue' = rest
      /\ UNCHANGED <<mode, alive, dead, upgrade, sent>> /\ (fromReplay \/ queue # <<>>)
  BY <1>1 DEF Turn
<1>3. Turning(d, rest) /\ Thawing(d, rest) /\ Saving(k, d, queue)
  <2>1. CASE fromReplay
    <3>1. /\ Turning(popped, queue) /\ Thawing(popped, queue)
          /\ popped.saved = k.saved /\ popped.quitting = k.quitting
          /\ popped.frozen = k.frozen
          /\ msg \in Deferrable
          /\ msg[1] = "Quit" =>
               /\ sent.quits > 0
               /\ sent.quits <= 1 =>
                    NoQuits(popped, queue) /\ ~popped.quitting /\ popped.frozen.reply # "Quit"
      BY <1>0, <2>1, QuitTaken
    <3> HIDE DEF popped, msg
    <3>2. Turning(d, queue) /\ Thawing(d, queue) /\ Saving(popped, d, queue)
      BY <1>0, <3>1, IntentDispatched
    <3>3. Saving(k, d, queue)
      BY <3>1, <3>2 DEF Saving
    <3> QED
      BY <2>1, <3>2, <3>3
  <2>2. CASE ~fromReplay
    <3>1. popped = k /\ msg = Head(queue) /\ rest = Tail(queue) /\ queue # <<>>
      BY <2>2, <1>2
    <3> HIDE DEF popped, msg, rest
    <3> QED
      BY <1>0, <3>1, QueueDispatched
  <2> QED
    BY <2>1, <2>2
<1> HIDE DEF d, rest
<1>4. Turning(s, rest) /\ Thawing(s, rest) /\ s.saved = d.saved /\ s.snapshot = d.snapshot
  <2>1. CASE d.over
    BY <1>3, <2>1
  <2>2. CASE ~d.over
    BY <1>0, <1>3, <2>2, SettledDown
  <2> QED
    BY <2>1, <2>2
<1> HIDE DEF s
<1>5. s \in Loop /\ over \in BOOLEAN
  BY <1>4 DEF Turning, Shapes, Loop
<1> HIDE DEF over
<1>6. k' \in Loop
  BY <1>2, <1>5 DEF Loop
<1>7. /\ k'.frozen = s.frozen /\ k'.freezes = s.freezes /\ k'.quitting = s.quitting
      /\ k'.active = s.active /\ k'.snapshot = s.snapshot /\ k'.answers = s.answers
      /\ k'.inbox = s.inbox /\ k'.effects = s.effects /\ k'.replay = s.replay
      /\ k'.saved = s.saved /\ k'.over = over
  BY <1>2, <1>5 DEF Loop
<1>8. (IsFrozen(s) <=> IsFrozen(k')) /\ (Ours(s) <=> Ours(k'))
  BY <1>7 DEF IsFrozen, Ours
<1>9. Shapes(k', rest)
  BY <1>4, <1>6 DEF Turning, Shapes
<1>10. Numbered(k', rest) /\ Runs(k', rest) /\ Kept(k', rest) /\ Upgrades(k', rest)
  BY <1>4, <1>7, <1>8 DEF Turning, Numbered, Runs, Kept, Upgrades
<1>11. Frozen(k', rest) /\ EndsFirst(k', rest) /\ Granted(k', rest)
  BY <1>4, <1>7, <1>8 DEF Turning, Frozen, InStep, EndsFirst, Granted
<1>12. Quits(k', rest)
  BY <1>4, <1>7, <1>8 DEF Turning, Quits, NoQuits, over
<1>13. Turning(k', rest) /\ Thawing(k', rest)
  <2>1. Thawing(k', rest)
    BY <1>4, <1>7, <1>8 DEF Thawing
  <2> QED
    BY <1>4, <1>9, <1>10, <1>11, <1>12, <2>1 DEF Turning
<1>14. Saving(k, k', queue)
  BY <1>3, <1>4, <1>7 DEF Saving
<1>15. FInv'
  <2>1. sent' \in [intents : Nat, quits : Nat, upgrades : 0 .. MaxUpgrades]
    BY <1>0, <1>2 DEF Around
  <2> QED
    BY <1>0, <1>2, <1>13, <2>1, Unmoved
<1> QED
  BY <1>14, <1>15

\* An intent, or a save's timeout, that is sent.
LEMMA PlainSent ==
  ASSUME NEW kk, NEW q, NEW m \in Message, m[1] \in {"Intent", "FreezeTimeout"},
         Turning(kk, q), Thawing(kk, q), Around
  PROVE  Turning(kk, Append(q, m)) /\ Thawing(kk, Append(q, m))
<1> DEFINE r == Append(q, m)
<1>0. kk \in Loop /\ q \in Seq(Message)
  BY DEF Turning, Shapes
<1>1. /\ r \in Seq(Message) /\ Len(q) \in Nat /\ Len(r) = Len(q) + 1
      /\ \A i \in 1 .. Len(q) : r[i] = q[i] /\ i \in 1 .. Len(r)
      /\ r[Len(q) + 1] = m
      /\ \A i \in 1 .. Len(r) : i \in 1 .. Len(q) \/ i = Len(q) + 1
  BY <1>0, AppendFacts
<1>2. /\ \A n : Holds(r, n) <=> Holds(q, n) \/ n = m
      /\ \A kind : HasKind(r, kind) <=> HasKind(q, kind) \/ m[1] = kind
      /\ OneQuit(q) => OneQuit(r)
  BY <1>0, AppendHas
<1> HIDE DEF r
<1>3. \A t : m # <<"Stopped", t>> /\ \A n : m # <<"Frozen", t, n>>
  OBVIOUS
<1>4. Shapes(kk, r) /\ Numbered(kk, r)
  BY <1>0, <1>1 DEF Turning, Shapes, Numbered
<1>5. Frozen(kk, r) /\ Runs(kk, r)
  BY <1>2, <1>3 DEF Turning, Frozen, Runs
<1>6. Upgrades(kk, r)
  BY <1>1 DEF Turning, Upgrades
<1>7. Kept(kk, r)
  <2>1. ASSUME upgrade # "none", NEW i \in 1 .. Len(r), NEW j \in 1 .. Len(r),
               i < j, r[i] = <<"Freeze", sent.upgrades>>
        PROVE  r[j][1] \notin {"Thaw", "Freeze"}
    <3>1. CASE j = Len(q) + 1
      BY <3>1, <1>1
    <3>2. CASE j \in 1 .. Len(q)
      <4>1. i \in 1 .. Len(q)
        BY <3>2, <2>1, <1>1
      <4> QED
        BY <3>2, <4>1, <2>1, <1>1 DEF Turning, Kept
    <3> QED
      BY <3>1, <3>2, <1>1
  <2> QED
    BY <2>1, <1>2 DEF Turning, Kept
<1>8. EndsFirst(kk, r)
  <2>1. ASSUME Ours(kk), NEW t \in Task, NEW i \in 1 .. Len(r), NEW j \in 1 .. Len(r),
               i < j, r[i] = <<"Frozen", t, kk.freezes>>
        PROVE  r[j] # <<"Stopped", t>>
    <3>1. CASE j = Len(q) + 1
      BY <3>1, <1>1, <1>3
    <3>2. CASE j \in 1 .. Len(q)
      <4>1. i \in 1 .. Len(q)
        BY <3>2, <2>1, <1>1
      <4> QED
        BY <3>2, <4>1, <2>1, <1>1 DEF Turning, EndsFirst
    <3> QED
      BY <3>1, <3>2, <1>1
  <2> QED
    BY <2>1, <1>2, <1>3 DEF Turning, EndsFirst
<1>9. Granted(kk, r)
  BY DEF Turning, Granted
<1>10. Followed(r)
  <2> SUFFICES ASSUME upgrade = "none", NEW i \in 1 .. Len(r), r[i][1] = "Freeze"
               PROVE  \E j \in i + 1 .. Len(r) : r[j] = <<"Thaw">>
    BY DEF Followed
  <2>1. i \in 1 .. Len(q) /\ q[i][1] = "Freeze"
    BY <1>1
  <2>2. PICK j \in i + 1 .. Len(q) : q[j] = <<"Thaw">>
    BY <2>1 DEF Turning, Followed
  <2>3. j \in i + 1 .. Len(r) /\ j \in 1 .. Len(q)
    BY <2>1, <2>2, <1>1
  <2> QED
    BY <2>2, <2>3, <1>1
<1>11. Quits(kk, r)
  BY <1>2 DEF Turning, Quits, NoQuits
<1>12. Thawing(kk, r)
  BY <1>2 DEF Thawing
<1> QED
  BY <1>4, <1>5, <1>6, <1>7, <1>8, <1>9, <1>10, <1>11, <1>12 DEF Turning, r

\* The type of what was sent, with its parts.
LEMMA SentParts ==
  ASSUME Around
  PROVE  /\ sent.intents \in Nat /\ sent.quits \in Nat /\ sent.upgrades \in 0 .. MaxUpgrades
         /\ MaxUpgrades \in Nat
  BY FreezeAssumption DEF Around

\* An intent is sent.
LEMMA SendIntentKeeps == FInv /\ SendIntent => FInv'
<1> SUFFICES ASSUME FInv, SendIntent
             PROVE  FInv'
  OBVIOUS
<1> DEFINE m == <<"Intent", sent'.intents>>
<1>1. /\ k' = k /\ queue' = Append(queue, m)
      /\ sent' = [sent EXCEPT !.intents = @ + 1]
      /\ UNCHANGED <<mode, alive, dead, upgrade>>
  BY DEF SendIntent, Send
<1>2. /\ sent' \in [intents : Nat, quits : Nat, upgrades : 0 .. MaxUpgrades]
      /\ sent'.quits = sent.quits /\ sent'.upgrades = sent.upgrades
  BY <1>1, SentParts DEF FInv, Around
<1>3. m \in Message /\ m[1] = "Intent"
  BY <1>2 DEF Message, Deferrable
<1> HIDE DEF m
<1>4. Turning(k', queue') /\ Thawing(k', queue')
  BY <1>1, <1>3, PlainSent DEF FInv
<1> QED
  BY <1>1, <1>2, <1>4, Unmoved DEF FInv

\* A save's timeout fires.
LEMMA SaveTimeoutKeeps == \A n \in k.timers : FInv /\ SaveTimeout(n) => FInv'
<1> SUFFICES ASSUME FInv, NEW n \in k.timers, SaveTimeout(n)
             PROVE  FInv'
  OBVIOUS
<1> DEFINE m == <<"FreezeTimeout", n>>
           kj == [k EXCEPT !.timers = @ \ {n}]
<1>0. k \in Loop
  BY DEF FInv, Turning, Shapes
<1>1. k' = kj /\ queue' = Append(queue, m) /\ UNCHANGED <<mode, alive, dead, upgrade, sent>>
  BY DEF SaveTimeout, Send
<1>2. n \in Nat
  BY <1>0 DEF Loop
<1>3. m \in Message /\ m[1] = "FreezeTimeout"
  BY <1>2 DEF Message
<1>4. /\ kj \in Loop
      /\ kj.frozen = k.frozen /\ kj.freezes = k.freezes /\ kj.quitting = k.quitting
      /\ kj.active = k.active /\ kj.snapshot = k.snapshot /\ kj.answers = k.answers
      /\ kj.inbox = k.inbox /\ kj.effects = k.effects /\ kj.replay = k.replay /\ kj.over = k.over
  BY <1>0 DEF Loop
<1> HIDE DEF m, kj
<1>5. Turning(kj, queue) /\ Thawing(kj, queue)
  BY <1>4, Alike DEF FInv
<1>6. Turning(k', queue') /\ Thawing(k', queue')
  BY <1>1, <1>3, <1>5, PlainSent DEF FInv
<1>7. sent' \in [intents : Nat, quits : Nat, upgrades : 0 .. MaxUpgrades]
  BY <1>1 DEF FInv, Around
<1> QED
  BY <1>1, <1>6, <1>7, Unmoved DEF FInv

\* The stop timers of a quit run out.
LEMMA GiveUpKeeps == \A t \in Task : FInv /\ GiveUp(t) => FInv'
<1> SUFFICES ASSUME FInv, NEW t \in Task, GiveUp(t)
             PROVE  FInv'
  OBVIOUS
<1> DEFINE kj == [k EXCEPT !.active = @ \ {t}, !.over = k.active = {t}]
<1>0. k \in Loop
  BY DEF FInv, Turning, Shapes
<1>1. k' = kj /\ UNCHANGED <<queue, mode, alive, dead, upgrade, sent>>
      /\ k.quitting /\ ~IsFrozen(k)
  BY DEF GiveUp
<1>2. /\ kj \in Loop
      /\ kj.frozen = k.frozen /\ kj.freezes = k.freezes /\ kj.quitting = k.quitting
      /\ kj.active = k.active \ {t} /\ kj.snapshot = k.snapshot /\ kj.answers = k.answers
      /\ kj.inbox = k.inbox /\ kj.effects = k.effects /\ kj.replay = k.replay
      /\ kj.over = (k.active = {t})
  BY <1>0 DEF Loop
<1> HIDE DEF kj
<1>3. ~IsFrozen(kj) /\ ~Ours(kj) /\ ~Ours(k)
  BY <1>1, <1>2 DEF IsFrozen, Ours
<1>4. Shapes(kj, queue)
  BY <1>2 DEF FInv, Turning, Shapes
<1>5. Numbered(kj, queue) /\ Runs(kj, queue) /\ Upgrades(kj, queue) /\ Kept(kj, queue)
  BY <1>1, <1>2, <1>3 DEF FInv, Turning, Numbered, Runs, Upgrades, Kept
<1>6. Frozen(kj, queue) /\ EndsFirst(kj, queue) /\ Granted(kj, queue) /\ Thawing(kj, queue)
  BY <1>2, <1>3 DEF FInv, Turning, Frozen, EndsFirst, Granted, Thawing
<1>7. Quits(kj, queue)
  BY <1>1, <1>2, <1>3 DEF FInv, Turning, Quits, NoQuits
<1>8. Turning(kj, queue)
  BY <1>4, <1>5, <1>6, <1>7 DEF FInv, Turning
<1>9. sent' \in [intents : Nat, quits : Nat, upgrades : 0 .. MaxUpgrades]
  BY <1>1 DEF FInv, Around
<1> QED
  BY <1>1, <1>6, <1>8, <1>9, Unmoved DEF FInv

\* A quit is requested.
LEMMA SendQuitKeeps == \A save \in BOOLEAN : FInv /\ SendQuit(save) => FInv'
<1> SUFFICES ASSUME FInv, NEW save \in BOOLEAN, SendQuit(save)
             PROVE  FInv'
  OBVIOUS
<1> DEFINE m == <<"Quit", save>>
           r == Append(queue, m)
<1>0. k \in Loop /\ queue \in Seq(Message) /\ Turning(k, queue) /\ Around
  BY DEF FInv, Turning, Shapes
<1>1. /\ k' = k /\ queue' = r /\ sent' = [sent EXCEPT !.quits = @ + 1] /\ ~k.over
      /\ UNCHANGED <<mode, alive, dead, upgrade>>
  BY DEF SendQuit, Send, Running
<1>2. /\ sent' \in [intents : Nat, quits : Nat, upgrades : 0 .. MaxUpgrades]
      /\ sent'.quits = sent.quits + 1 /\ sent'.upgrades = sent.upgrades /\ sent.quits \in Nat
  <2>1. sent \in [intents : Nat, quits : Nat, upgrades : 0 .. MaxUpgrades]
    BY DEF FInv, Around
  <2>2. sent.quits \in Nat
    BY <2>1
  <2> QED
    BY <1>1, <2>1, <2>2
<1>3. m \in Message /\ m[1] = "Quit"
  BY DEF Message, Deferrable
<1>4. \A t : m # <<"Stopped", t>> /\ \A n : m # <<"Frozen", t, n>>
  OBVIOUS
<1> HIDE DEF m
<1>5. /\ r \in Seq(Message) /\ Len(queue) \in Nat /\ Len(r) = Len(queue) + 1
      /\ \A i \in 1 .. Len(queue) : r[i] = queue[i] /\ i \in 1 .. Len(r)
      /\ r[Len(queue) + 1] = m
      /\ \A i \in 1 .. Len(r) : i \in 1 .. Len(queue) \/ i = Len(queue) + 1
  BY <1>0, <1>3, AppendFacts
<1>6. /\ \A n : Holds(r, n) <=> Holds(queue, n) \/ n = m
      /\ \A kind : HasKind(r, kind) <=> HasKind(queue, kind) \/ m[1] = kind
      /\ OneQuit(queue) /\ ~HasKind(queue, "Quit") => OneQuit(r)
  BY <1>0, <1>3, AppendHas
<1> HIDE DEF r
<1>7. Around'
  BY <1>1, <1>2 DEF FInv, Around
<1>8. Shapes(k, queue)'
  BY <1>0, <1>1, <1>5 DEF Shapes
<1>9. Numbered(k, queue)'
  BY <1>0, <1>1, <1>3, <1>5 DEF Turning, Numbered, IsFrozen
<1>10. Frozen(k, queue)'
  <2>1. \A t \in Task : InStep(k, t)' <=> InStep(k, t)
    BY <1>1 DEF InStep
  <2>2. \A t \in Task : \A n : Holds(queue, <<"Frozen", t, n>>)' <=> Holds(queue, <<"Frozen", t, n>>)
    BY <1>1, <1>4, <1>6 DEF Holds
  <2> QED
    BY <1>0, <1>1, <2>1, <2>2 DEF Turning, Frozen, IsFrozen
<1>11. \A n : Holds(queue, n)' <=> Holds(queue, n) \/ n = m
  BY <1>1, <1>6 DEF Holds
<1>12. \A kind : HasKind(queue, kind)' <=> HasKind(queue, kind) \/ m[1] = kind
  BY <1>1, <1>6 DEF HasKind
<1>13. Runs(k, queue)'
  BY <1>0, <1>1, <1>4, <1>11 DEF Turning, Runs
<1>14. Ours(k)' <=> Ours(k)
  BY <1>1, <1>2 DEF Ours, IsFrozen
<1>15. Upgrades(k, queue)'
  BY <1>0, <1>1, <1>2, <1>3, <1>5 DEF Turning, Upgrades
<1>16. Kept(k, queue)'
  <2>1. ASSUME upgrade # "none", NEW i \in 1 .. Len(r), NEW j \in 1 .. Len(r),
               i < j, r[i] = <<"Freeze", sent.upgrades>>
        PROVE  r[j][1] \notin {"Thaw", "Freeze"}
    <3>1. CASE j = Len(queue) + 1
      BY <3>1, <1>3, <1>5
    <3>2. CASE j \in 1 .. Len(queue)
      <4>1. i \in 1 .. Len(queue)
        BY <3>2, <2>1, <1>5
      <4> QED
        BY <3>2, <4>1, <2>1, <1>0, <1>5 DEF Turning, Kept
    <3> QED
      BY <3>1, <3>2, <1>5
  <2> QED
    BY <2>1, <1>0, <1>1, <1>2, <1>3, <1>12, <1>14 DEF Turning, Kept
<1>17. EndsFirst(k, queue)'
  <2>1. ASSUME Ours(k), NEW t \in Task, NEW i \in 1 .. Len(r), NEW j \in 1 .. Len(r),
               i < j, r[i] = <<"Frozen", t, k.freezes>>
        PROVE  r[j] # <<"Stopped", t>>
    <3>1. CASE j = Len(queue) + 1
      BY <3>1, <1>4, <1>5
    <3>2. CASE j \in 1 .. Len(queue)
      <4>1. i \in 1 .. Len(queue)
        BY <3>2, <2>1, <1>5
      <4> QED
        BY <3>2, <4>1, <2>1, <1>0, <1>5 DEF Turning, EndsFirst
    <3> QED
      BY <3>1, <3>2, <1>5
  <2> QED
    BY <2>1, <1>0, <1>1, <1>4, <1>11, <1>14 DEF Turning, EndsFirst
<1>18. Granted(k, queue)'
  BY <1>0, <1>1, <1>2, <1>14 DEF Turning, Granted
<1>19. Followed(queue)'
  <2> SUFFICES ASSUME upgrade = "none", NEW i \in 1 .. Len(r), r[i][1] = "Freeze"
               PROVE  \E j \in i + 1 .. Len(r) : r[j] = <<"Thaw">>
    BY <1>1 DEF Followed
  <2>1. i \in 1 .. Len(queue) /\ queue[i][1] = "Freeze"
    BY <1>3, <1>5
  <2>2. PICK j \in i + 1 .. Len(queue) : queue[j] = <<"Thaw">>
    BY <2>1, <1>0 DEF Turning, Followed
  <2>3. j \in i + 1 .. Len(r) /\ j \in 1 .. Len(queue)
    BY <2>1, <2>2, <1>5
  <2> QED
    BY <2>2, <2>3, <1>5
<1>20. Quits(k, queue)'
  <2>1. sent'.quits <= 1 => sent.quits = 0
    BY <1>2
  <2>2. sent.quits = 0 => NoQuits(k, queue) /\ ~k.quitting /\ k.frozen.reply # "Quit"
    BY <1>0, NoFreezeShape DEF Turning, Quits, Upgrades, IsFrozen
  <2>3. sent.quits = 0 => OneQuit(r) /\ OneQuit(k.replay) /\ OneQuit(k.frozen.deferred)
    BY <1>0, <1>2, <1>6, <2>2 DEF Turning, Quits, NoQuits
  <2>4. OneQuit(queue)' <=> OneQuit(r)
    BY <1>1 DEF OneQuit
  <2>5. HasKind(k.replay, "Quit")' <=> HasKind(k.replay, "Quit")
    BY <1>1 DEF HasKind
  <2>6. HasKind(k.frozen.deferred, "Quit")' <=> HasKind(k.frozen.deferred, "Quit")
    BY <1>1 DEF HasKind
  <2>7. sent'.quits # 0
    BY <1>2
  <2>8. (sent.quits <= 1)' => sent.quits = 0
    BY <2>1
  <2>9. OneQuit(k.replay)' <=> OneQuit(k.replay)
    BY <1>1 DEF OneQuit
  <2>10. OneQuit(k.frozen.deferred)' <=> OneQuit(k.frozen.deferred)
    BY <1>1 DEF OneQuit
  <2>11. (k.quitting)' = k.quitting /\ (k.frozen.reply)' = k.frozen.reply /\ (k.over)' = k.over
    BY <1>1
  <2>12. (~HasKind(k.replay, "Quit") /\ ~HasKind(k.frozen.deferred, "Quit")) \/ sent.quits # 0
    BY <2>2 DEF NoQuits
  <2> QED
    BY <2>2, <2>3, <2>4, <2>5, <2>6, <2>7, <2>8, <2>9, <2>10, <2>11, <2>12, <1>1 DEF Quits
<1>21. Thawing(k, queue)'
  BY <1>1, <1>11 DEF FInv, Thawing, IsFrozen
<1> QED
  BY <1>7, <1>8, <1>9, <1>10, <1>13, <1>15, <1>16, <1>17, <1>18, <1>19, <1>20, <1>21
     DEF FInv, Turning

\* Of two messages the earlier was there before the last was sent.
LEMMA AppendPairs ==
  ASSUME NEW S, NEW q \in Seq(S), NEW m \in S
  PROVE  /\ \A i, j \in 1 .. Len(Append(q, m)) :
              i < j => /\ i \in 1 .. Len(q) /\ Append(q, m)[i] = q[i]
                       /\ \/ j \in 1 .. Len(q) /\ Append(q, m)[j] = q[j]
                          \/ Append(q, m)[j] = m
         /\ \A i \in 1 .. Len(Append(q, m)) :
              \/ i \in 1 .. Len(q) /\ Append(q, m)[i] = q[i]
              \/ i = Len(q) + 1 /\ Append(q, m)[i] = m
  BY AppendFacts

\* What the runs and the orders know of a queue, once a message is sent.
LEMMA QueueAfter ==
  ASSUME NEW m \in Message, queue \in Seq(Message), queue' = Append(queue, m)
  PROVE  /\ queue' \in Seq(Message)
         /\ \A n : Holds(queue, n)' <=> Holds(queue, n) \/ n = m
         /\ \A kind : HasKind(queue, kind)' <=> HasKind(queue, kind) \/ m[1] = kind
         /\ m[1] # "Quit" => (OneQuit(queue) => OneQuit(queue)')
         /\ \A i, j \in 1 .. Len(queue') :
              i < j => /\ i \in 1 .. Len(queue) /\ queue'[i] = queue[i]
                       /\ \/ j \in 1 .. Len(queue) /\ queue'[j] = queue[j]
                          \/ queue'[j] = m
         /\ \A i \in 1 .. Len(queue') :
              \/ i \in 1 .. Len(queue) /\ queue'[i] = queue[i]
              \/ i = Len(queue) + 1 /\ queue'[i] = m
         /\ \A i \in 1 .. Len(queue) : i \in 1 .. Len(queue') /\ queue'[i] = queue[i]
         /\ Len(queue) \in Nat /\ Len(queue') = Len(queue) + 1 /\ queue'[Len(queue) + 1] = m
<1>1. /\ \A n : Holds(queue', n) <=> Holds(queue, n) \/ n = m
      /\ \A kind : HasKind(queue', kind) <=> HasKind(queue, kind) \/ m[1] = kind
      /\ m[1] # "Quit" => (OneQuit(queue) => OneQuit(queue'))
  BY AppendHas
<1>2. /\ \A n : Holds(queue, n)' <=> Holds(queue', n)
      /\ \A kind : HasKind(queue, kind)' <=> HasKind(queue', kind)
      /\ OneQuit(queue)' <=> OneQuit(queue')
  BY DEF Holds, HasKind, OneQuit
<1>3. /\ queue' \in Seq(Message)
      /\ \A i \in 1 .. Len(queue) : i \in 1 .. Len(queue') /\ queue'[i] = queue[i]
      /\ Len(queue) \in Nat /\ Len(queue') = Len(queue) + 1 /\ queue'[Len(queue) + 1] = m
  BY AppendFacts
<1> QED
  BY <1>1, <1>2, <1>3, AppendPairs

\* Nothing but the tasks and the queue changes: what the requests to quit are.
LEMMA QuitsStay ==
  ASSUME Quits(k, queue), sent'.quits = sent.quits,
         k'.replay = k.replay, k'.frozen = k.frozen, k'.quitting = k.quitting,
         k'.over = k.over, k'.active = k.active,
         HasKind(queue, "Quit")' <=> HasKind(queue, "Quit"), OneQuit(queue) => OneQuit(queue)'
  PROVE  Quits(k, queue)'
<1>1. /\ HasKind(k.replay, "Quit")' <=> HasKind(k.replay, "Quit")
      /\ HasKind(k.frozen.deferred, "Quit")' <=> HasKind(k.frozen.deferred, "Quit")
  BY DEF HasKind
<1>2. /\ OneQuit(k.replay)' <=> OneQuit(k.replay)
      /\ OneQuit(k.frozen.deferred)' <=> OneQuit(k.frozen.deferred)
  BY DEF OneQuit
<1>3. NoQuits(k, queue)' <=> NoQuits(k, queue)
  BY <1>1 DEF NoQuits
<1>4. IsFrozen(k)' <=> IsFrozen(k)
  BY DEF IsFrozen
<1> QED
  BY <1>1, <1>2, <1>3, <1>4 DEF Quits

\* A task obeys: it answers a freeze with its number.
LEMMA ObeyKeeps == \A t \in Task : FInv /\ Obey(t) => FInv'
<1> SUFFICES ASSUME FInv, NEW t \in Task, Obey(t)
             PROVE  FInv'
  OBVIOUS
<1> DEFINE n == Head(k.inbox[t])
           m == <<"Frozen", t, n>>
           box == k.inbox[t]
           rest == Tail(k.inbox[t])
<1>0. k \in Loop /\ queue \in Seq(Message) /\ Turning(k, queue) /\ Around /\ Thawing(k, queue)
  BY DEF FInv, Turning, Shapes
<1>1. /\ k' = [k EXCEPT !.inbox[t] = rest] /\ mode' = [mode EXCEPT ![t] = n]
      /\ queue' = IF n = 0 THEN queue ELSE Append(queue, m)
      /\ UNCHANGED <<alive, dead, upgrade, sent>> /\ t \notin dead /\ box # <<>>
  BY DEF Obey, Send
<1>2. box \in Seq(Nat) /\ k.freezes \in Nat
  BY <1>0 DEF Loop
<1>3. /\ rest \in Seq(Nat) /\ n \in Nat /\ n = box[1]
      /\ Len(rest) = Len(box) - 1 /\ Len(box) \in Nat /\ Len(box) > 0
      /\ \A i \in 1 .. Len(rest) : rest[i] = box[i + 1] /\ i + 1 \in 1 .. Len(box)
  BY <1>1, <1>2, TailFacts
<1>4. \A i \in 1 .. Len(box) : box[i] <= k.freezes
  BY <1>0 DEF Turning, Numbered
<1>5. n <= k.freezes
  BY <1>3, <1>4
<1> HIDE DEF n, rest
<1>6. [k.inbox EXCEPT ![t] = rest] \in [Task -> Seq(Nat)]
  BY <1>0, <1>3 DEF Loop
<1>7. /\ k' \in Loop /\ k'.frozen = k.frozen /\ k'.freezes = k.freezes
      /\ k'.quitting = k.quitting /\ k'.active = k.active /\ k'.snapshot = k.snapshot
      /\ k'.answers = k.answers /\ k'.effects = k.effects /\ k'.replay = k.replay
      /\ k'.over = k.over /\ k'.inbox = [k.inbox EXCEPT ![t] = rest]
  <2>1. k' = [k EXCEPT !.inbox = [k.inbox EXCEPT ![t] = rest]]
    BY <1>0, <1>1 DEF Loop
  <2> QED
    BY <2>1, <1>0, <1>6 DEF Loop
<1>8. /\ k'.inbox[t] = rest /\ mode'[t] = n
      /\ \A u \in Task : u # t => k'.inbox[u] = k.inbox[u] /\ mode'[u] = mode[u]
      /\ mode' \in [Task -> Nat]
  BY <1>0, <1>1, <1>3, <1>7 DEF Loop, Around
<1>9. m \in Message /\ m[1] = "Frozen"
  BY <1>3 DEF Message
<1> HIDE DEF m
<1>10. /\ queue' \in Seq(Message)
       /\ \A x : Holds(queue, x)' <=> Holds(queue, x) \/ (n # 0 /\ x = m)
       /\ \A kind : HasKind(queue, kind)' <=> HasKind(queue, kind) \/ (n # 0 /\ "Frozen" = kind)
       /\ OneQuit(queue) => OneQuit(queue)'
       /\ \A i, j \in 1 .. Len(queue') :
            i < j => /\ i \in 1 .. Len(queue) /\ queue'[i] = queue[i]
                     /\ \/ j \in 1 .. Len(queue) /\ queue'[j] = queue[j]
                        \/ queue'[j] = m
       /\ \A i \in 1 .. Len(queue') :
            \/ i \in 1 .. Len(queue) /\ queue'[i] = queue[i]
            \/ n # 0 /\ queue'[i] = m
       /\ \A i \in 1 .. Len(queue) : i \in 1 .. Len(queue') /\ queue'[i] = queue[i]
       /\ Len(queue) \in Nat /\ Len(queue') >= Len(queue) /\ Len(queue') \in Nat
  <2>1. CASE n # 0
    <3>1. queue' = Append(queue, m)
      BY <1>1, <2>1
    <3> QED
      BY <3>1, <2>1, <1>0, <1>9, QueueAfter
  <2>2. CASE n = 0
    <3>1. queue' = queue
      BY <1>1, <2>2
    <3> QED
      BY <3>1, <2>2, <1>0 DEF Holds, HasKind, OneQuit
  <2> QED
    BY <2>1, <2>2
<1>11. \A u : m # <<"Stopped", u>> /\ m # <<"Thaw">>
  BY DEF m
<1>12. Around'
  BY <1>0, <1>1, <1>8 DEF Around
<1>13. (IsFrozen(k)' <=> IsFrozen(k)) /\ (Ours(k)' <=> Ours(k))
  BY <1>1, <1>7 DEF IsFrozen, Ours
<1>14. Numbered(k, queue)'
  <2>1. ASSUME NEW i \in 1 .. Len(queue'), queue'[i][1] = "Frozen"
        PROVE  queue'[i][3] \in 1 .. k.freezes
    <3>1. CASE i \in 1 .. Len(queue) /\ queue'[i] = queue[i]
      BY <3>1, <2>1, <1>0 DEF Turning, Numbered
    <3>2. CASE n # 0 /\ queue'[i] = m
      BY <3>2, <1>2, <1>3, <1>5 DEF m
    <3> QED
      BY <3>1, <3>2, <1>10
  <2>2. \A u \in Task : mode'[u] <= k.freezes
    BY <1>0, <1>5, <1>8 DEF Turning, Numbered
  <2>3. ASSUME NEW u \in Task, NEW i \in 1 .. Len(k'.inbox[u])
        PROVE  k'.inbox[u][i] <= k.freezes
    BY <1>0, <1>3, <1>4, <1>8 DEF Turning, Numbered
  <2>4. \A u \in dead : mode'[u] = 0 /\ k'.inbox[u] = <<>>
    <3>1. dead \subseteq Task
      BY <1>0, FreezeAssumption DEF Around
    <3> QED
      BY <3>1, <1>0, <1>1, <1>8 DEF Turning, Numbered
  <2>5. IsFrozen(k) => k.frozen.number = k.freezes /\ k.freezes > 0
    BY <1>0 DEF Turning, Numbered
  <2>6. k.effects \subseteq dead
    BY <1>0 DEF Turning, Numbered
  <2> QED
    BY <2>1, <2>2, <2>3, <2>4, <2>5, <2>6, <1>1, <1>7, <1>13 DEF Numbered
<1>15. Frozen(k, queue)'
  <2> SUFFICES ASSUME IsFrozen(k), NEW u \in Task
               PROVE  /\ InStep(k, u)'
                      /\ u \notin k.frozen.waiting \/ Holds(queue, <<"Frozen", u, k.freezes>>)'
                           => mode'[u] = k.freezes
    <3>1. IsFrozen(k) => ~k.quitting
      BY <1>0 DEF Turning, Frozen
    <3> QED
      BY <3>1, <1>7, <1>13 DEF Frozen, Holds
  <2>1. CASE u # t
    <3>1. InStep(k, u)' <=> InStep(k, u)
      BY <2>1, <1>1, <1>7, <1>8 DEF InStep
    <3>2. Holds(queue, <<"Frozen", u, k.freezes>>)' => Holds(queue, <<"Frozen", u, k.freezes>>)
      BY <2>1, <1>7, <1>10 DEF m, Holds
    <3> QED
      BY <3>1, <3>2, <2>1, <1>0, <1>8 DEF Turning, Frozen
  <2>2. CASE u = t
    <3>1. /\ mode[t] # k.freezes /\ box[Len(box)] = k.freezes
          /\ \A i \in 1 .. Len(box) - 1 : box[i] # k.freezes
      BY <1>0, <1>1 DEF Turning, Frozen, InStep
    <3>2. t \in k.frozen.waiting /\ ~Holds(queue, <<"Frozen", t, k.freezes>>)
      BY <3>1, <1>0 DEF Turning, Frozen
    <3>3. CASE Len(box) = 1
      <4>1. rest = <<>> /\ n = k.freezes
        BY <3>1, <3>3, <1>3
      <4> QED
        BY <4>1, <2>2, <1>7, <1>8 DEF InStep
    <3>4. CASE Len(box) # 1
      <4> HIDE DEF box
      <4>1. Len(box) \in Nat /\ Len(box) > 1 /\ Len(rest) = Len(box) - 1
        BY <3>4, <1>3
      <4>2. 1 \in 1 .. Len(box) - 1
        BY <4>1
      <4>3. n # k.freezes
        BY <4>2, <3>1, <1>3
      <4>4. rest # <<>> /\ Len(rest) \in 1 .. Len(rest) /\ Len(rest) + 1 = Len(box)
        <5>1. Len(rest) \in Nat /\ Len(rest) > 0
          BY <4>1
        <5>2. rest # <<>>
          BY <5>1
        <5> QED
          BY <5>1, <5>2, <4>1
      <4>5. rest[Len(rest)] = k.freezes
        BY <4>4, <3>1, <1>3
      <4>6. \A i \in 1 .. Len(rest) - 1 : rest[i] # k.freezes
        BY <3>1, <1>3
      <4>7. InStep(k, t)'
        BY <4>3, <4>4, <4>5, <4>6, <1>7, <1>8 DEF InStep
      <4>8. ~Holds(queue, <<"Frozen", t, k.freezes>>)'
        BY <4>3, <3>2, <1>7, <1>10 DEF m, Holds
      <4> QED
        BY <4>7, <4>8, <3>2, <2>2
    <3> QED
      BY <3>3, <3>4
  <2> QED
    BY <2>1, <2>2
<1>16. Runs(k, queue)'
  BY <1>0, <1>1, <1>7, <1>10, <1>11 DEF Turning, Runs
<1>17. Upgrades(k, queue)'
  <2>1. \A i \in 1 .. Len(queue') : queue'[i][1] = "Freeze" => queue'[i][2] \in 1 .. sent.upgrades
    BY <1>0, <1>9, <1>10 DEF Turning, Upgrades
  <2> QED
    BY <2>1, <1>0, <1>1, <1>7 DEF Turning, Upgrades
<1>18. Kept(k, queue)'
  <2>1. ASSUME upgrade # "none", NEW i \in 1 .. Len(queue'), NEW j \in 1 .. Len(queue'),
               i < j, queue'[i] = <<"Freeze", sent.upgrades>>
        PROVE  queue'[j][1] \notin {"Thaw", "Freeze"}
    BY <2>1, <1>0, <1>9, <1>10 DEF Turning, Kept
  <2>2. Ours(k) => ~HasKind(queue, "Thaw")' /\ ~HasKind(queue, "Freeze")'
    BY <1>0, <1>10 DEF Turning, Kept
  <2> QED
    BY <2>1, <2>2, <1>1, <1>13 DEF Kept
<1>19. EndsFirst(k, queue)'
  <2>1. ASSUME Ours(k), NEW u \in Task, NEW i \in 1 .. Len(queue'), NEW j \in 1 .. Len(queue'),
               i < j, queue'[i] = <<"Frozen", u, k.freezes>>
        PROVE  queue'[j] # <<"Stopped", u>>
    BY <2>1, <1>0, <1>10, <1>11 DEF Turning, EndsFirst
  <2>2. \A u : Holds(queue, <<"Stopped", u>>)' <=> Holds(queue, <<"Stopped", u>>)
    BY <1>10, <1>11
  <2> QED
    BY <2>1, <2>2, <1>0, <1>7, <1>13 DEF Turning, EndsFirst
<1>20. Granted(k, queue)'
  BY <1>0, <1>1, <1>7, <1>13 DEF Turning, Granted
<1>21. Followed(queue)'
  <2> SUFFICES ASSUME upgrade = "none", NEW i \in 1 .. Len(queue'), queue'[i][1] = "Freeze"
               PROVE  \E j \in i + 1 .. Len(queue') : queue'[j] = <<"Thaw">>
    BY <1>1 DEF Followed
  <2>1. i \in 1 .. Len(queue) /\ queue[i][1] = "Freeze"
    BY <1>9, <1>10
  <2>2. PICK j \in i + 1 .. Len(queue) : queue[j] = <<"Thaw">>
    BY <2>1, <1>0 DEF Turning, Followed
  <2>3. j \in i + 1 .. Len(queue') /\ j \in 1 .. Len(queue)
    BY <2>1, <2>2, <1>10
  <2> QED
    BY <2>2, <2>3, <1>10
<1>22. Quits(k, queue)'
  BY <1>0, <1>1, <1>7, <1>10, QuitsStay DEF Turning
<1>23. Thawing(k, queue)'
  BY <1>0, <1>1, <1>7, <1>10, <1>11, <1>13 DEF Thawing
<1>24. Shapes(k, queue)'
  BY <1>7, <1>10 DEF Shapes
<1> QED
  BY <1>12, <1>14, <1>15, <1>16, <1>17, <1>18, <1>19, <1>20, <1>21, <1>22, <1>23, <1>24
     DEF FInv, Turning

\* A run ends, or a handler: not of a task that answered the upgrade's freeze.
LEMMA EndKeeps ==
  ASSUME FInv, NEW t \in Task, NEW box \in Seq(Nat),
         k' = [k EXCEPT !.inbox[t] = box], alive' = alive \ {t},
         dead \subseteq dead', dead' \subseteq dead \cup {t}, dead' \subseteq Mortal,
         t \in dead' => mode[t] = 0 /\ box = <<>>,
         t \notin dead' => box = k.inbox[t],
         \/ queue' = Append(queue, <<"Stopped", t>>)
         \/ queue' = queue /\ t \notin alive,
         Ours(k) => mode[t] # k.freezes,
         UNCHANGED <<mode, upgrade, sent>>
  PROVE  FInv'
<1> DEFINE m == <<"Stopped", t>>
<1>0. k \in Loop /\ queue \in Seq(Message) /\ Turning(k, queue) /\ Around /\ Thawing(k, queue)
      /\ dead' \subseteq Task
  BY FreezeAssumption DEF FInv, Turning, Shapes
<1>6. [k.inbox EXCEPT ![t] = box] \in [Task -> Seq(Nat)]
  BY <1>0 DEF Loop
<1>7. /\ k' \in Loop /\ k'.frozen = k.frozen /\ k'.freezes = k.freezes
      /\ k'.quitting = k.quitting /\ k'.active = k.active /\ k'.snapshot = k.snapshot
      /\ k'.answers = k.answers /\ k'.effects = k.effects /\ k'.replay = k.replay
      /\ k'.over = k.over /\ k'.inbox = [k.inbox EXCEPT ![t] = box]
  <2>1. k' = [k EXCEPT !.inbox = [k.inbox EXCEPT ![t] = box]]
    BY <1>0 DEF Loop
  <2> QED
    BY <2>1, <1>0, <1>6 DEF Loop
<1>8. /\ k'.inbox[t] = box
      /\ \A u \in Task : u # t => k'.inbox[u] = k.inbox[u]
  BY <1>0, <1>7 DEF Loop
<1>9. m \in Message /\ m[1] = "Stopped"
  BY DEF Message
<1>11. /\ m # <<"Thaw">> /\ \A u, n : m # <<"Frozen", u, n>>
       /\ \A u : m = <<"Stopped", u>> <=> u = t
  OBVIOUS
<1> HIDE DEF m
<1>10. /\ queue' \in Seq(Message)
       /\ \A x : Holds(queue, x)' => Holds(queue, x) \/ x = m
       /\ \A x : Holds(queue, x) => Holds(queue, x)'
       /\ t \in alive => Holds(queue, m)'
       /\ \A kind : kind # "Stopped" => (HasKind(queue, kind)' <=> HasKind(queue, kind))
       /\ OneQuit(queue) => OneQuit(queue)'
       /\ \A i, j \in 1 .. Len(queue') :
            i < j => /\ i \in 1 .. Len(queue) /\ queue'[i] = queue[i]
                     /\ \/ j \in 1 .. Len(queue) /\ queue'[j] = queue[j]
                        \/ queue'[j] = m
       /\ \A i \in 1 .. Len(queue') :
            (i \in 1 .. Len(queue) /\ queue'[i] = queue[i]) \/ queue'[i] = m
       /\ \A i \in 1 .. Len(queue) : i \in 1 .. Len(queue') /\ queue'[i] = queue[i]
       /\ Len(queue) \in Nat /\ Len(queue') >= Len(queue) /\ Len(queue') \in Nat
  <2>1. CASE queue' = Append(queue, m)
    BY <2>1, <1>0, <1>9, QueueAfter
  <2>2. CASE queue' = queue /\ t \notin alive
    BY <2>2, <1>0 DEF Holds, HasKind, OneQuit
  <2> QED
    BY <2>1, <2>2 DEF m
<1>12. Around'
  BY <1>0 DEF Around
<1>13. (IsFrozen(k)' <=> IsFrozen(k)) /\ (Ours(k)' <=> Ours(k))
  BY <1>7 DEF IsFrozen, Ours
<1>14. Numbered(k, queue)'
  <2>1. ASSUME NEW i \in 1 .. Len(queue'), queue'[i][1] = "Frozen"
        PROVE  queue'[i][3] \in 1 .. k.freezes
    BY <2>1, <1>0, <1>9, <1>10 DEF Turning, Numbered
  <2>2. \A u \in Task : mode[u] <= k.freezes
    BY <1>0 DEF Turning, Numbered
  <2>3. ASSUME NEW u \in Task, NEW i \in 1 .. Len(k'.inbox[u])
        PROVE  k'.inbox[u][i] <= k.freezes
    <3>1. CASE k'.inbox[u] = k.inbox[u]
      BY <3>1, <1>0 DEF Turning, Numbered
    <3>2. CASE k'.inbox[u] = <<>>
      BY <3>2
    <3> QED
      BY <3>1, <3>2, <1>8
  <2>4. \A u \in dead' : mode[u] = 0 /\ k'.inbox[u] = <<>>
    BY <1>0, <1>8 DEF Turning, Numbered
  <2>5. IsFrozen(k) => k.frozen.number = k.freezes /\ k.freezes > 0
    BY <1>0 DEF Turning, Numbered
  <2>6. k.effects \subseteq dead'
    BY <1>0 DEF Turning, Numbered
  <2> QED
    BY <2>1, <2>2, <2>3, <2>4, <2>5, <2>6, <1>7, <1>13 DEF Numbered
<1>15. Frozen(k, queue)'
  <2>1. IsFrozen(k) => ~k.quitting
    BY <1>0 DEF Turning, Frozen
  <2>2. ASSUME IsFrozen(k), NEW u \in Task
        PROVE  /\ InStep(k, u)'
               /\ u \notin k.frozen.waiting \/ Holds(queue, <<"Frozen", u, k.freezes>>)'
                    => mode[u] = k.freezes
    <3>1. InStep(k, u)
      BY <2>2, <1>0 DEF Turning, Frozen
    <3>2. InStep(k, u)'
      BY <3>1, <1>7, <1>8 DEF InStep
    <3>3. Holds(queue, <<"Frozen", u, k.freezes>>)' => Holds(queue, <<"Frozen", u, k.freezes>>)
      BY <1>10, <1>11, <1>7 DEF Holds
    <3> QED
      BY <3>2, <3>3, <2>2, <1>0 DEF Turning, Frozen
  <2> QED
    BY <2>1, <2>2, <1>7, <1>13 DEF Frozen, Holds
<1>16. Runs(k, queue)'
  <2>1. ~k.quitting => alive' \subseteq k.active
    BY <1>0 DEF Turning, Runs
  <2>2. ASSUME NEW u \in k.active \ alive'
        PROVE  Holds(queue, <<"Stopped", u>>)'
    <3>1. CASE u \notin alive
      BY <3>1, <1>0, <1>10 DEF Turning, Runs
    <3>2. CASE u \in alive
      BY <3>2, <2>2, <1>10 DEF m
    <3> QED
      BY <3>1, <3>2
  <2>3. ASSUME NEW u \in alive'
        PROVE  ~Holds(queue, <<"Stopped", u>>)'
    BY <1>0, <1>10, <1>11 DEF Turning, Runs
  <2> QED
    BY <2>1, <2>2, <2>3, <1>7 DEF Runs
<1>17. Upgrades(k, queue)'
  <2>1. \A i \in 1 .. Len(queue') : queue'[i][1] = "Freeze" => queue'[i][2] \in 1 .. sent.upgrades
    BY <1>0, <1>9, <1>10 DEF Turning, Upgrades
  <2> QED
    BY <2>1, <1>0, <1>7 DEF Turning, Upgrades
<1>18. Kept(k, queue)'
  <2>1. ASSUME upgrade # "none", NEW i \in 1 .. Len(queue'), NEW j \in 1 .. Len(queue'),
               i < j, queue'[i] = <<"Freeze", sent.upgrades>>
        PROVE  queue'[j][1] \notin {"Thaw", "Freeze"}
    BY <2>1, <1>0, <1>9, <1>10 DEF Turning, Kept
  <2>2. Ours(k) => ~HasKind(queue, "Thaw")' /\ ~HasKind(queue, "Freeze")'
    BY <1>0, <1>10 DEF Turning, Kept
  <2> QED
    BY <2>1, <2>2, <1>7, <1>13 DEF Kept
<1>19. EndsFirst(k, queue)'
  <2>0. Ours(k) => t \in k.frozen.waiting /\ ~Holds(queue, <<"Frozen", t, k.freezes>>)
    BY <1>0 DEF Turning, Frozen, Ours
  <2>1. ASSUME Ours(k), NEW u \in Task, NEW i \in 1 .. Len(queue'), NEW j \in 1 .. Len(queue'),
               i < j, queue'[i] = <<"Frozen", u, k.freezes>>
        PROVE  queue'[j] # <<"Stopped", u>>
    <3>1. i \in 1 .. Len(queue) /\ queue[i] = <<"Frozen", u, k.freezes>>
      BY <2>1, <1>10
    <3>2. u # t
      BY <2>0, <2>1, <3>1 DEF Holds
    <3> QED
      BY <2>1, <3>1, <3>2, <1>0, <1>10, <1>11 DEF Turning, EndsFirst
  <2>2. ASSUME Ours(k), NEW u \in Task, u \notin k.frozen.waiting
        PROVE  ~Holds(queue, <<"Stopped", u>>)'
    <3>1. u # t /\ ~Holds(queue, <<"Stopped", u>>)
      BY <2>0, <2>2, <1>0 DEF Turning, EndsFirst
    <3> QED
      BY <3>1, <1>10, <1>11
  <2>3. ASSUME Ours(k)', NEW u \in Task
        PROVE  /\ u \notin k'.frozen.waiting => ~Holds(queue, <<"Stopped", u>>)'
               /\ \A i, j \in 1 .. Len(queue') :
                    (i < j /\ queue'[i] = <<"Frozen", u, k'.freezes>>)
                      => queue'[j] # <<"Stopped", u>>
    BY <2>1, <2>2, <2>3, <1>7, <1>13
  <2> QED
    BY <2>3 DEF EndsFirst, Holds
<1>20. Granted(k, queue)'
  <2>1. ASSUME upgrade # "none", k.answers[sent.upgrades] = "ok"
        PROVE  FALSE
    <3>1. Ours(k) /\ k.frozen.waiting = {}
      BY <2>1, <1>0 DEF Turning, Granted
    <3> QED
      BY <3>1, <1>0 DEF Turning, Frozen, Ours
  <2> QED
    BY <2>1, <1>7 DEF Granted
<1>21. Followed(queue)'
  <2> SUFFICES ASSUME upgrade = "none", NEW i \in 1 .. Len(queue'), queue'[i][1] = "Freeze"
               PROVE  \E j \in i + 1 .. Len(queue') : queue'[j] = <<"Thaw">>
    BY DEF Followed
  <2>1. i \in 1 .. Len(queue) /\ queue[i][1] = "Freeze"
    BY <1>9, <1>10
  <2>2. PICK j \in i + 1 .. Len(queue) : queue[j] = <<"Thaw">>
    BY <2>1, <1>0 DEF Turning, Followed
  <2>3. j \in i + 1 .. Len(queue') /\ j \in 1 .. Len(queue)
    BY <2>1, <2>2, <1>10
  <2> QED
    BY <2>2, <2>3, <1>10
<1>22. Quits(k, queue)'
  BY <1>0, <1>7, <1>10, QuitsStay DEF Turning
<1>23. Thawing(k, queue)'
  BY <1>0, <1>7, <1>10, <1>13 DEF Thawing
<1>24. Shapes(k, queue)'
  BY <1>7, <1>10 DEF Shapes
<1> QED
  BY <1>12, <1>14, <1>15, <1>16, <1>17, <1>18, <1>19, <1>20, <1>21, <1>22, <1>23, <1>24
     DEF FInv, Turning

\* A run ends, by itself or because it is stopped.
LEMMA RunEndsKeeps == \A t \in Task : FInv /\ RunEnds(t) => FInv'
<1> SUFFICES ASSUME FInv, NEW t \in Task, RunEnds(t)
             PROVE  FInv'
  OBVIOUS
<1>1. k \in Loop /\ k.inbox \in [Task -> Seq(Nat)] /\ k.inbox[t] \in Seq(Nat)
  BY DEF FInv, Turning, Shapes, Loop
<1>2. k = [k EXCEPT !.inbox[t] = k.inbox[t]]
  <2>1. [k.inbox EXCEPT ![t] = k.inbox[t]] = k.inbox
    BY <1>1
  <2> QED
    BY <1>1, <2>1 DEF Loop
<1>3. Ours(k) => mode[t] # k.freezes
  BY DEF RunEnds, Paused, Ours, FInv, Turning, Numbered
<1>4. /\ k' = k /\ alive' = alive \ {t} /\ dead' = dead /\ t \notin dead
      /\ queue' = Append(queue, <<"Stopped", t>>) /\ UNCHANGED <<mode, upgrade, sent>>
  BY DEF RunEnds, Send
<1>5. dead \subseteq Mortal
  BY DEF FInv, Around
<1> QED
  BY <1>1, <1>2, <1>3, <1>4, <1>5, EndKeeps

\* A handler ends, and its run with it.
LEMMA HandlerEndsKeeps == \A t \in Task : FInv /\ HandlerEnds(t) => FInv'
<1> SUFFICES ASSUME FInv, NEW t \in Task, HandlerEnds(t)
             PROVE  FInv'
  OBVIOUS
<1>1. <<>> \in Seq(Nat)
  OBVIOUS
<1>2. Ours(k) => mode[t] # k.freezes
  BY DEF HandlerEnds, Ours, FInv, Turning, Numbered
<1>3. /\ k' = [k EXCEPT !.inbox[t] = <<>>] /\ alive' = alive \ {t} /\ dead' = dead \cup {t}
      /\ \/ queue' = Append(queue, <<"Stopped", t>>)
         \/ queue' = queue /\ t \notin alive
      /\ UNCHANGED <<mode, upgrade, sent>> /\ t \in Mortal /\ mode[t] = 0
  BY DEF HandlerEnds, Send
<1>4. dead' \subseteq Mortal
  BY <1>3 DEF FInv, Around
<1> QED
  BY <1>1, <1>2, <1>3, <1>4, EndKeeps

\* An upgrade asks for its freeze or its thaw: what it leaves as it is.
LEMMA UpgradeSends ==
  ASSUME FInv, NEW m \in Message, m[1] \in {"Freeze", "Thaw"}, queue' = Append(queue, m),
         sent'.quits = sent.quits, UNCHANGED <<k, mode, alive, dead>>
  PROVE  /\ Shapes(k, queue)' /\ Numbered(k, queue)' /\ Frozen(k, queue)' /\ Runs(k, queue)'
         /\ Quits(k, queue)'
<1>0. k \in Loop /\ queue \in Seq(Message) /\ Turning(k, queue)
  BY DEF FInv, Turning, Shapes
<1>1. \A t : m # <<"Stopped", t>> /\ \A n : m # <<"Frozen", t, n>>
  OBVIOUS
<1>2. /\ queue' \in Seq(Message)
      /\ \A n : Holds(queue, n)' <=> Holds(queue, n) \/ n = m
      /\ HasKind(queue, "Quit")' <=> HasKind(queue, "Quit")
      /\ OneQuit(queue) => OneQuit(queue)'
      /\ \A i \in 1 .. Len(queue') :
           (i \in 1 .. Len(queue) /\ queue'[i] = queue[i]) \/ queue'[i] = m
  BY <1>0, QueueAfter
<1>3. Shapes(k, queue)'
  BY <1>0, <1>2 DEF Shapes
<1>4. Numbered(k, queue)'
  BY <1>0, <1>2 DEF Turning, Numbered, IsFrozen
<1>5. Frozen(k, queue)'
  <2>1. \A t \in Task : InStep(k, t)' <=> InStep(k, t)
    BY DEF InStep
  <2>2. \A t \in Task : \A n : Holds(queue, <<"Frozen", t, n>>)' <=> Holds(queue, <<"Frozen", t, n>>)
    BY <1>1, <1>2
  <2>3. \A t \in Task : Holds(queue, <<"Frozen", t, k.freezes>>)'
                          <=> Holds(queue, <<"Frozen", t, k.freezes>>)
    BY <2>2 DEF Holds
  <2> QED
    BY <1>0, <2>1, <2>3 DEF Turning, Frozen, IsFrozen
<1>6. Runs(k, queue)'
  BY <1>0, <1>1, <1>2 DEF Turning, Runs
<1>7. Quits(k, queue)'
  BY <1>0, <1>2, QuitsStay DEF Turning
<1> QED
  BY <1>3, <1>4, <1>5, <1>6, <1>7

\* An upgrade begins, with a number no freeze has had.
LEMMA UpgradeBeginsKeeps == FInv /\ UpgradeBegins => FInv'
<1> SUFFICES ASSUME FInv, UpgradeBegins
             PROVE  FInv'
  OBVIOUS
<1> DEFINE n == sent.upgrades + 1
           m == <<"Freeze", n>>
<1>0. k \in Loop /\ queue \in Seq(Message) /\ Turning(k, queue) /\ Around
  BY DEF FInv, Turning, Shapes
<1>1. /\ k' = k /\ upgrade' = "asked" /\ sent' = [sent EXCEPT !.upgrades = @ + 1]
      /\ sent.upgrades < MaxUpgrades /\ queue' = Append(queue, <<"Freeze", sent'.upgrades>>)
      /\ UNCHANGED <<mode, alive, dead>>
  BY DEF UpgradeBegins, Send
<1>2. /\ sent' \in [intents : Nat, quits : Nat, upgrades : 0 .. MaxUpgrades]
      /\ sent'.quits = sent.quits /\ sent'.upgrades = n
      /\ n \in 1 .. MaxUpgrades /\ n > sent.upgrades /\ sent.upgrades \in Nat
  <2>1. sent \in [intents : Nat, quits : Nat, upgrades : 0 .. MaxUpgrades]
    BY <1>0 DEF Around
  <2>2. sent.upgrades \in Nat /\ n \in 0 .. MaxUpgrades /\ n \in 1 .. MaxUpgrades
    BY <1>1, <2>1, FreezeAssumption
  <2> QED
    BY <1>1, <2>1, <2>2
<1>3. m \in Message /\ m[1] = "Freeze" /\ m[2] = n /\ queue' = Append(queue, m)
  BY <1>1, <1>2 DEF Message
<1> HIDE DEF m, n
<1>4. /\ \A i, j \in 1 .. Len(queue') :
           i < j => i \in 1 .. Len(queue) /\ queue'[i] = queue[i]
      /\ \A i \in 1 .. Len(queue') :
           (i \in 1 .. Len(queue) /\ queue'[i] = queue[i]) \/ queue'[i] = m
  BY <1>0, <1>3, QueueAfter
<1>5. k.frozen.who \in 0 .. sent.upgrades /\ k.answers[n] = "none"
  BY <1>0, <1>2 DEF Turning, Upgrades
<1>6. ~Ours(k)'
  BY <1>1, <1>2, <1>5 DEF Ours
<1>7. Around'
  BY <1>0, <1>1, <1>2 DEF Around
<1>8. /\ Shapes(k, queue)' /\ Numbered(k, queue)' /\ Frozen(k, queue)' /\ Runs(k, queue)'
      /\ Quits(k, queue)'
  BY <1>1, <1>2, <1>3, UpgradeSends
<1>9. Upgrades(k, queue)'
  <2>1. \A i \in 1 .. Len(queue') :
          queue'[i][1] = "Freeze" => queue'[i][2] \in 1 .. sent'.upgrades
    BY <1>0, <1>2, <1>3, <1>4 DEF Turning, Upgrades
  <2>2. /\ k.frozen.who \in 0 .. sent'.upgrades
        /\ \A v \in 1 .. MaxUpgrades : v > sent'.upgrades => k.answers[v] = "none"
    BY <1>0, <1>2, <1>5 DEF Turning, Upgrades
  <2> QED
    BY <1>0, <1>1, <2>1, <2>2 DEF Turning, Upgrades
<1>10. Kept(k, queue)'
  <2>1. \A i, j \in 1 .. Len(queue') : i < j => queue'[i] # <<"Freeze", sent'.upgrades>>
    BY <1>0, <1>2, <1>4 DEF Turning, Upgrades
  <2> QED
    BY <1>6, <2>1 DEF Kept
<1>11. EndsFirst(k, queue)' /\ Granted(k, queue)' /\ Followed(queue)' /\ Thawing(k, queue)'
  BY <1>1, <1>2, <1>5, <1>6 DEF EndsFirst, Granted, Followed, Thawing
<1> QED
  BY <1>7, <1>8, <1>9, <1>10, <1>11 DEF FInv, Turning

\* An upgrade gives up: its thaw follows its freeze.
LEMMA UpgradeFailsKeeps == FInv /\ UpgradeFails => FInv'
<1> SUFFICES ASSUME FInv, UpgradeFails
             PROVE  FInv'
  OBVIOUS
<1> DEFINE m == <<"Thaw">>
<1>0. k \in Loop /\ queue \in Seq(Message) /\ Turning(k, queue) /\ Around
  BY DEF FInv, Turning, Shapes
<1>1. /\ k' = k /\ upgrade' = "none" /\ queue' = Append(queue, m)
      /\ UNCHANGED <<mode, alive, dead, sent>>
  BY DEF UpgradeFails, Send
<1>2. m \in Message /\ m[1] = "Thaw"
  BY DEF Message
<1> HIDE DEF m
<1>3. /\ \A i \in 1 .. Len(queue') :
           (i \in 1 .. Len(queue) /\ queue'[i] = queue[i]) \/ queue'[i] = m
      /\ Len(queue) \in Nat /\ Len(queue') = Len(queue) + 1 /\ queue'[Len(queue) + 1] = m
      /\ Holds(queue, m)'
  BY <1>0, <1>1, <1>2, QueueAfter
<1>4. Around'
  BY <1>0, <1>1 DEF Around
<1>5. /\ Shapes(k, queue)' /\ Numbered(k, queue)' /\ Frozen(k, queue)' /\ Runs(k, queue)'
      /\ Quits(k, queue)'
  BY <1>1, <1>2, UpgradeSends
<1>6. Upgrades(k, queue)'
  BY <1>0, <1>1, <1>2, <1>3 DEF Turning, Upgrades
<1>7. Kept(k, queue)' /\ EndsFirst(k, queue)' /\ Granted(k, queue)'
  BY <1>1 DEF Kept, EndsFirst, Granted, Ours
<1>8. Followed(queue)'
  <2>1. ASSUME NEW i \in 1 .. Len(queue'), queue'[i][1] = "Freeze"
        PROVE  \E j \in i + 1 .. Len(queue') : queue'[j] = m
    <3>1. i \in 1 .. Len(queue)
      BY <1>2, <1>3, <2>1
    <3>2. Len(queue) + 1 \in i + 1 .. Len(queue')
      BY <1>3, <3>1
    <3> QED
      BY <1>3, <3>2
  <2> QED
    BY <2>1 DEF Followed, m
<1>9. Thawing(k, queue)'
  BY <1>3 DEF Thawing, m, Holds
<1> QED
  BY <1>4, <1>5, <1>6, <1>7, <1>8, <1>9 DEF FInv, Turning

\* An upgrade becomes the new binary.
LEMMA ExecKeeps == FInv /\ Exec => FInv'
<1> SUFFICES ASSUME FInv, Exec
             PROVE  FInv'
  OBVIOUS
<1>1. upgrade = "asked" /\ upgrade' = "execed"
      /\ UNCHANGED <<queue, k, mode, alive, dead, sent>>
  BY DEF Exec
<1>2. Ours(k)' <=> Ours(k)
  BY <1>1 DEF Ours, IsFrozen
<1>3. Around'
  BY <1>1 DEF FInv, Around
<1>4. Shapes(k, queue)' /\ Numbered(k, queue)' /\ Runs(k, queue)'
  BY <1>1 DEF FInv, Turning, Shapes, Numbered, Runs, IsFrozen, Holds
<1>5. Frozen(k, queue)'
  BY <1>1 DEF FInv, Turning, Frozen, IsFrozen, InStep, Holds
<1>6. Upgrades(k, queue)' /\ Kept(k, queue)'
  BY <1>1, <1>2 DEF FInv, Turning, Upgrades, Kept, HasKind
<1>7. EndsFirst(k, queue)' /\ Granted(k, queue)'
  BY <1>1, <1>2 DEF FInv, Turning, EndsFirst, Granted, Holds
<1>8. Followed(queue)' /\ Thawing(k, queue)'
  BY <1>1 DEF Followed, Thawing
<1>9. Quits(k, queue)'
  BY <1>1 DEF FInv, Turning, Quits, NoQuits, OneQuit, HasKind, IsFrozen
<1> QED
  BY <1>3, <1>4, <1>5, <1>6, <1>7, <1>8, <1>9 DEF FInv, Turning

-----------------------------------------------------------------------------
(* The theorems *)

\* Only what was granted becomes the new binary.
Sealed == upgrade = "execed" => k.answers[sent.upgrades] = "ok"

LoopInv == FInv /\ Sealed

\* Nothing was asked of the loop at first.
LEMMA InitLoopInv == Init => LoopInv
<1> SUFFICES ASSUME Init
             PROVE  LoopInv
  OBVIOUS
<1>1. queue = <<>> /\ mode = [t \in Task |-> 0] /\ alive = Task /\ dead = {}
      /\ upgrade = "none" /\ sent = [intents |-> 0, quits |-> 0, upgrades |-> 0]
  BY DEF Init
<1>2. /\ k.frozen = NoFreeze /\ k.freezes = 0 /\ k.replay = <<>> /\ k.quitting = FALSE
      /\ k.active = Task /\ k.effects = {} /\ k.inbox = [t \in Task |-> <<>>]
      /\ k.answers = [u \in 1 .. MaxUpgrades |-> "none"] /\ k.over = FALSE
  BY DEF Init
<1>3. NoFreeze \in Frost /\ NoFreeze.who = 0 /\ NoFreeze.reply = "none"
      /\ NoFreeze.deferred = <<>>
  BY DEF NoFreeze, Frost
<1>4. k \in Loop
  BY <1>3 DEF Init, Loop
<1>5. Around
  BY <1>1, FreezeAssumption DEF Around
<1>6. ~IsFrozen(k) /\ ~Ours(k)
  BY <1>1, <1>2 DEF IsFrozen, Ours
<1>7. Shapes(k, queue) /\ Numbered(k, queue) /\ Frozen(k, queue)
  BY <1>1, <1>2, <1>4, <1>6 DEF Shapes, Numbered, Frozen
<1>8. Runs(k, queue) /\ Kept(k, queue) /\ EndsFirst(k, queue)
  BY <1>1, <1>2, <1>6 DEF Runs, Kept, EndsFirst, Holds, HasKind
<1>9. Upgrades(k, queue)
  BY <1>1, <1>2, <1>3 DEF Upgrades
<1>10. Granted(k, queue) /\ Followed(queue) /\ Thawing(k, queue)
  BY <1>1, <1>6 DEF Granted, Followed, Thawing
<1>11. Quits(k, queue)
  BY <1>1, <1>2, <1>3, <1>6 DEF Quits, NoQuits, HasKind, OneQuit
<1> QED
  BY <1>1, <1>5, <1>7, <1>8, <1>9, <1>10, <1>11 DEF LoopInv, FInv, Turning, Sealed

\* Each step keeps the invariant, and a save in it is of what the tasks are.
LEMMA NextLoopInv == LoopInv /\ [Next]_vars => LoopInv' /\ Saving(k, k', queue)
<1> SUFFICES ASSUME LoopInv, [Next]_vars
             PROVE  LoopInv' /\ Saving(k, k', queue)
  OBVIOUS
<1> USE DEF LoopInv
<1>0. k \in Loop
  BY DEF FInv, Turning, Shapes
<1>1. CASE Turn
  <2>1. upgrade # "execed" /\ upgrade' = upgrade
    BY <1>1 DEF Turn, Running
  <2> QED
    BY <1>1, <2>1, TurnKeeps DEF Sealed
<1>2. ASSUME NEW t \in Task, GiveUp(t) \/ Obey(t) \/ RunEnds(t) \/ HandlerEnds(t)
      PROVE  FInv' /\ Sealed' /\ k'.saved = k.saved
  <2>1. upgrade # "execed" /\ upgrade' = upgrade
    BY <1>2 DEF GiveUp, Obey, RunEnds, HandlerEnds, Running
  <2>2. k'.saved = k.saved
    BY <1>0, <1>2 DEF GiveUp, Obey, RunEnds, HandlerEnds, Loop
  <2> QED
    BY <1>2, <2>1, <2>2, GiveUpKeeps, ObeyKeeps, RunEndsKeeps, HandlerEndsKeeps DEF Sealed
<1>3. CASE SendIntent
  <2>1. upgrade # "execed" /\ upgrade' = upgrade /\ k' = k
    BY <1>3 DEF SendIntent, Running
  <2> QED
    BY <1>3, <2>1, SendIntentKeeps DEF Sealed, Saving
<1>4. ASSUME NEW save \in BOOLEAN, SendQuit(save)
      PROVE  FInv' /\ Sealed' /\ k' = k
  BY <1>4, SendQuitKeeps DEF SendQuit, Running, Sealed
<1>5. ASSUME NEW n \in k.timers, SaveTimeout(n)
      PROVE  FInv' /\ Sealed' /\ k'.saved = k.saved
  <2>1. k'.saved = k.saved /\ upgrade # "execed" /\ upgrade' = upgrade
    BY <1>0, <1>5 DEF SaveTimeout, Running, Loop
  <2> QED
    BY <1>5, <2>1, SaveTimeoutKeeps DEF Sealed
<1>6. CASE UpgradeBegins
  BY <1>6, UpgradeBeginsKeeps DEF UpgradeBegins, Sealed, Saving
<1>7. CASE UpgradeFails
  BY <1>7, UpgradeFailsKeeps DEF UpgradeFails, Sealed, Saving
<1>8. CASE Exec
  BY <1>8, ExecKeeps DEF Exec, Sealed, Saving
<1>9. CASE UNCHANGED vars
  <2>1. UNCHANGED <<queue, k, mode, alive, dead, upgrade, sent>>
    BY <1>9 DEF vars
  <2>2. FInv'
    BY <2>1, Unmoved DEF FInv, Around
  <2> QED
    BY <2>1, <2>2 DEF Sealed, Saving
<1>10. k'.saved = k.saved => Saving(k, k', queue)
  BY DEF Saving
<1> QED
  BY <1>1, <1>2, <1>3, <1>4, <1>5, <1>6, <1>7, <1>8, <1>9, <1>10 DEF Next, Stand

\* Each piece of state is of its kind, as the properties say it.
LEMMA LoopTypes == LoopInv => TypeOK
<1> SUFFICES ASSUME LoopInv
             PROVE  TypeOK
  OBVIOUS
<1>0. k \in Loop /\ queue \in Seq(Message) /\ Numbered(k, queue) /\ Around
  BY DEF LoopInv, FInv, Turning, Shapes
<1>1. ASSUME NEW i \in 1 .. Len(queue)
      PROVE  MsgOK(queue[i])
  <2>1. queue[i] \in Message
    BY <1>0
  <2>2. queue[i][1] = "Frozen" => queue[i][3] \in 1 .. k.freezes
    BY <1>0 DEF Numbered
  <2> DEFINE m == queue[i]
  <2> HIDE DEF m
  <2>3. m \in Message
    BY <2>1 DEF m
  <2>4. CASE m[1] = "Quit"
    <3>1. m[2] \in BOOLEAN /\ m = <<"Quit", m[2]>>
      BY <2>3, <2>4, Kinds
    <3>2. m = <<"Quit", TRUE>> \/ m = <<"Quit", FALSE>>
      BY <3>1
    <3> QED
      BY <3>2 DEF MsgOK, m
  <2>5. CASE m[1] \in {"Intent", "FreezeTimeout"}
    <3>1. m[2] \in Nat
      BY <2>3, <2>5, Kinds
    <3> QED
      BY <2>5, <3>1 DEF MsgOK, m
  <2>6. CASE m[1] = "Freeze"
    <3>1. m[2] \in 1 .. MaxUpgrades
      BY <2>3, <2>6, Kinds
    <3>2. m[2] \in Nat
      BY <3>1, FreezeAssumption
    <3> QED
      BY <2>6, <3>2 DEF MsgOK, m
  <2>7. CASE m[1] = "Stopped"
    <3>1. m[2] \in Task
      BY <2>3, <2>7, Kinds
    <3> QED
      BY <2>7, <3>1 DEF MsgOK, m
  <2>8. CASE m[1] = "Frozen"
    <3>1. m[2] \in Task /\ m[3] \in 1 .. k.freezes
      BY <2>2, <2>3, <2>8, Kinds DEF m
    <3> QED
      BY <2>8, <3>1 DEF MsgOK, m
  <2>9. CASE m[1] = "Thaw"
    <3>1. m = <<"Thaw">>
      BY <2>3, <2>9, Kinds
    <3> QED
      BY <3>1 DEF MsgOK, m
  <2> QED
    BY <2>3, <2>4, <2>5, <2>6, <2>7, <2>8, <2>9, Kinds
<1>2. ASSUME NEW i \in 1 .. Len(k.replay)
      PROVE  k.replay[i][1] \in {"Quit", "Intent"}
  <2>1. k.replay \in Seq(Deferrable)
    BY <1>0 DEF Loop
  <2>2. k.replay[i] \in Deferrable
    BY <2>1
  <2> QED
    BY <2>2 DEF Deferrable
<1>3. k.frozen.number \in 0 .. k.freezes
  <2>1. k.freezes \in Nat
    BY <1>0 DEF Loop
  <2>2. NoFreeze.number = 0
    BY DEF NoFreeze
  <2> QED
    BY <1>0, <2>1, <2>2 DEF Numbered, IsFrozen
<1>4. k.active \subseteq Task /\ k.effects \subseteq dead
  BY <1>0 DEF Loop, Numbered
<1>5. mode \in [Task -> 0 .. k.freezes]
  <2>1. mode \in [Task -> Nat] /\ k.freezes \in Nat
    BY <1>0 DEF Around, Loop
  <2>2. \A t \in Task : mode[t] \in 0 .. k.freezes
    BY <1>0, <2>1 DEF Numbered
  <2> QED
    BY <2>1, <2>2
<1> QED
  BY <1>0, <1>1, <1>2, <1>3, <1>4, <1>5 DEF TypeOK, Around

\* A granted freeze is of every task, and its snapshot is what they are.
LEMMA LoopFaithful == LoopInv => ExecFaithful
<1> SUFFICES ASSUME LoopInv, (upgrade = "asked" /\ k.answers[sent.upgrades] = "ok")
                               \/ upgrade = "execed"
             PROVE  /\ IsFrozen(k)
                    /\ \A t \in Task : mode[t] = k.frozen.number
                    /\ k.snapshot = alive /\ k.active = alive
  BY DEF ExecFaithful
<1>1. upgrade # "none" /\ k.answers[sent.upgrades] = "ok"
  BY DEF LoopInv, Sealed
<1>2. /\ Ours(k) /\ k.frozen.waiting = {}
      /\ k.snapshot = alive /\ k.active = alive
  BY <1>1 DEF LoopInv, FInv, Turning, Granted
<1>3. IsFrozen(k) /\ k.frozen.number = k.freezes
  BY <1>2 DEF LoopInv, FInv, Turning, Numbered, Ours
<1>4. \A t \in Task : mode[t] = k.freezes
  BY <1>2, <1>3 DEF LoopInv, FInv, Turning, Frozen
<1> QED
  BY <1>2, <1>3, <1>4

\* Without a quit a freeze is an upgrade's, and its thaw is on its way.
LEMMA LoopUnfrozen == LoopInv => Unfrozen
<1> SUFFICES ASSUME LoopInv, upgrade = "none", queue = <<>>, sent.quits = 0, IsFrozen(k)
             PROVE  FALSE
  BY DEF Unfrozen
<1>1. k.frozen.who # 0
  BY DEF LoopInv, FInv, Turning, Quits
<1>2. Holds(queue, <<"Thaw">>)
  BY <1>1 DEF LoopInv, FInv, Thawing
<1> QED
  BY <1>2 DEF Holds

\* Each step keeps the invariant.
LEMMA LoopAlways == Spec => []LoopInv
  BY InitLoopInv, NextLoopInv, PTL DEF Spec

\* Whatever messages are queued and whatever tasks, saves and upgrades do: as long as
\* an upgrade may exec, the kernel is frozen by that upgrade's freeze, with every task,
\* and the snapshot is what the tasks are; and an upgrade that gave up leaves no freeze.
THEOREM TasksStayFrozen == Spec => []FrozenAsAsked
<1>1. LoopInv => FrozenAsAsked
  BY LoopTypes, LoopFaithful, LoopUnfrozen DEF FrozenAsAsked
<1> QED
  BY <1>1, LoopAlways, PTL

\* A quit saves what the tasks are, all frozen by it, before it stops any: no run that
\* goes on is missing from the file, and each that is over is reported after the save.
THEOREM SavesAreFaithful == Spec => SaveFaithful
<1>1. LoopInv /\ [Next]_vars =>
        [k'.saved /\ ~k.saved =>
           /\ ~k.quitting
           /\ \A t \in Task : mode[t] = k.frozen.number
           /\ alive \subseteq k'.snapshot
           /\ \A t \in k'.snapshot \ alive : <<"Stopped", t>> \in Range(queue)]_vars
  <2>1. LoopInv => queue \in Seq(Message)
    BY DEF LoopInv, FInv, Turning, Shapes
  <2>2. LoopInv => \A msg : Holds(queue, msg) => msg \in Range(queue)
    BY <2>1 DEF Holds, Range
  <2> QED
    BY <2>2, NextLoopInv DEF Saving
<1> QED
  BY <1>1, LoopAlways, PTL DEF Spec, SaveFaithful

\* The loop does not end with a task still active unless it was asked to quit twice.
THEOREM QuitIsGraceful == Spec => []GracefulUnlessRepeated
<1>1. LoopInv => GracefulUnlessRepeated
  BY DEF LoopInv, FInv, Turning, Quits, GracefulUnlessRepeated
<1> QED
  BY <1>1, LoopAlways, PTL

-----------------------------------------------------------------------------
(* The intents in line *)

\* One intent is ahead of another, or at least is not the other.
Prior(m, n, strict) == IF strict THEN m < n ELSE m # n

\* The intents of s come one after the other, and those of s before those of r.
Within(s, strict) ==
  \A i, j \in 1 .. Len(s) :
    i < j /\ s[i][1] = "Intent" /\ s[j][1] = "Intent" => Prior(s[i][2], s[j][2], strict)
Across(s, r, strict) ==
  \A i \in 1 .. Len(s), j \in 1 .. Len(r) :
    s[i][1] = "Intent" /\ r[j][1] = "Intent" => Prior(s[i][2], r[j][2], strict)
Sized(s, n) == \A i \in 1 .. Len(s) : s[i][1] = "Intent" => s[i][2] \in 1 .. n

\* The line l is s and then r.
Joined(l, s, r, strict) ==
  /\ Within(l, strict) <=> Within(s, strict) /\ Within(r, strict) /\ Across(s, r, strict)
  /\ \A u : Across(l, u, strict) <=> Across(s, u, strict) /\ Across(r, u, strict)
  /\ \A u : Across(u, l, strict) <=> Across(u, s, strict) /\ Across(u, r, strict)
  /\ \A n : Sized(l, n) <=> Sized(s, n) /\ Sized(r, n)
  /\ \A m : Holds(l, m) <=> Holds(s, m) \/ Holds(r, m)

\* Of n intents sent each is handled, deferred or waits to be handled, once.
InLine(a, d, w, n, strict) ==
  /\ Within(a, strict) /\ Within(d, strict) /\ Within(w, strict)
  /\ Across(a, d, strict) /\ Across(a, w, strict) /\ Across(d, w, strict)
  /\ Sized(a, n) /\ Sized(d, n) /\ Sized(w, n)
  /\ \A i \in 1 .. n : Holds(a, <<"Intent", i>>) \/ Holds(d, <<"Intent", i>>)
                       \/ Holds(w, <<"Intent", i>>)

Handled(kk) == [i \in 1 .. Len(kk.applied) |-> <<"Intent", kk.applied[i]>>]
Lined(kk, q, n) ==
  InLine(Handled(kk), kk.frozen.deferred, kk.replay \o q, n, ~kk.quitting)

\* Order in two sequences put together is order in each and between them.
LEMMA ConcatOrder ==
  ASSUME NEW s \in Seq(Message), NEW r \in Seq(Message), NEW strict \in BOOLEAN
  PROVE  s \o r \in Seq(Message) /\ Joined(s \o r, s, r, strict)
<1> DEFINE l == s \o r
<1>1. /\ l \in Seq(Message) /\ Len(s) \in Nat /\ Len(r) \in Nat /\ Len(l) = Len(s) + Len(r)
      /\ \A i \in 1 .. Len(l) : \/ i \in 1 .. Len(s) /\ l[i] = s[i]
                                \/ i - Len(s) \in 1 .. Len(r) /\ l[i] = r[i - Len(s)]
      /\ \A i \in 1 .. Len(s) : i \in 1 .. Len(l) /\ l[i] = s[i]
      /\ \A i \in 1 .. Len(r) : i + Len(s) \in 1 .. Len(l) /\ l[i + Len(s)] = r[i]
  BY ConcatFacts
<1> HIDE DEF l
<1>2. Within(l, strict) => Within(s, strict)
  BY <1>1 DEF Within
<1>3. Within(l, strict) => Within(r, strict)
  <2> SUFFICES ASSUME Within(l, strict), NEW i \in 1 .. Len(r), NEW j \in 1 .. Len(r),
                      i < j, r[i][1] = "Intent", r[j][1] = "Intent"
               PROVE  Prior(r[i][2], r[j][2], strict)
    BY DEF Within
  <2>1. /\ i + Len(s) \in 1 .. Len(l) /\ l[i + Len(s)] = r[i]
        /\ j + Len(s) \in 1 .. Len(l) /\ l[j + Len(s)] = r[j]
    BY <1>1
  <2>2. i + Len(s) < j + Len(s)
    BY <1>1
  <2>3. Prior(l[i + Len(s)][2], l[j + Len(s)][2], strict)
    BY <2>1, <2>2 DEF Within
  <2> QED
    BY <2>1, <2>3
<1>4. Within(l, strict) => Across(s, r, strict)
  <2> SUFFICES ASSUME Within(l, strict), NEW i \in 1 .. Len(s), NEW j \in 1 .. Len(r),
                      s[i][1] = "Intent", r[j][1] = "Intent"
               PROVE  Prior(s[i][2], r[j][2], strict)
    BY DEF Across
  <2>1. /\ i \in 1 .. Len(l) /\ l[i] = s[i]
        /\ j + Len(s) \in 1 .. Len(l) /\ l[j + Len(s)] = r[j]
    BY <1>1
  <2>2. i < j + Len(s)
    BY <1>1
  <2>3. Prior(l[i][2], l[j + Len(s)][2], strict)
    BY <2>1, <2>2 DEF Within
  <2> QED
    BY <2>1, <2>3
<1>5. ASSUME Within(s, strict), Within(r, strict), Across(s, r, strict),
             NEW i \in 1 .. Len(l), NEW j \in 1 .. Len(l), i < j,
             l[i][1] = "Intent", l[j][1] = "Intent"
      PROVE  Prior(l[i][2], l[j][2], strict)
  <2>1. CASE j \in 1 .. Len(s) /\ l[j] = s[j]
    <3>1. i \in 1 .. Len(s) /\ l[i] = s[i]
      BY <1>1, <1>5, <2>1
    <3> QED
      BY <1>5, <2>1, <3>1 DEF Within
  <2>2. CASE j - Len(s) \in 1 .. Len(r) /\ l[j] = r[j - Len(s)]
    <3>1. CASE i \in 1 .. Len(s) /\ l[i] = s[i]
      BY <1>5, <2>2, <3>1 DEF Across
    <3>2. CASE i - Len(s) \in 1 .. Len(r) /\ l[i] = r[i - Len(s)]
      <4>1. i - Len(s) < j - Len(s)
        BY <1>1, <1>5
      <4> QED
        BY <1>5, <2>2, <3>2, <4>1 DEF Within
    <3> QED
      BY <1>1, <3>1, <3>2
  <2> QED
    BY <1>1, <2>1, <2>2
<1>6. \A u : Across(l, u, strict) <=> Across(s, u, strict) /\ Across(r, u, strict)
  <2> TAKE u
  <2>1. Across(l, u, strict) => Across(s, u, strict)
    BY <1>1 DEF Across
  <2>2. ASSUME Across(l, u, strict), NEW i \in 1 .. Len(r), NEW j \in 1 .. Len(u),
               r[i][1] = "Intent", u[j][1] = "Intent"
        PROVE  Prior(r[i][2], u[j][2], strict)
    <3>1. i + Len(s) \in 1 .. Len(l) /\ l[i + Len(s)] = r[i]
      BY <1>1
    <3>2. Prior(l[i + Len(s)][2], u[j][2], strict)
      BY <2>2, <3>1 DEF Across
    <3> QED
      BY <3>1, <3>2
  <2>3. ASSUME Across(s, u, strict), Across(r, u, strict),
               NEW i \in 1 .. Len(l), NEW j \in 1 .. Len(u),
               l[i][1] = "Intent", u[j][1] = "Intent"
        PROVE  Prior(l[i][2], u[j][2], strict)
    <3>1. CASE i \in 1 .. Len(s) /\ l[i] = s[i]
      BY <2>3, <3>1 DEF Across
    <3>2. CASE i - Len(s) \in 1 .. Len(r) /\ l[i] = r[i - Len(s)]
      BY <2>3, <3>2 DEF Across
    <3> QED
      BY <1>1, <3>1, <3>2
  <2>4. Across(l, u, strict) => Across(r, u, strict)
    BY <2>2 DEF Across
  <2>5. Across(s, u, strict) /\ Across(r, u, strict) => Across(l, u, strict)
    BY <2>3 DEF Across
  <2> QED
    BY <2>1, <2>4, <2>5
<1>7. \A u : Across(u, l, strict) <=> Across(u, s, strict) /\ Across(u, r, strict)
  <2> TAKE u
  <2>1. Across(u, l, strict) => Across(u, s, strict)
    BY <1>1 DEF Across
  <2>2. ASSUME Across(u, l, strict), NEW i \in 1 .. Len(u), NEW j \in 1 .. Len(r),
               u[i][1] = "Intent", r[j][1] = "Intent"
        PROVE  Prior(u[i][2], r[j][2], strict)
    <3>1. j + Len(s) \in 1 .. Len(l) /\ l[j + Len(s)] = r[j]
      BY <1>1
    <3>2. Prior(u[i][2], l[j + Len(s)][2], strict)
      BY <2>2, <3>1 DEF Across
    <3> QED
      BY <3>1, <3>2
  <2>3. ASSUME Across(u, s, strict), Across(u, r, strict),
               NEW i \in 1 .. Len(u), NEW j \in 1 .. Len(l),
               u[i][1] = "Intent", l[j][1] = "Intent"
        PROVE  Prior(u[i][2], l[j][2], strict)
    <3>1. CASE j \in 1 .. Len(s) /\ l[j] = s[j]
      BY <2>3, <3>1 DEF Across
    <3>2. CASE j - Len(s) \in 1 .. Len(r) /\ l[j] = r[j - Len(s)]
      BY <2>3, <3>2 DEF Across
    <3> QED
      BY <1>1, <3>1, <3>2
  <2>4. Across(u, l, strict) => Across(u, r, strict)
    BY <2>2 DEF Across
  <2>5. Across(u, s, strict) /\ Across(u, r, strict) => Across(u, l, strict)
    BY <2>3 DEF Across
  <2> QED
    BY <2>1, <2>4, <2>5
<1>8. \A n : Sized(l, n) <=> Sized(s, n) /\ Sized(r, n)
  <2> TAKE n
  <2>1. ASSUME Sized(l, n), NEW i \in 1 .. Len(r), r[i][1] = "Intent"
        PROVE  r[i][2] \in 1 .. n
    <3>1. i + Len(s) \in 1 .. Len(l) /\ l[i + Len(s)] = r[i]
      BY <1>1
    <3> QED
      BY <2>1, <3>1 DEF Sized
  <2>2. Sized(l, n) => Sized(s, n)
    BY <1>1 DEF Sized
  <2>3. Sized(s, n) /\ Sized(r, n) => Sized(l, n)
    BY <1>1 DEF Sized
  <2> QED
    BY <2>1, <2>2, <2>3 DEF Sized
<1>9. \A m : Holds(l, m) <=> Holds(s, m) \/ Holds(r, m)
  <2> TAKE m
  <2>1. ASSUME NEW i \in 1 .. Len(r), r[i] = m
        PROVE  Holds(l, m)
    <3>1. i + Len(s) \in 1 .. Len(l) /\ l[i + Len(s)] = r[i]
      BY <1>1
    <3> QED
      BY <2>1, <3>1 DEF Holds
  <2>2. Holds(s, m) => Holds(l, m)
    BY <1>1 DEF Holds
  <2>3. Holds(l, m) => Holds(s, m) \/ Holds(r, m)
    BY <1>1 DEF Holds
  <2> QED
    BY <2>1, <2>2, <2>3 DEF Holds
<1>10. Within(s, strict) /\ Within(r, strict) /\ Across(s, r, strict) => Within(l, strict)
  BY <1>5 DEF Within
<1> QED
  BY <1>1, <1>2, <1>3, <1>4, <1>6, <1>7, <1>8, <1>9, <1>10 DEF l, Joined

\* One message is in order, and before or after anything if it is no intent.
LEMMA OneInOrder ==
  ASSUME NEW m \in Message, NEW strict \in BOOLEAN
  PROVE  /\ <<m>> \in Seq(Message) /\ Within(<<m>>, strict)
         /\ \A x : Holds(<<m>>, x) <=> x = m
         /\ \A n : Sized(<<m>>, n) <=> (m[1] = "Intent" => m[2] \in 1 .. n)
         /\ m[1] # "Intent" => \A u : Across(<<m>>, u, strict) /\ Across(u, <<m>>, strict)
         /\ \A u : Across(<<m>>, u, strict) <=>
              \A j \in 1 .. Len(u) : m[1] = "Intent" /\ u[j][1] = "Intent" => Prior(m[2], u[j][2], strict)
         /\ \A u : Across(u, <<m>>, strict) <=>
              \A j \in 1 .. Len(u) : m[1] = "Intent" /\ u[j][1] = "Intent" => Prior(u[j][2], m[2], strict)
<1>1. <<m>> \in Seq(Message) /\ Len(<<m>>) = 1 /\ <<m>>[1] = m
  OBVIOUS
<1>2. Within(<<m>>, strict)
  BY <1>1 DEF Within
<1>3. \A x : Holds(<<m>>, x) <=> x = m
  BY <1>1 DEF Holds
<1>4. \A n : Sized(<<m>>, n) <=> (m[1] = "Intent" => m[2] \in 1 .. n)
  BY <1>1 DEF Sized
<1>5. m[1] # "Intent" => \A u : Across(<<m>>, u, strict) /\ Across(u, <<m>>, strict)
  BY <1>1 DEF Across
<1>6. \A u : Across(<<m>>, u, strict) <=>
        \A j \in 1 .. Len(u) : m[1] = "Intent" /\ u[j][1] = "Intent" => Prior(m[2], u[j][2], strict)
  BY <1>1 DEF Across
<1>7. \A u : Across(u, <<m>>, strict) <=>
        \A j \in 1 .. Len(u) : m[1] = "Intent" /\ u[j][1] = "Intent" => Prior(u[j][2], m[2], strict)
  BY <1>1 DEF Across
<1> QED
  BY <1>1, <1>2, <1>3, <1>4, <1>5, <1>6, <1>7

\* Nothing is in order.
LEMMA NoneInOrder ==
  ASSUME NEW strict
  PROVE  /\ Within(<<>>, strict) /\ \A n : Sized(<<>>, n)
         /\ \A u : Across(<<>>, u, strict) /\ Across(u, <<>>, strict)
         /\ \A m : ~Holds(<<>>, m)
BY DEF Within, Sized, Across, Holds

\* A sequence is its head and its tail, and one with a message more is it and the message.
LEMMA Ends ==
  ASSUME NEW s \in Seq(Message)
  PROVE  /\ s # <<>> => s = <<Head(s)>> \o Tail(s) /\ Head(s) \in Message /\ Tail(s) \in Seq(Message)
         /\ \A m \in Message : Append(s, m) = s \o <<m>>
OBVIOUS

\* The head of what is to be handled may be dropped if it is no intent, ...
LEMMA Dropped ==
  ASSUME NEW a \in Seq(Message), NEW d \in Seq(Message), NEW w \in Seq(Message),
         NEW n \in Nat, NEW strict \in BOOLEAN, InLine(a, d, w, n, strict),
         w # <<>>, Head(w)[1] # "Intent"
  PROVE  InLine(a, d, Tail(w), n, strict)
<1> DEFINE h == Head(w)
           t == Tail(w)
<1>1. w = <<h>> \o t /\ h \in Message /\ t \in Seq(Message) /\ <<h>> \in Seq(Message)
  BY Ends
<1> HIDE DEF h, t
<1>2. h[1] # "Intent"
  BY DEF h
<1>3. /\ Within(w, strict) => Within(t, strict)
      /\ \A u : Across(u, w, strict) => Across(u, t, strict)
      /\ Sized(w, n) => Sized(t, n)
      /\ \A m : Holds(w, m) <=> Holds(<<h>>, m) \/ Holds(t, m)
  <2>1. Joined(w, <<h>>, t, strict)
    BY <1>1, ConcatOrder
  <2> QED
    BY <2>1 DEF Joined
<1>4. \A i : ~Holds(<<h>>, <<"Intent", i>>)
  <2>1. \A m : Holds(<<h>>, m) <=> m = h
    BY <1>1, OneInOrder
  <2> QED
    BY <1>2, <2>1
<1> QED
  BY <1>3, <1>4 DEF InLine, t

\* ... or be deferred after what is, ...
LEMMA DeferredNext ==
  ASSUME NEW a \in Seq(Message), NEW d \in Seq(Message), NEW w \in Seq(Message),
         NEW n \in Nat, NEW strict \in BOOLEAN, InLine(a, d, w, n, strict), w # <<>>
  PROVE  InLine(a, Append(d, Head(w)), Tail(w), n, strict)
<1> DEFINE h == Head(w)
           t == Tail(w)
           e == Append(d, h)
<1>1. /\ w = <<h>> \o t /\ h \in Message /\ t \in Seq(Message) /\ <<h>> \in Seq(Message)
      /\ e = d \o <<h>>
  BY Ends
<1> HIDE DEF h, t, e
<1>2. /\ Within(w, strict) => Within(t, strict) /\ Across(<<h>>, t, strict)
      /\ \A u : Across(u, w, strict) => Across(u, <<h>>, strict) /\ Across(u, t, strict)
      /\ Sized(w, n) => Sized(<<h>>, n) /\ Sized(t, n)
      /\ \A m : Holds(w, m) <=> Holds(<<h>>, m) \/ Holds(t, m)
  <2>1. Joined(w, <<h>>, t, strict)
    BY <1>1, ConcatOrder
  <2> QED
    BY <2>1 DEF Joined
<1>3. /\ Within(d, strict) /\ Within(<<h>>, strict) /\ Across(d, <<h>>, strict) => Within(e, strict)
      /\ \A u : Across(u, d, strict) /\ Across(u, <<h>>, strict) => Across(u, e, strict)
      /\ \A u : Across(d, u, strict) /\ Across(<<h>>, u, strict) => Across(e, u, strict)
      /\ Sized(d, n) /\ Sized(<<h>>, n) => Sized(e, n)
      /\ \A m : Holds(e, m) <=> Holds(d, m) \/ Holds(<<h>>, m)
  <2>1. Joined(e, d, <<h>>, strict)
    BY <1>1, ConcatOrder
  <2> QED
    BY <2>1 DEF Joined
<1>4. Within(<<h>>, strict)
  BY <1>1, OneInOrder
<1>5. /\ Within(a, strict) /\ Within(e, strict) /\ Within(t, strict)
      /\ Across(a, e, strict) /\ Across(a, t, strict) /\ Across(e, t, strict)
      /\ Sized(a, n) /\ Sized(e, n) /\ Sized(t, n)
  BY <1>2, <1>3, <1>4 DEF InLine
<1>6. \A i \in 1 .. n : Holds(a, <<"Intent", i>>) \/ Holds(e, <<"Intent", i>>)
                        \/ Holds(t, <<"Intent", i>>)
  BY <1>2, <1>3 DEF InLine
<1> QED
  BY <1>5, <1>6 DEF InLine, e, h, t

\* ... or be handled when nothing is.
LEMMA HandledNext ==
  ASSUME NEW a \in Seq(Message), NEW w \in Seq(Message),
         NEW n \in Nat, NEW strict \in BOOLEAN, InLine(a, <<>>, w, n, strict), w # <<>>
  PROVE  InLine(Append(a, Head(w)), <<>>, Tail(w), n, strict)
<1> DEFINE h == Head(w)
           t == Tail(w)
           b == Append(a, h)
<1>1. /\ w = <<h>> \o t /\ h \in Message /\ t \in Seq(Message) /\ <<h>> \in Seq(Message)
      /\ b = a \o <<h>>
  BY Ends
<1> HIDE DEF h, t, b
<1>2. /\ Within(w, strict) => Within(t, strict) /\ Across(<<h>>, t, strict)
      /\ \A u : Across(u, w, strict) => Across(u, <<h>>, strict) /\ Across(u, t, strict)
      /\ Sized(w, n) => Sized(<<h>>, n) /\ Sized(t, n)
      /\ \A m : Holds(w, m) <=> Holds(<<h>>, m) \/ Holds(t, m)
  <2>1. Joined(w, <<h>>, t, strict)
    BY <1>1, ConcatOrder
  <2> QED
    BY <2>1 DEF Joined
<1>3. /\ Within(a, strict) /\ Within(<<h>>, strict) /\ Across(a, <<h>>, strict) => Within(b, strict)
      /\ \A u : Across(a, u, strict) /\ Across(<<h>>, u, strict) => Across(b, u, strict)
      /\ Sized(a, n) /\ Sized(<<h>>, n) => Sized(b, n)
      /\ \A m : Holds(b, m) <=> Holds(a, m) \/ Holds(<<h>>, m)
  <2>1. Joined(b, a, <<h>>, strict)
    BY <1>1, ConcatOrder
  <2> QED
    BY <2>1 DEF Joined
<1>4. Within(<<h>>, strict)
  BY <1>1, OneInOrder
<1>5. /\ Within(b, strict) /\ Within(t, strict) /\ Across(b, t, strict)
      /\ Sized(b, n) /\ Sized(t, n)
  BY <1>2, <1>3, <1>4 DEF InLine
<1>6. \A i \in 1 .. n : Holds(b, <<"Intent", i>>) \/ Holds(t, <<"Intent", i>>)
  BY <1>2, <1>3, NoneInOrder DEF InLine
<1> QED
  BY <1>5, <1>6, NoneInOrder DEF InLine, b, h, t

\* A thaw puts what was deferred before all that comes, unless the quit that it is
\* for was itself handed back by a thaw.
LEMMA HandedBack ==
  ASSUME NEW a \in Seq(Message), NEW d \in Seq(Message), NEW r \in Seq(Message),
         NEW q \in Seq(Message), NEW n \in Nat, NEW strict \in BOOLEAN,
         InLine(a, d, r \o q, n, strict), r = <<>> \/ ~strict
  PROVE  InLine(a, <<>>, (r \o d) \o q, n, strict)
<1> DEFINE w == r \o q
           v == r \o d
           z == v \o q
<1>1. /\ Within(w, strict) <=> Within(r, strict) /\ Within(q, strict) /\ Across(r, q, strict)
      /\ \A u : Across(u, w, strict) <=> Across(u, r, strict) /\ Across(u, q, strict)
      /\ Sized(w, n) <=> Sized(r, n) /\ Sized(q, n)
      /\ \A m : Holds(w, m) <=> Holds(r, m) \/ Holds(q, m)
  <2>1. Joined(w, r, q, strict)
    BY ConcatOrder
  <2> QED
    BY <2>1 DEF Joined
<1>2. /\ v \in Seq(Message)
      /\ Within(v, strict) <=> Within(r, strict) /\ Within(d, strict) /\ Across(r, d, strict)
      /\ \A u : Across(u, v, strict) <=> Across(u, r, strict) /\ Across(u, d, strict)
      /\ \A u : Across(v, u, strict) <=> Across(r, u, strict) /\ Across(d, u, strict)
      /\ Sized(v, n) <=> Sized(r, n) /\ Sized(d, n)
      /\ \A m : Holds(v, m) <=> Holds(r, m) \/ Holds(d, m)
  <2>1. Joined(v, r, d, strict)
    BY ConcatOrder
  <2> QED
    BY <2>1 DEF Joined
<1> HIDE DEF v
<1>3. /\ Within(z, strict) <=> Within(v, strict) /\ Within(q, strict) /\ Across(v, q, strict)
      /\ \A u : Across(u, z, strict) <=> Across(u, v, strict) /\ Across(u, q, strict)
      /\ Sized(z, n) <=> Sized(v, n) /\ Sized(q, n)
      /\ \A m : Holds(z, m) <=> Holds(v, m) \/ Holds(q, m)
  <2>1. Joined(z, v, q, strict)
    BY <1>2, ConcatOrder
  <2> QED
    BY <2>1 DEF Joined
<1>4. Across(r, d, strict)
  <2>1. CASE r = <<>>
    BY <2>1, NoneInOrder
  <2>2. CASE ~strict
    <3>1. Across(d, r, strict)
      BY <1>1 DEF InLine
    <3> QED
      BY <2>2, <3>1 DEF Across, Prior
  <2> QED
    BY <2>1, <2>2
<1> HIDE DEF w, z
<1>5. InLine(a, d, w, n, strict)
  BY DEF w
<1>6. /\ Within(a, strict) /\ Within(z, strict) /\ Across(a, z, strict)
      /\ Sized(a, n) /\ Sized(z, n)
  BY <1>1, <1>2, <1>3, <1>4, <1>5 DEF InLine
<1>7. \A i \in 1 .. n : Holds(a, <<"Intent", i>>) \/ Holds(z, <<"Intent", i>>)
  BY <1>1, <1>2, <1>3, <1>5 DEF InLine
<1> QED
  BY <1>6, <1>7, NoneInOrder DEF InLine, z, v

\* What is sent comes last, an intent with the next number.
LEMMA SentLast ==
  ASSUME NEW a \in Seq(Message), NEW d \in Seq(Message), NEW w \in Seq(Message),
         NEW n \in Nat, NEW strict \in BOOLEAN, InLine(a, d, w, n, strict),
         NEW m \in Message
  PROVE  /\ m[1] # "Intent" => InLine(a, d, Append(w, m), n, strict)
         /\ m = <<"Intent", n + 1>> => InLine(a, d, Append(w, m), n + 1, strict)
<1> DEFINE z == Append(w, m)
<1>1. z = w \o <<m>> /\ <<m>> \in Seq(Message)
  BY Ends, OneInOrder
<1> HIDE DEF z
<1>2. /\ Within(z, strict) <=> Within(w, strict) /\ Within(<<m>>, strict) /\ Across(w, <<m>>, strict)
      /\ \A u : Across(u, z, strict) <=> Across(u, w, strict) /\ Across(u, <<m>>, strict)
      /\ \A i : Sized(z, i) <=> Sized(w, i) /\ Sized(<<m>>, i)
      /\ \A i : Holds(z, i) <=> Holds(w, i) \/ Holds(<<m>>, i)
  <2>1. Joined(z, w, <<m>>, strict)
    BY <1>1, ConcatOrder
  <2> QED
    BY <2>1 DEF Joined
<1>3. /\ Within(<<m>>, strict)
      /\ \A x : Holds(<<m>>, x) <=> x = m
      /\ \A i : Sized(<<m>>, i) <=> (m[1] = "Intent" => m[2] \in 1 .. i)
  BY OneInOrder
<1>4. CASE m[1] # "Intent"
  <2>1. \A u : Across(u, <<m>>, strict)
    BY <1>4, OneInOrder
  <2>2. /\ Within(z, strict) /\ Across(a, z, strict) /\ Across(d, z, strict) /\ Sized(z, n)
    BY <1>2, <1>3, <1>4, <2>1 DEF InLine
  <2>3. m # <<"Intent", n + 1>>
    BY <1>4
  <2> QED
    BY <1>2, <2>2, <2>3 DEF InLine, z
<1>5. CASE m = <<"Intent", n + 1>>
  <2>1. m[1] = "Intent" /\ m[2] = n + 1
    BY <1>5
  <2>2. ASSUME NEW u \in Seq(Message), Sized(u, n)
        PROVE  Across(u, <<m>>, strict) /\ Sized(u, n + 1)
    <3>1. \A j \in 1 .. Len(u) : u[j][1] = "Intent" =>
            Prior(u[j][2], m[2], strict) /\ u[j][2] \in 1 .. n + 1
      BY <2>1, <2>2 DEF Sized, Prior
    <3> QED
      BY <3>1, OneInOrder DEF Sized
  <2>3. Sized(<<m>>, n + 1)
    BY <1>3, <2>1
  <2>4. /\ Within(z, strict) /\ Across(a, z, strict) /\ Across(d, z, strict)
        /\ Sized(a, n + 1) /\ Sized(d, n + 1) /\ Sized(z, n + 1)
    BY <1>2, <1>3, <2>2, <2>3 DEF InLine
  <2>5. ASSUME NEW i \in 1 .. n + 1
        PROVE  Holds(a, <<"Intent", i>>) \/ Holds(d, <<"Intent", i>>) \/ Holds(z, <<"Intent", i>>)
    <3>1. i \in 1 .. n \/ i = n + 1
      OBVIOUS
    <3>2. CASE i \in 1 .. n
      BY <1>2, <3>2 DEF InLine
    <3>3. CASE i = n + 1
      BY <1>2, <1>3, <1>5, <3>3
    <3> QED
      BY <3>1, <3>2, <3>3
  <2> QED
    BY <2>1, <2>4, <2>5 DEF InLine, z
<1> QED
  BY <1>4, <1>5

\* Who is ahead of another is not the other.
LEMMA Loosened ==
  ASSUME NEW a \in Seq(Message), NEW d \in Seq(Message), NEW w \in Seq(Message),
         NEW n \in Nat, NEW strict \in BOOLEAN, NEW x \in BOOLEAN,
         InLine(a, d, w, n, strict), x => strict
  PROVE  InLine(a, d, w, n, x)
<1>1. ASSUME NEW s, Sized(s, n), Within(s, strict)
      PROVE  Within(s, x)
  BY <1>1 DEF Sized, Within, Prior
<1>2. ASSUME NEW s, NEW r, Sized(s, n), Sized(r, n), Across(s, r, strict)
      PROVE  Across(s, r, x)
  BY <1>2 DEF Sized, Across, Prior
<1> QED
  BY <1>1, <1>2 DEF InLine

-----------------------------------------------------------------------------
(* What a turn does to the line *)

\* A step of the kernel leaves what is handled, deferred and handed back as it is,
\* or hands back all that was deferred.
Stays(kk, h) ==
  h.applied = kk.applied /\ h.frozen.deferred = kk.frozen.deferred /\ h.replay = kk.replay
HandsBack(kk, h) ==
  /\ h.applied = kk.applied /\ h.frozen.deferred = <<>>
  /\ h.replay = kk.replay \o kk.frozen.deferred

\* A thaw hands back, of a kernel that is not frozen nothing.
LEMMA ThawHandsBack ==
  ASSUME NEW kk \in Loop, Around
  PROVE  LET th == thaw(kk) IN
         th \in Loop /\ ~IsFrozen(th) /\ HandsBack(kk, th) /\ th.quitting = kk.quitting
<1> DEFINE th == thaw(kk)
           d == kk.frozen.deferred
           back == kk.replay \o d
<1>1. kk.replay \in Seq(Deferrable) /\ d \in Seq(Deferrable) /\ back \in Seq(Deferrable)
  BY ConcatFacts DEF Loop, Frost
<1>2. CASE ~IsFrozen(kk)
  <2>1. th = kk /\ d = <<>>
    BY <1>2, NoFreezeShape DEF thaw, IsFrozen
  <2>2. back = kk.replay
    BY <1>1, <2>1
  <2> QED
    BY <1>2, <2>1, <2>2 DEF HandsBack
<1>3. CASE IsFrozen(kk)
  <2> DEFINE told == Broadcast(kk, 0)
  <2>1. /\ told \in Loop /\ told.replay = kk.replay /\ told.applied = kk.applied
        /\ told.quitting = kk.quitting
    BY Told
  <2>2. th = [told EXCEPT !.frozen = NoFreeze, !.replay = @ \o d]
    BY <1>3 DEF thaw
  <2> HIDE DEF told, d, th
  <2>3. th = [told EXCEPT !.frozen = NoFreeze, !.replay = back]
    BY <2>1, <2>2
  <2>4. NoFreeze \in Frost /\ NoFreeze.deferred = <<>>
    BY NoFreezeShape
  <2> HIDE DEF back
  <2>5. /\ th \in Loop /\ th.frozen = NoFreeze /\ th.replay = back
        /\ th.applied = kk.applied /\ th.quitting = kk.quitting
    BY <1>1, <2>1, <2>3, <2>4 DEF Loop
  <2> QED
    BY <2>4, <2>5 DEF HandsBack, IsFrozen, back, d, th
<1> QED
  BY <1>2, <1>3

\* A freeze begins with nothing deferred.
LEMMA BeginStays ==
  ASSUME NEW kk \in Loop, Around, ~IsFrozen(kk), NEW reply \in {"Rpc", "Quit"}, NEW u \in Nat
  PROVE  LET be == BeginFreezeFor(kk, reply, u) IN
         be \in Loop /\ Stays(kk, be) /\ be.quitting = kk.quitting /\ be.freezes \in Nat
<1> DEFINE n == kk.freezes + 1
           first == [kk EXCEPT !.freezes = n]
           told == Broadcast(first, n)
           frost == [number |-> n, reply |-> IF dead = {} THEN reply ELSE "none", who |-> u,
                     waiting |-> Task, deferred |-> <<>>]
           ans == IF reply = "Rpc" /\ dead # {} THEN [told.answers EXCEPT ![u] = "err"]
                  ELSE told.answers
           be == BeginFreezeFor(kk, reply, u)
<1>1. n \in Nat
  BY DEF Loop
<1>2. /\ first \in Loop /\ first.replay = kk.replay /\ first.applied = kk.applied
      /\ first.quitting = kk.quitting
  BY <1>1 DEF Loop
<1>3. be = [told EXCEPT !.frozen = frost, !.answers = ans]
  BY DEF BeginFreezeFor
<1>4. frost \in Frost /\ frost.deferred = <<>>
  BY <1>1 DEF Frost
<1> HIDE DEF first, n
<1>5. /\ told \in Loop /\ told.replay = kk.replay /\ told.applied = kk.applied
      /\ told.quitting = kk.quitting
  BY <1>1, <1>2, Told
<1> HIDE DEF told, frost
<1>6. ans \in [1 .. MaxUpgrades -> {"none", "ok", "err"}]
  <2>1. told.answers \in [1 .. MaxUpgrades -> {"none", "ok", "err"}]
    BY <1>5 DEF Loop
  <2> QED
    BY <2>1
<1> HIDE DEF ans, be
<1>7. /\ be \in Loop /\ be.frozen = frost /\ be.replay = kk.replay
      /\ be.applied = kk.applied /\ be.quitting = kk.quitting
  BY <1>3, <1>4, <1>5, <1>6 DEF Loop
<1>8. kk.frozen.deferred = <<>>
  BY NoFreezeShape DEF IsFrozen
<1> QED
  BY <1>4, <1>7, <1>8 DEF Stays, be, Loop

\* A quit that begins, or is repeated, leaves all in its place.
LEMMA QuitStays ==
  ASSUME NEW kk \in Loop
  PROVE  LET qu == begin_quit(kk) IN
         qu \in Loop /\ Stays(kk, qu) /\ qu.frozen = kk.frozen /\ qu.quitting
<1> DEFINE qu == begin_quit(kk)
<1>1. CASE kk.quitting
  <2>1. qu = [kk EXCEPT !.over = TRUE]
    BY <1>1 DEF begin_quit
  <2> HIDE DEF qu
  <2>2. qu \in Loop /\ qu.frozen = kk.frozen /\ qu.replay = kk.replay
        /\ qu.applied = kk.applied /\ qu.quitting = kk.quitting
    BY <2>1 DEF Loop
  <2> QED
    BY <1>1, <2>2 DEF Stays, qu
<1>2. CASE ~kk.quitting
  <2>1. qu = [kk EXCEPT !.quitting = TRUE]
    BY <1>2 DEF begin_quit
  <2> HIDE DEF qu
  <2>2. qu \in Loop /\ qu.frozen = kk.frozen /\ qu.replay = kk.replay
        /\ qu.applied = kk.applied /\ qu.quitting
    BY <2>1 DEF Loop
  <2> QED
    BY <2>2 DEF Stays, qu
<1> QED
  BY <1>1, <1>2

\* Thawed, and then quitting.
LEMMA QuitHandsBack ==
  ASSUME NEW kk \in Loop, Around
  PROVE  LET qu == begin_quit(thaw(kk)) IN
         qu \in Loop /\ HandsBack(kk, qu) /\ ~IsFrozen(qu) /\ qu.quitting
<1> DEFINE th == thaw(kk)
           qu == begin_quit(th)
<1>1. th \in Loop /\ ~IsFrozen(th) /\ HandsBack(kk, th)
  BY ThawHandsBack
<1> HIDE DEF th
<1>2. qu \in Loop /\ Stays(th, qu) /\ qu.frozen = th.frozen /\ qu.quitting
  BY <1>1, QuitStays
<1> HIDE DEF qu
<1>3. HandsBack(kk, qu) /\ ~IsFrozen(qu)
  BY <1>1, <1>2 DEF HandsBack, Stays, IsFrozen
<1> QED
  BY <1>2, <1>3 DEF qu, th

\* What a message that is no intent does when it is handled.
LEMMA HandleMoves ==
  ASSUME NEW kk \in Loop, Around, NEW msg \in Message, msg[1] # "Intent",
         msg[1] = "Quit" => ~IsFrozen(kk) \/ (freezing_for_quit(kk) /\ ~msg[2])
  PROVE  LET h == Handle(kk, msg) IN
         /\ h \in Loop /\ (kk.quitting => h.quitting)
         /\ \/ Stays(kk, h)
            \/ HandsBack(kk, h) /\ ~IsFrozen(h) /\ (msg[1] = "Quit" => h.quitting)
<1> DEFINE h == Handle(kk, msg)
<1>1. Stays(kk, kk)
  BY DEF Stays
<1>2. CASE msg[1] = "Quit"
  <2>1. h = quit(kk, msg[2]) /\ msg[2] \in BOOLEAN
    BY <1>2, Kinds DEF Handle
  <2>2. CASE msg[2] /\ HasSave /\ ~kk.quitting
    <3> DEFINE be == BeginFreezeFor(kk, "Quit", 0)
    <3>1. be \in Loop /\ Stays(kk, be) /\ be.quitting = kk.quitting /\ be.freezes \in Nat
      BY <1>2, <2>2, BeginStays
    <3>2. h = [be EXCEPT !.timers = @ \cup {be.freezes}]
      BY <2>1, <2>2 DEF quit
    <3> HIDE DEF be, h
    <3>3. /\ h \in Loop /\ h.frozen = be.frozen /\ h.replay = be.replay
          /\ h.applied = be.applied /\ h.quitting = be.quitting
      BY <3>1, <3>2 DEF Loop
    <3> QED
      BY <3>1, <3>3 DEF Stays, h
  <2>3. CASE ~(msg[2] /\ HasSave /\ ~kk.quitting) /\ freezing_for_quit(kk)
    <3>1. h = begin_quit(thaw(kk))
      BY <2>1, <2>3 DEF quit
    <3> QED
      BY <3>1, QuitHandsBack
  <2>4. CASE ~(msg[2] /\ HasSave /\ ~kk.quitting) /\ ~freezing_for_quit(kk)
    <3>1. h = begin_quit(kk)
      BY <2>1, <2>4 DEF quit
    <3> QED
      BY <3>1, QuitStays
  <2> QED
    BY <2>2, <2>3, <2>4
<1>3. CASE msg[1] = "Stopped"
  <2>1. h = [kk EXCEPT !.active = @ \ {msg[2]}]
    BY <1>3 DEF Handle
  <2> HIDE DEF h
  <2>2. /\ h \in Loop /\ h.frozen = kk.frozen /\ h.replay = kk.replay
        /\ h.applied = kk.applied /\ h.quitting = kk.quitting
    BY <2>1 DEF Loop
  <2> QED
    BY <2>2 DEF Stays, h
<1>4. CASE msg[1] = "Freeze"
  <2>1. h = begin_freeze(kk, msg[2]) /\ msg[2] \in Nat
    BY <1>4, Kinds, FreezeAssumption DEF Handle
  <2>2. CASE IsFrozen(kk) \/ kk.quitting
    <3>1. h = [kk EXCEPT !.answers[msg[2]] = "err"]
      BY <2>1, <2>2 DEF begin_freeze
    <3> HIDE DEF h
    <3>2. /\ h \in Loop /\ h.frozen = kk.frozen /\ h.replay = kk.replay
          /\ h.applied = kk.applied /\ h.quitting = kk.quitting
      BY <3>1 DEF Loop
    <3> QED
      BY <3>2 DEF Stays, h
  <2>3. CASE ~IsFrozen(kk) /\ ~kk.quitting
    <3>1. h = BeginFreezeFor(kk, "Rpc", msg[2])
      BY <2>1, <2>3 DEF begin_freeze
    <3> QED
      BY <2>1, <2>3, <3>1, BeginStays
  <2> QED
    BY <2>2, <2>3
<1>5. CASE msg[1] = "Frozen"
  <2>1. h = on_task_frozen(kk, msg[2], msg[3])
    BY <1>5 DEF Handle
  <2>2. CASE IsFrozen(kk) /\ kk.frozen.number = msg[3]
    <3> DEFINE fr == [kk.frozen EXCEPT !.waiting = @ \ {msg[2]}]
    <3>1. h = [kk EXCEPT !.frozen = fr]
      BY <2>1, <2>2 DEF on_task_frozen, Loop
    <3>2. fr \in Frost /\ fr.deferred = kk.frozen.deferred
      BY DEF Loop, Frost
    <3> HIDE DEF fr, h
    <3>3. /\ h \in Loop /\ h.frozen = fr /\ h.replay = kk.replay
          /\ h.applied = kk.applied /\ h.quitting = kk.quitting
      BY <3>1, <3>2 DEF Loop
    <3> QED
      BY <3>2, <3>3 DEF Stays, h
  <2>3. CASE ~(IsFrozen(kk) /\ kk.frozen.number = msg[3])
    BY <1>1, <2>1, <2>3 DEF on_task_frozen
  <2> QED
    BY <2>2, <2>3
<1>6. CASE msg[1] = "FreezeTimeout"
  <2>1. h = on_freeze_timeout(kk, msg[2])
    BY <1>6 DEF Handle
  <2>2. h = kk \/ h = begin_quit(thaw(kk))
    BY <2>1 DEF on_freeze_timeout
  <2> HIDE DEF h
  <2>3. CASE h = begin_quit(thaw(kk))
    BY <2>3, QuitHandsBack DEF h
  <2> QED
    BY <1>1, <2>2, <2>3 DEF h
<1>7. CASE msg[1] = "Thaw"
  <2>1. h = thaw(kk)
    BY <1>7 DEF Handle
  <2> QED
    BY <1>7, <2>1, ThawHandsBack
<1> QED
  BY <1>2, <1>3, <1>4, <1>5, <1>6, <1>7, Kinds

\* A complete freeze is answered, and one for a quit is over.
LEMMA FinishMoves ==
  ASSUME NEW kk \in Loop, Around, NEW saveOk \in BOOLEAN
  PROVE  LET fin == finish_freeze(kk, saveOk) IN
         /\ fin \in Loop /\ (kk.quitting => fin.quitting)
         /\ Stays(kk, fin) \/ (IsFrozen(kk) /\ HandsBack(kk, fin) /\ fin.quitting)
         /\ ~IsFrozen(kk) => fin = kk
<1> DEFINE fin == finish_freeze(kk, saveOk)
           done == [kk EXCEPT !.frozen.reply = "none", !.snapshot = kk.active]
           fr == [kk.frozen EXCEPT !.reply = "none"]
<1>1. fr \in Frost /\ fr.deferred = kk.frozen.deferred
  BY DEF Loop, Frost
<1>2. done = [kk EXCEPT !.frozen = fr, !.snapshot = kk.active]
  BY DEF Loop
<1> HIDE DEF done, fr
<1>3. /\ done \in Loop /\ done.frozen = fr /\ done.replay = kk.replay
      /\ done.applied = kk.applied /\ done.quitting = kk.quitting
  BY <1>1, <1>2 DEF Loop
<1>4. CASE ~IsFrozen(kk) \/ kk.frozen.waiting # {} \/ kk.frozen.reply = "none"
  <2>1. fin = kk
    BY <1>4 DEF finish_freeze
  <2> QED
    BY <2>1 DEF Stays
<1>5. CASE IsFrozen(kk) /\ kk.frozen.waiting = {} /\ kk.frozen.reply = "Quit"
  <2> DEFINE saved == [done EXCEPT !.saved = saveOk]
  <2>1. fin = begin_quit(thaw(saved))
    BY <1>5 DEF finish_freeze, done
  <2>2. /\ saved \in Loop /\ saved.frozen = done.frozen /\ saved.replay = done.replay
        /\ saved.applied = done.applied
    BY <1>3 DEF Loop
  <2> HIDE DEF saved, fin
  <2>3. fin \in Loop /\ HandsBack(saved, fin) /\ fin.quitting
    BY <2>1, <2>2, QuitHandsBack
  <2>4. HandsBack(kk, fin)
    BY <1>1, <1>3, <2>2, <2>3 DEF HandsBack
  <2> QED
    BY <1>5, <2>3, <2>4 DEF fin
<1>6. CASE IsFrozen(kk) /\ kk.frozen.waiting = {} /\ kk.frozen.reply \notin {"none", "Quit"}
  <2>1. fin = [done EXCEPT !.answers[kk.frozen.who] = "ok"]
    BY <1>6 DEF finish_freeze, done
  <2> HIDE DEF fin
  <2>2. /\ fin \in Loop /\ fin.frozen = done.frozen /\ fin.replay = done.replay
        /\ fin.applied = done.applied /\ fin.quitting = done.quitting
    BY <1>3, <2>1 DEF Loop
  <2> QED
    BY <1>1, <1>3, <1>6, <2>2 DEF Stays, fin
<1> QED
  BY <1>4, <1>5, <1>6

\* A message, already taken from where it was, is dropped when it is handled if it is
\* no intent, is handled as one, or is deferred.
Moved(kk, d, msg) ==
  /\ d \in Loop /\ (kk.quitting => d.quitting)
  /\ \/ msg[1] # "Intent" /\ Stays(kk, d)
     \/ msg[1] # "Intent" /\ HandsBack(kk, d) /\ (msg[1] = "Quit" => d.quitting)
     \/ /\ msg[1] = "Intent" /\ kk.frozen.deferred = <<>> /\ d.frozen.deferred = <<>>
        /\ d.applied = Append(kk.applied, msg[2]) /\ d.replay = kk.replay
     \/ /\ d.frozen.deferred = Append(kk.frozen.deferred, msg)
        /\ d.applied = kk.applied /\ d.replay = kk.replay

LEMMA DispatchMoves ==
  ASSUME NEW kk \in Loop, Around, NEW msg \in Message, NEW saveOk \in BOOLEAN
  PROVE  Moved(kk, dispatch(kk, msg, saveOk), msg)
<1> DEFINE d == dispatch(kk, msg, saveOk)
           h == Handle(kk, msg)
<1> SUFFICES Moved(kk, d, msg)
  OBVIOUS
<1> USE DEF Moved
<1>1. ASSUME d = dispatch_now(kk, msg, saveOk)
      PROVE  d = IF h.over THEN h ELSE finish_freeze(h, saveOk)
  BY <1>1, DispatchesNow
<1>2. CASE msg[1] # "Intent" /\ d = dispatch_now(kk, msg, saveOk)
           /\ (msg[1] = "Quit" => ~IsFrozen(kk) \/ (freezing_for_quit(kk) /\ ~msg[2]))
  <2>1. /\ h \in Loop /\ (kk.quitting => h.quitting)
        /\ \/ Stays(kk, h)
           \/ HandsBack(kk, h) /\ ~IsFrozen(h) /\ (msg[1] = "Quit" => h.quitting)
    BY <1>2, HandleMoves
  <2>2. d = IF h.over THEN h ELSE finish_freeze(h, saveOk)
    BY <1>1, <1>2
  <2> DEFINE fin == finish_freeze(h, saveOk)
  <2> HIDE DEF h
  <2>3. /\ fin \in Loop /\ (h.quitting => fin.quitting)
        /\ Stays(h, fin) \/ (IsFrozen(h) /\ HandsBack(h, fin) /\ fin.quitting)
        /\ ~IsFrozen(h) => fin = h
    BY <2>1, FinishMoves
  <2> HIDE DEF d, fin
  <2>4. d = h \/ d = fin
    BY <2>2 DEF fin
  <2>5. Stays(kk, h) /\ Stays(h, fin) => Stays(kk, fin)
    BY DEF Stays
  <2>6. Stays(kk, h) /\ HandsBack(h, fin) => HandsBack(kk, fin)
    BY DEF Stays, HandsBack
  <2>7. d \in Loop /\ (kk.quitting => d.quitting)
    BY <2>1, <2>3, <2>4
  <2>8. Stays(kk, d) \/ (HandsBack(kk, d) /\ (msg[1] = "Quit" => d.quitting))
    BY <2>1, <2>3, <2>4, <2>5, <2>6
  <2> QED
    BY <1>2, <2>7, <2>8 DEF d
<1>3. CASE msg[1] = "Intent" /\ ~IsFrozen(kk)
  <2> DEFINE ap == Append(kk.applied, msg[2])
  <2>1. h = [kk EXCEPT !.applied = ap]
    BY <1>3 DEF Handle
  <2>2. msg[2] \in Nat /\ kk.applied \in Seq(Nat)
    BY <1>3, Kinds DEF Loop
  <2>3. ap \in Seq(Nat)
    BY <2>2
  <2>4. d = dispatch_now(kk, msg, saveOk)
    BY <1>3 DEF dispatch
  <2>5. d = IF h.over THEN h ELSE finish_freeze(h, saveOk)
    BY <1>1, <2>4
  <2> HIDE DEF h, ap
  <2>6. /\ h \in Loop /\ h.frozen = kk.frozen /\ h.replay = kk.replay
        /\ h.applied = ap /\ h.quitting = kk.quitting
    BY <2>1, <2>3 DEF Loop
  <2>7. ~IsFrozen(h)
    BY <1>3, <2>6 DEF IsFrozen
  <2>8. d = h
    BY <2>5, <2>6, <2>7, FinishMoves
  <2>9. kk.frozen.deferred = <<>>
    BY <1>3, NoFreezeShape DEF IsFrozen
  <2> HIDE DEF d
  <2> QED
    BY <1>3, <2>6, <2>8, <2>9 DEF ap, d
<1>4. CASE msg[1] = "Quit" /\ IsFrozen(kk) /\ freezing_for_quit(kk) /\ msg[2]
  <2>1. d = kk
    BY <1>4 DEF dispatch
  <2> QED
    BY <1>4, <2>1 DEF Stays
<1>5. CASE IsFrozen(kk) /\ (msg[1] = "Intent" \/ (msg[1] = "Quit" /\ ~freezing_for_quit(kk)))
  <2> DEFINE de == Append(kk.frozen.deferred, msg)
             fr == [kk.frozen EXCEPT !.deferred = de]
  <2>1. msg \in Deferrable
    BY <1>5 DEF Message, Deferrable
  <2>2. kk.frozen.deferred \in Seq(Deferrable) /\ de \in Seq(Deferrable)
    BY <2>1, AppendFacts DEF Loop, Frost
  <2>3. d = [kk EXCEPT !.frozen.deferred = Append(@, msg)]
    BY <1>5 DEF dispatch
  <2>4. d = [kk EXCEPT !.frozen = fr]
    BY <2>3 DEF Loop, Frost
  <2> HIDE DEF de
  <2>5. fr \in Frost /\ fr.deferred = de
    BY <2>2 DEF Loop, Frost
  <2> HIDE DEF fr, d
  <2>6. /\ d \in Loop /\ d.frozen = fr /\ d.replay = kk.replay
        /\ d.applied = kk.applied /\ d.quitting = kk.quitting
    BY <2>4, <2>5 DEF Loop
  <2> QED
    BY <2>5, <2>6 DEF de, d
<1>6. CASE msg[1] = "Quit" /\ ~IsFrozen(kk)
  <2>1. d = dispatch_now(kk, msg, saveOk)
    BY <1>6 DEF dispatch
  <2> QED
    BY <1>2, <1>6, <2>1
<1>7. CASE msg[1] = "Quit" /\ IsFrozen(kk) /\ freezing_for_quit(kk) /\ ~msg[2]
  <2>1. d = dispatch_now(kk, msg, saveOk)
    BY <1>7 DEF dispatch
  <2> QED
    BY <1>2, <1>7, <2>1
<1>8. CASE msg[1] \notin {"Quit", "Intent"}
  <2>1. d = dispatch_now(kk, msg, saveOk)
    BY <1>8 DEF dispatch
  <2> QED
    BY <1>2, <1>8, <2>1
<1>9. msg[1] = "Quit" => msg[2] \in BOOLEAN
  BY Kinds
<1> QED
  BY <1>3, <1>4, <1>5, <1>6, <1>7, <1>8, <1>9

\* What goes before the channel is what the loop takes first.
LEMMA FirstInLine ==
  ASSUME NEW r \in Seq(Message), NEW q \in Seq(Message)
  PROVE  /\ r \o q \in Seq(Message)
         /\ r # <<>> => r \o q # <<>> /\ Head(r \o q) = Head(r) /\ Tail(r \o q) = Tail(r) \o q
         /\ r = <<>> => r \o q = q
  OBVIOUS

\* What is sent to the channel comes after all that goes before it.
LEMMA LastInLine ==
  ASSUME NEW r \in Seq(Message), NEW q \in Seq(Message), NEW m \in Message
  PROVE  r \o Append(q, m) = Append(r \o q, m)
  OBVIOUS

\* The intents handled are messages, one more of them one more.
LEMMA HandledFacts ==
  ASSUME NEW kk \in Loop
  PROVE  /\ Handled(kk) \in Seq(Message)
         /\ kk.replay \in Seq(Message) /\ kk.frozen.deferred \in Seq(Message)
         /\ \A h : h.applied = kk.applied => Handled(h) = Handled(kk)
         /\ \A h, n : n \in Nat /\ h.applied = Append(kk.applied, n) =>
              Handled(h) = Append(Handled(kk), <<"Intent", n>>)
<1> DEFINE ap == kk.applied
           tagged(s) == [i \in 1 .. Len(s) |-> <<"Intent", s[i]>>]
<1>1. ap \in Seq(Nat)
  BY DEF Loop
<1>2. \A n \in Nat : <<"Intent", n>> \in Message
  BY DEF Message, Deferrable
<1>3. \A h : Handled(h) = tagged(h.applied)
  BY DEF Handled
<1> HIDE DEF ap
<1>4. tagged(ap) \in Seq(Message)
  BY <1>1, <1>2
<1>5. ASSUME NEW n \in Nat
      PROVE  tagged(Append(ap, n)) = Append(tagged(ap), <<"Intent", n>>)
  <2>1. Len(tagged(ap)) = Len(ap)
    BY <1>1
  <2>2. /\ Len(Append(ap, n)) = Len(ap) + 1
        /\ \A i \in 1 .. Len(ap) : Append(ap, n)[i] = ap[i]
        /\ Append(ap, n)[Len(ap) + 1] = n
    BY <1>1, AppendFacts
  <2>3. \A i \in 1 .. Len(ap) + 1 :
          tagged(Append(ap, n))[i] = Append(tagged(ap), <<"Intent", n>>)[i]
    <3> SUFFICES ASSUME NEW i \in 1 .. Len(ap) + 1
                 PROVE  tagged(Append(ap, n))[i] = Append(tagged(ap), <<"Intent", n>>)[i]
      OBVIOUS
    <3>1. tagged(Append(ap, n))[i] = <<"Intent", Append(ap, n)[i]>>
      BY <2>2
    <3>2. CASE i \in 1 .. Len(ap)
      <4>1. tagged(ap)[i] = <<"Intent", ap[i]>>
        BY <3>2
      <4>2. Append(tagged(ap), <<"Intent", n>>)[i] = tagged(ap)[i]
        BY <1>2, <1>4, <2>1, <3>2, AppendFacts
      <4> QED
        BY <2>2, <3>1, <3>2, <4>1, <4>2
    <3>3. CASE i = Len(ap) + 1
      <4>1. Append(tagged(ap), <<"Intent", n>>)[i] = <<"Intent", n>>
        BY <1>2, <1>4, <2>1, <3>3, AppendFacts
      <4> QED
        BY <2>2, <3>1, <3>3, <4>1
    <3> QED
      BY <1>1, <3>2, <3>3
  <2>4. Append(tagged(ap), <<"Intent", n>>) \in Seq(Message)
        /\ Len(Append(tagged(ap), <<"Intent", n>>)) = Len(ap) + 1
    BY <1>2, <1>4, <2>1, AppendFacts
  <2>5. tagged(Append(ap, n)) \in [1 .. Len(ap) + 1 -> Message]
    <3>1. \A i \in 1 .. Len(ap) + 1 : Append(ap, n)[i] \in Nat
      BY <1>1
    <3> QED
      BY <1>2, <2>2, <3>1
  <2>6. Append(tagged(ap), <<"Intent", n>>) \in [1 .. Len(ap) + 1 -> Message]
    <3> DEFINE z == Append(tagged(ap), <<"Intent", n>>)
    <3>1. z \in Seq(Message) /\ Len(z) = Len(ap) + 1
      BY <2>4
    <3> HIDE DEF z
    <3>2. z \in [1 .. Len(ap) + 1 -> Message]
      BY <3>1
    <3> QED
      BY <3>2 DEF z
  <2> HIDE DEF tagged
  <2> QED
    BY <2>3, <2>5, <2>6
<1>6. kk.replay \in Seq(Deferrable) /\ kk.frozen.deferred \in Seq(Deferrable)
  BY DEF Loop, Frost
<1>7. \A s \in Seq(Deferrable) : s \in Seq(Message)
  BY DEF Message
<1> HIDE DEF tagged
<1> QED
  BY <1>3, <1>4, <1>5, <1>6, <1>7 DEF ap

\* A turn of the loop keeps the line.
LEMMA TurnKeepsLine ==
  ASSUME FInv, Turn, NEW n \in Nat, Lined(k, queue, n)
  PROVE  Lined(k', queue', n)
<1> DEFINE fromReplay == k.replay # <<>>
           msg == IF fromReplay THEN Head(k.replay) ELSE Head(queue)
           popped == IF fromReplay THEN [k EXCEPT !.replay = Tail(@)] ELSE k
           rest == IF fromReplay THEN queue ELSE Tail(queue)
           w == k.replay \o queue
           left == popped.replay \o rest
           a == Handled(k)
           e == k.frozen.deferred
           strict == ~k'.quitting
<1>0. k \in Loop /\ queue \in Seq(Message) /\ Around
  BY DEF FInv, Turning, Shapes
<1>1. PICK saveOk \in BOOLEAN :
        LET dispatched == dispatch(popped, msg, saveOk)
            settled == IF dispatched.over THEN dispatched ELSE after_dispatch(dispatched)
        IN k' = [settled EXCEPT !.over = @ \/ (settled.quitting /\ settled.active = {})]
  BY DEF Turn
<1> DEFINE d == dispatch(popped, msg, saveOk)
           s == IF d.over THEN d ELSE after_dispatch(d)
           over == s.over \/ (s.quitting /\ s.active = {})
<1>2. k' = [s EXCEPT !.over = over] /\ queue' = rest /\ (fromReplay \/ queue # <<>>)
  BY <1>1 DEF Turn
<1>3. a \in Seq(Message) /\ e \in Seq(Message) /\ k.replay \in Seq(Message)
  BY <1>0, HandledFacts
<1>4. k.replay \in Seq(Deferrable) /\ k.quitting \in BOOLEAN
  BY <1>0 DEF Loop
<1>5. /\ popped \in Loop /\ popped.frozen = k.frozen /\ popped.applied = k.applied
      /\ popped.quitting = k.quitting
      /\ fromReplay => popped.replay = Tail(k.replay)
      /\ ~fromReplay => popped = k
  BY <1>0, <1>4, TailFacts DEF Loop
<1>6. /\ msg \in Message /\ rest \in Seq(Message) /\ popped.replay \in Seq(Message)
      /\ w # <<>> /\ w \in Seq(Message) /\ Head(w) = msg /\ Tail(w) = left
  <2>1. CASE fromReplay
    <3>1. msg \in Message /\ Tail(k.replay) \in Seq(Message)
      BY <1>3, <2>1, TailFacts
    <3>2. w # <<>> /\ w \in Seq(Message) /\ Head(w) = Head(k.replay)
          /\ Tail(w) = Tail(k.replay) \o queue
      BY <1>0, <1>3, <2>1, FirstInLine
    <3> QED
      BY <1>0, <1>5, <2>1, <3>1, <3>2
  <2>2. CASE ~fromReplay
    <3>1. w = queue /\ queue # <<>>
      BY <1>0, <1>2, <1>3, <2>2, FirstInLine
    <3>2. msg \in Message /\ Tail(queue) \in Seq(Message)
      BY <1>0, <2>2, <3>1, TailFacts
    <3>3. <<>> \o Tail(queue) = Tail(queue)
      BY <3>2
    <3> QED
      BY <1>0, <1>3, <1>5, <2>2, <3>1, <3>2, <3>3
  <2> QED
    BY <2>1, <2>2
<1>7. fromReplay => msg \in Deferrable
  BY <1>4, TailFacts
<1>8. msg \in Deferrable => msg[1] \in {"Quit", "Intent"}
  BY DEF Deferrable
<1>9. ~fromReplay => popped.replay = <<>>
  BY <1>5
<1> HIDE DEF popped, msg, rest, w, left, a, e, strict, fromReplay
<1>10. /\ d \in Loop /\ (popped.quitting => d.quitting)
       /\ \/ msg[1] # "Intent" /\ Stays(popped, d)
          \/ msg[1] # "Intent" /\ HandsBack(popped, d) /\ (msg[1] = "Quit" => d.quitting)
          \/ /\ msg[1] = "Intent" /\ popped.frozen.deferred = <<>> /\ d.frozen.deferred = <<>>
             /\ d.applied = Append(popped.applied, msg[2]) /\ d.replay = popped.replay
          \/ /\ d.frozen.deferred = Append(popped.frozen.deferred, msg)
             /\ d.applied = popped.applied /\ d.replay = popped.replay
  <2>1. Moved(popped, d, msg)
    BY <1>0, <1>5, <1>6, DispatchMoves
  <2> QED
    BY <2>1 DEF Moved
<1> HIDE DEF d
<1>11. /\ s \in Loop /\ s.frozen = d.frozen /\ s.replay = d.replay
       /\ s.applied = d.applied /\ s.quitting = d.quitting
  <2> DEFINE down == d.active \ (d.effects \cup (IF d.quitting THEN dead ELSE {}))
  <2>1. s = d \/ s = [d EXCEPT !.active = down, !.effects = {}]
    BY DEF after_dispatch
  <2>2. down \in SUBSET Task /\ {} \in SUBSET Task
    BY <1>10 DEF Loop
  <2> HIDE DEF s, down
  <2> QED
    BY <1>10, <2>1, <2>2 DEF Loop
<1> HIDE DEF s, over
<1>12. /\ k'.frozen = d.frozen /\ k'.replay = d.replay
       /\ k'.applied = d.applied /\ k'.quitting = d.quitting
  BY <1>2, <1>11 DEF Loop
<1>13. strict \in BOOLEAN /\ (~k.quitting) \in BOOLEAN /\ (strict => ~k.quitting)
  BY <1>4, <1>5, <1>10, <1>12 DEF strict
<1>14. InLine(a, e, w, n, strict)
  <2>1. InLine(a, e, w, n, ~k.quitting)
    BY DEF Lined, a, e, w
  <2> QED
    BY <1>3, <1>6, <1>13, <2>1, Loosened
<1>15. \A h : h.applied = k.applied => Handled(h) = a
  BY <1>0, HandledFacts DEF a
<1>16. SUFFICES InLine(Handled(k'), k'.frozen.deferred, k'.replay \o rest, n, strict)
  BY <1>2 DEF Lined, strict
<1>17. CASE msg[1] # "Intent" /\ Stays(popped, d)
  <2>1. Handled(k') = a /\ k'.frozen.deferred = e /\ k'.replay \o rest = Tail(w)
    BY <1>5, <1>6, <1>12, <1>15, <1>17 DEF Stays, e, left
  <2>2. InLine(a, e, Tail(w), n, strict)
    BY <1>3, <1>6, <1>13, <1>14, <1>17, Dropped
  <2> QED
    BY <2>1, <2>2
<1>18. CASE msg[1] # "Intent" /\ HandsBack(popped, d) /\ (msg[1] = "Quit" => d.quitting)
  <2>1. /\ Handled(k') = a /\ k'.frozen.deferred = <<>>
        /\ k'.replay = popped.replay \o e
    BY <1>5, <1>12, <1>15, <1>18 DEF HandsBack, e
  <2>2. InLine(a, e, popped.replay \o rest, n, strict)
    BY <1>3, <1>6, <1>13, <1>14, <1>18, Dropped DEF left
  <2>3. popped.replay = <<>> \/ ~strict
    BY <1>7, <1>8, <1>9, <1>12, <1>18 DEF strict
  <2>4. InLine(a, <<>>, (popped.replay \o e) \o rest, n, strict)
    BY <1>3, <1>6, <1>13, <2>2, <2>3, HandedBack
  <2> QED
    BY <2>1, <2>4
<1>19. CASE /\ msg[1] = "Intent" /\ popped.frozen.deferred = <<>> /\ d.frozen.deferred = <<>>
            /\ d.applied = Append(popped.applied, msg[2]) /\ d.replay = popped.replay
  <2>1. msg[2] \in Nat /\ msg = <<"Intent", msg[2]>>
    BY <1>6, <1>19, Kinds
  <2>2. \A h, i : i \in Nat /\ h.applied = Append(k.applied, i) =>
          Handled(h) = Append(a, <<"Intent", i>>)
    BY <1>0, HandledFacts DEF a
  <2>3. k'.applied = Append(k.applied, msg[2])
    BY <1>5, <1>12, <1>19
  <2>4. Handled(k') = Append(a, msg)
    BY <2>1, <2>2, <2>3
  <2>5. k'.frozen.deferred = <<>> /\ k'.replay \o rest = Tail(w) /\ e = <<>>
    BY <1>5, <1>6, <1>12, <1>19 DEF e, left
  <2>6. InLine(Append(a, msg), <<>>, Tail(w), n, strict)
    BY <1>3, <1>6, <1>13, <1>14, <2>5, HandledNext
  <2> QED
    BY <2>4, <2>5, <2>6
<1>20. CASE /\ d.frozen.deferred = Append(popped.frozen.deferred, msg)
            /\ d.applied = popped.applied /\ d.replay = popped.replay
  <2>1. /\ Handled(k') = a /\ k'.frozen.deferred = Append(e, msg)
        /\ k'.replay \o rest = Tail(w)
    BY <1>5, <1>6, <1>12, <1>15, <1>20 DEF e, left
  <2>2. InLine(a, Append(e, msg), Tail(w), n, strict)
    BY <1>3, <1>6, <1>13, <1>14, DeferredNext
  <2> QED
    BY <2>1, <2>2
<1> QED
  BY <1>10, <1>17, <1>18, <1>19, <1>20

\* So does a message that is sent, with one number more if it is an intent.
LEMMA SentKeepsLine ==
  ASSUME FInv, NEW n \in Nat, Lined(k, queue, n), Stays(k, k'), k'.quitting = k.quitting
  PROVE  /\ queue' = queue => Lined(k', queue', n)
         /\ \A m \in Message : queue' = Append(queue, m) =>
              /\ m[1] # "Intent" => Lined(k', queue', n)
              /\ m = <<"Intent", n + 1>> => Lined(k', queue', n + 1)
<1> DEFINE a == Handled(k)
           e == k.frozen.deferred
           w == k.replay \o queue
<1>1. k \in Loop /\ queue \in Seq(Message) /\ (~k.quitting) \in BOOLEAN
  BY DEF FInv, Turning, Shapes, Loop
<1>2. a \in Seq(Message) /\ e \in Seq(Message) /\ k.replay \in Seq(Message)
  BY <1>1, HandledFacts
<1>3. Handled(k') = a /\ k'.frozen.deferred = e /\ k'.replay = k.replay
  BY <1>1, HandledFacts DEF Stays
<1>4. w \in Seq(Message)
  BY <1>1, <1>2, FirstInLine
<1>5. \A m \in Message : k.replay \o Append(queue, m) = Append(w, m)
  BY <1>1, <1>2, LastInLine
<1> HIDE DEF a, e, w
<1>6. InLine(a, e, w, n, ~k.quitting)
  BY DEF Lined, a, e, w
<1>7. queue' = queue => Lined(k', queue', n)
  BY <1>3, <1>6 DEF Lined, w
<1>8. ASSUME NEW m \in Message, queue' = Append(queue, m)
      PROVE  /\ m[1] # "Intent" => Lined(k', queue', n)
             /\ m = <<"Intent", n + 1>> => Lined(k', queue', n + 1)
  <2>1. /\ m[1] # "Intent" => InLine(a, e, Append(w, m), n, ~k.quitting)
        /\ m = <<"Intent", n + 1>> => InLine(a, e, Append(w, m), n + 1, ~k.quitting)
    BY <1>1, <1>2, <1>4, <1>6, SentLast
  <2>2. k'.replay \o queue' = Append(w, m)
    BY <1>3, <1>5, <1>8
  <2> QED
    BY <1>3, <2>1, <2>2 DEF Lined
<1> QED
  BY <1>7, <1>8

\* The invariant of the loop, and with it of the messages that are sent.
LineInv == LoopInv /\ Lined(k, queue, sent.intents)

\* Nothing is in line at first.
LEMMA InitLineInv == Init => LineInv
<1> SUFFICES ASSUME Init
             PROVE  Lined(k, queue, sent.intents)
  BY InitLoopInv DEF LineInv
<1>1. /\ k.applied = <<>> /\ k.frozen = NoFreeze /\ k.replay = <<>> /\ queue = <<>>
      /\ sent.intents = 0
  BY DEF Init
<1>2. Handled(k) = <<>> /\ k.replay \o queue = <<>> /\ k.frozen.deferred = <<>>
  BY <1>1, NoFreezeShape DEF Handled
<1>3. 1 .. sent.intents = {}
  BY <1>1
<1> QED
  BY <1>2, <1>3, NoneInOrder DEF Lined, InLine

\* Each step keeps the line.
LEMMA NextLineInv == LineInv /\ [Next]_vars => LineInv'
<1> SUFFICES ASSUME LineInv, [Next]_vars
             PROVE  Lined(k, queue, sent.intents)'
  BY NextLoopInv DEF LineInv
<1> DEFINE n == sent.intents
<1>0. /\ FInv /\ Lined(k, queue, n) /\ k \in Loop /\ n \in Nat /\ queue \in Seq(Message)
      /\ sent \in [intents : Nat, quits : Nat, upgrades : 0 .. MaxUpgrades]
  BY DEF LineInv, LoopInv, FInv, Turning, Shapes, Around
<1> HIDE DEF n
<1>1. ASSUME Stays(k, k'), k'.quitting = k.quitting, sent'.intents = n,
             \/ queue' = queue
             \/ \E m \in Message : m[1] # "Intent" /\ queue' = Append(queue, m)
      PROVE  Lined(k', queue', sent'.intents)
  BY <1>0, <1>1, SentKeepsLine
<1>2. CASE Turn
  <2>1. sent'.intents = n
    BY <1>2 DEF Turn, n
  <2> QED
    BY <1>0, <1>2, <2>1, TurnKeepsLine
<1>3. k' = k => Stays(k, k') /\ k'.quitting = k.quitting
  BY DEF Stays
<1>4. ASSUME NEW t \in Task, GiveUp(t) \/ Obey(t) \/ RunEnds(t) \/ HandlerEnds(t)
      PROVE  Lined(k', queue', sent'.intents)
  <2>1. Stays(k, k') /\ k'.quitting = k.quitting /\ sent'.intents = n
    BY <1>0, <1>3, <1>4 DEF GiveUp, Obey, RunEnds, HandlerEnds, Stays, Loop, n
  <2>2. <<"Stopped", t>> \in Message /\ <<"Stopped", t>>[1] # "Intent"
    BY DEF Message
  <2>3. CASE GiveUp(t) \/ RunEnds(t) \/ HandlerEnds(t)
    BY <1>1, <2>1, <2>2, <2>3 DEF GiveUp, RunEnds, HandlerEnds, Send
  <2>4. CASE Obey(t)
    <3> DEFINE h == Head(k.inbox[t])
    <3>1. h \in Nat
      BY <1>0, <2>4 DEF Obey, Loop
    <3>2. <<"Frozen", t, h>> \in Message /\ <<"Frozen", t, h>>[1] # "Intent"
      BY <3>1 DEF Message
    <3>3. queue' = queue \/ queue' = Append(queue, <<"Frozen", t, h>>)
      BY <2>4 DEF Obey, Send
    <3> QED
      BY <1>1, <2>1, <3>2, <3>3
  <2> QED
    BY <1>4, <2>3, <2>4
<1>5. CASE SendIntent
  <2>1. k' = k /\ sent'.intents = n + 1 /\ queue' = Append(queue, <<"Intent", n + 1>>)
    BY <1>0, <1>5 DEF SendIntent, Send, n
  <2>2. <<"Intent", n + 1>> \in Message
    BY <1>0 DEF Message, Deferrable
  <2> QED
    BY <1>0, <1>3, <2>1, <2>2, SentKeepsLine
<1>6. ASSUME NEW save \in BOOLEAN, SendQuit(save)
      PROVE  Lined(k', queue', sent'.intents)
  <2>1. k' = k /\ sent'.intents = n /\ queue' = Append(queue, <<"Quit", save>>)
    BY <1>0, <1>6 DEF SendQuit, Send, n
  <2>2. <<"Quit", save>> \in Message /\ <<"Quit", save>>[1] # "Intent"
    BY DEF Message, Deferrable
  <2> QED
    BY <1>1, <1>3, <2>1, <2>2
<1>7. ASSUME NEW u \in k.timers, SaveTimeout(u)
      PROVE  Lined(k', queue', sent'.intents)
  <2>1. Stays(k, k') /\ k'.quitting = k.quitting /\ sent'.intents = n
    BY <1>0, <1>7 DEF SaveTimeout, Stays, Loop, n
  <2>2. u \in Nat
    BY <1>0 DEF Loop
  <2>3. <<"FreezeTimeout", u>> \in Message /\ <<"FreezeTimeout", u>>[1] # "Intent"
    BY <2>2 DEF Message
  <2>4. queue' = Append(queue, <<"FreezeTimeout", u>>)
    BY <1>7 DEF SaveTimeout, Send
  <2> QED
    BY <1>1, <2>1, <2>3, <2>4
<1>8. CASE UpgradeBegins
  <2>1. /\ k' = k /\ sent'.intents = n /\ sent'.upgrades = sent.upgrades + 1
        /\ queue' = Append(queue, <<"Freeze", sent'.upgrades>>)
        /\ sent'.upgrades \in 1 .. MaxUpgrades
    BY <1>0, <1>8, FreezeAssumption DEF UpgradeBegins, Send, n
  <2>2. <<"Freeze", sent'.upgrades>> \in Message /\ <<"Freeze", sent'.upgrades>>[1] # "Intent"
    BY <2>1 DEF Message
  <2> QED
    BY <1>1, <1>3, <2>1, <2>2
<1>9. CASE UpgradeFails
  <2>1. k' = k /\ sent'.intents = n /\ queue' = Append(queue, <<"Thaw">>)
    BY <1>9 DEF UpgradeFails, Send, n
  <2>2. <<"Thaw">> \in Message /\ <<"Thaw">>[1] # "Intent"
    BY DEF Message
  <2> QED
    BY <1>1, <1>3, <2>1, <2>2
<1>10. CASE Exec \/ UNCHANGED vars
  <2>1. k' = k /\ sent'.intents = n /\ queue' = queue
    BY <1>10 DEF Exec, vars, n
  <2> QED
    BY <1>1, <1>3, <2>1
<1> QED
  BY <1>2, <1>4, <1>5, <1>6, <1>7, <1>8, <1>9, <1>10 DEF Next, Stand

\* What is in line is none lost, none doubled and, until the quit, none overtaken.
LEMMA LineInOrder == LineInv => NothingLostOrOvertaken
<1> SUFFICES ASSUME LineInv
             PROVE  NothingLostOrOvertaken
  OBVIOUS
<1> DEFINE a == Handled(k)
           d == k.frozen.deferred
           r == k.replay
           n == sent.intents
           strict == ~k.quitting
           ad == a \o d
           adr == ad \o r
           line == adr \o queue
           intents == {i \in 1 .. Len(line) : line[i][1] = "Intent"}
<1>1. k \in Loop /\ queue \in Seq(Message) /\ strict \in BOOLEAN /\ n \in Nat
  BY DEF LineInv, LoopInv, FInv, Turning, Shapes, Loop, Around
<1>2. a \in Seq(Message) /\ d \in Seq(Message) /\ r \in Seq(Message)
  BY <1>1, HandledFacts
<1>3. InLine(a, d, r \o queue, n, strict)
  BY DEF LineInv, Lined
<1>4. line = Pipeline
  BY DEF Pipeline, Handled
<1> HIDE DEF a, d, r, n, strict
<1>5. Joined(r \o queue, r, queue, strict)
  BY <1>1, <1>2, ConcatOrder
<1>6. ad \in Seq(Message) /\ Joined(ad, a, d, strict)
  BY <1>1, <1>2, ConcatOrder
<1> HIDE DEF ad
<1>7. adr \in Seq(Message) /\ Joined(adr, ad, r, strict)
  BY <1>1, <1>2, <1>6, ConcatOrder
<1> HIDE DEF adr
<1>8. line \in Seq(Message) /\ Joined(line, adr, queue, strict)
  BY <1>1, <1>7, ConcatOrder
<1> HIDE DEF line
<1>9. Within(line, strict) /\ Sized(line, n)
  <2>1. Within(ad, strict) /\ Sized(ad, n)
    BY <1>3, <1>6 DEF InLine, Joined
  <2>2. Across(ad, r, strict) /\ Across(ad, queue, strict)
    BY <1>3, <1>5, <1>6 DEF InLine, Joined
  <2>3. Within(r, strict) /\ Within(queue, strict) /\ Across(r, queue, strict)
        /\ Sized(r, n) /\ Sized(queue, n)
    BY <1>3, <1>5 DEF InLine, Joined
  <2>4. Within(adr, strict) /\ Sized(adr, n) /\ Across(adr, queue, strict)
    BY <1>7, <2>1, <2>2, <2>3 DEF Joined
  <2> QED
    BY <1>8, <2>3, <2>4 DEF Joined
<1>10. \A i \in 1 .. n : Holds(line, <<"Intent", i>>)
  BY <1>3, <1>5, <1>6, <1>7, <1>8 DEF InLine, Joined
<1>11. \A i \in 1 .. n : \E j \in intents : line[j][2] = i
  <2> SUFFICES ASSUME NEW i \in 1 .. n
               PROVE  \E j \in intents : line[j][2] = i
    OBVIOUS
  <2>1. PICK j \in 1 .. Len(line) : line[j] = <<"Intent", i>>
    BY <1>10 DEF Holds
  <2> QED
    BY <2>1
<1>12. \A i \in intents : line[i][2] \in 1 .. n
  BY <1>9 DEF Sized
<1>13. \A i, j \in intents :
         i < j => IF k.quitting THEN line[i][2] # line[j][2] ELSE line[i][2] < line[j][2]
  BY <1>9 DEF Within, Prior, strict
<1> QED
  BY <1>4, <1>11, <1>12, <1>13 DEF NothingLostOrOvertaken, n

\* However many freezes defer what comes and thaws hand it back, among messages that
\* come meanwhile: every intent sent is in one place, to be handled once, and until the
\* quit in the order in which it was sent.
THEOREM NothingIsLost == Spec => []NothingLostOrOvertaken
  BY InitLineInv, NextLineInv, LineInOrder, PTL DEF Spec
=============================================================================
