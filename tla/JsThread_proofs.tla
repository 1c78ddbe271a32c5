--------------------------- MODULE JsThread_proofs ---------------------------
(***************************************************************************)
(* That the client is shown what the machine does, and that no pause is    *)
(* left that is to be shown, for any number of pauses and requests (module *)
(* JsThread).                                                              *)
(*                                                                         *)
(* Truthful speaks of quiet states only and ShownIsKept of single steps.   *)
(* What both rest on is that nobody acts twice on one pause: as long as    *)
(* the client is not rushed, there is at most one resume or step under way *)
(* (as a command, at the head of the queue, behind it, or waiting for a    *)
(* flush), it is meant for the pause the machine is at, and while there is *)
(* one nobody handles, shows or refreshes that pause (PhaseOK).  Hence     *)
(* none is ever swallowed as a duplicate of the one before it: by the time *)
(* a pause is handled, what led to it has been answered (AnswerOK).        *)
(***************************************************************************)
EXTENDS JsThread, TLAPS

(* The places of the commands, of the messages and of the operations that  *)
(* have not begun, of the given sorts.                                     *)
Of(commands, sorts) ==
    {i \in DOMAIN commands : commands[i].do \in sorts}
In(messages, sorts) ==
    {i \in DOMAIN messages : messages[i].type \in sorts}
Later(operations) ==
    {i \in DOMAIN operations : i > 1 /\ operations[i].op # "pause"}

One(S) == \E x \in S : S = {x}

Leaving == {"resume", "step", "raw"}
FromQueue == {"resume", "step", "pause", "break"}
Answers == {"ok", "fail"}

-----------------------------------------------------------------------------
(* The first operation of the queue is at the machine while it is "sent"   *)
(* or "break", as a command or as an answer.                               *)
QueueOK ==
    /\ head \notin {"sent", "break"} =>
          Of(cmds, FromQueue) = {} /\ In(inbox, Answers) = {}
    /\ head \in {"sent", "break"} =>
          \/ One(Of(cmds, FromQueue)) /\ In(inbox, Answers) = {}
          \/ Of(cmds, FromQueue) = {} /\ One(In(inbox, Answers))
    /\ \A i \in Of(cmds, FromQueue) :
          /\ cmds[i].do = "break" <=> head = "break"
          /\ cmds[i].do = "pause" <=> chain[1].op = "pause"
    /\ head \in {"prepare", "break"} => chain[1].op # "pause"

(* The pauses so far, and where their handlers may be. *)
KindOK ==
    /\ \E k \in 0..MaxPauses : \A n \in Pauses : kind[n] # "none" <=> n <= k
    /\ vm # 0 => kind[vm] # "none"
    /\ \A n \in Pauses : handler[n] # "none" => kind[n] # "none"
    /\ \A n \in Pauses :
          /\ handler[n] \in {"skip", "bypass"} => kind[n] \in {"skip", "script"}
          /\ handler[n] = "unbreak" => kind[n] = "target"
    /\ wanted => vm = 0
    /\ \A i \in In(inbox, {"paused", "unbroken"}) :
          inbox[i].pause \in Pauses /\ kind[inbox[i].pause] # "none"
    /\ \A i \in Of(cmds, {"unbreak"}) :
          cmds[i].pause \in Pauses /\ kind[cmds[i].pause] # "none"

Base == TypeOK /\ QueueOK /\ KindOK

-----------------------------------------------------------------------------
(* The resumes and steps that are under way: as commands, at the head of   *)
(* the queue, behind it, and waiting for the flush.                        *)
AsCommand == Of(cmds, Leaving)
AtHead == head \in {"prepare", "break"}
Flushing == {f \in flushing : f.entry.op # "pause"}

NoneQueued == AsCommand = {} /\ ~AtHead /\ Later(chain) = {}
OneQueued ==
    \/ One(AsCommand) /\ ~AtHead /\ Later(chain) = {}
    \/ AsCommand = {} /\ AtHead /\ Later(chain) = {}
    \/ AsCommand = {} /\ ~AtHead /\ One(Later(chain))

NoLeave == NoneQueued /\ Flushing = {}
OneLeave == \/ OneQueued /\ Flushing = {}
            \/ NoneQueued /\ One(Flushing)

(* Those that are not commands yet are resumes.                            *)
QueuedToResume ==
    ~AtHead /\ \A i \in Later(chain) : chain[i].op = "resume"
ToResume == QueuedToResume /\ \A f \in Flushing : f.entry.op = "resume"

(* What becomes of the pause that the machine is at. *)
Coming == In(inbox, {"paused"})
Shown == view # 0
Unseen == view = 0 /\ refresh.at = "no"

PhaseOK ==
    /\ vm = 0 => NoLeave /\ Unseen /\ Coming = {}
    /\ vm # 0 /\ Coming # {} =>
          /\ NoLeave /\ Unseen /\ handler[vm] = "none"
          /\ One(Coming) /\ \A i \in Coming : inbox[i].pause = vm
    /\ vm # 0 /\ Coming = {} =>
          /\ handler[vm] # "none"
          /\ handler[vm] # "done" => NoLeave /\ Unseen
          /\ handler[vm] = "done" =>
                \/ OneLeave /\ Unseen
                \/ NoLeave /\ view = vm /\ refresh.at \in {"no", "create"}
                \/ NoLeave /\ view = 0 /\ refresh.at = "tell"
    /\ refresh.at # "no" => refresh.pause = vm
    /\ \A n \in Pauses \ {vm} : handler[n] \in {"none", "done"}

(* The breakpoint on the target is being removed. *)
UnbreakOK ==
    /\ IF vm # 0 /\ handler[vm] = "unbreak"
       THEN \/ One(Of(cmds, {"unbreak"})) /\ In(inbox, {"unbroken"}) = {}
            \/ Of(cmds, {"unbreak"}) = {} /\ One(In(inbox, {"unbroken"}))
       ELSE Of(cmds, {"unbreak"}) = {} /\ In(inbox, {"unbroken"}) = {}
    /\ \A i \in Of(cmds, {"unbreak"}) : cmds[i].pause = vm
    /\ \A i \in In(inbox, {"unbroken"}) : inbox[i].pause = vm

(* The machine has said that it goes on before it says that it pauses, and *)
(* the answer came first.                                                  *)
AnswerOK ==
    /\ In(inbox, {"fail"}) = {}
    /\ \A i \in In(inbox, {"resumed"}) :
          vm # 0 => \E k \in Coming : i < k
    /\ head = "sent" /\ chain[1].op # "pause" =>
          \A i \in In(inbox, Answers) : \E j \in In(inbox, {"resumed"}) : i < j

(* Who may rely on _pausedDetails, _expectedPauseReason, _waitingForStepIn *)
DetailsOK ==
    /\ vm # 0 /\ handler[vm] \in {"over", "in", "show", "tell"} =>
          details = OwnDetails(vm)
    /\ view # 0 \/ refresh.at = "tell" => details.pause = vm

ExpectedOK ==
    /\ wanted => expected = "pause"
    /\ \A i \in Of(cmds, {"pause"}) :
          vm = 0 \/ (\E j \in AsCommand : j < i) => expected = "pause"
    /\ vm # 0 /\ kind[vm] = "asked" =>
          /\ handler[vm] \in {"none", "want", "create"} => expected = "pause"
          /\ handler[vm] \notin {"over", "in"}
    /\ vm # 0 /\ kind[vm] # "smart" => handler[vm] \notin {"over", "in"}

WaitingOK == head = "break" => waiting # "no"

(* A pause to be shown is left for the client, or for a target. *)
LeaveOK ==
    vm # 0 /\ kind[vm] \in {"show", "asked"} /\ OneLeave /\ vm \notin dismissed
        => waiting = "target" /\ ToResume

(* What holds as long as the client is not rushed. *)
Calm == /\ PhaseOK /\ UnbreakOK /\ AnswerOK /\ DetailsOK
        /\ ExpectedOK /\ WaitingOK /\ LeaveOK

IInv == Base /\ (~rushed => Calm)

-----------------------------------------------------------------------------
(* Messages that are added at the end, and taken from the beginning.       *)
LEMMA OneIsSome == \A S : One(S) => S # {}
  BY DEF One

(* A command is sent: it is one more of its own sorts, and of no other. *)
LEMMA SentOf ==
    ASSUME cmds \in Seq(Commands), NEW c \in Commands,
           cmds' = Append(cmds, c)
    PROVE  /\ cmds' \in Seq(Commands)
           /\ Len(cmds) \in Nat
           /\ \A W : c.do \notin W => Of(cmds', W) = Of(cmds, W)
           /\ \A W : c.do \in W =>
                 Of(cmds', W) = Of(cmds, W) \cup {Len(cmds) + 1}
           /\ \A W : c.do \in W /\ Of(cmds, W) = {} => One(Of(cmds', W))
           /\ \A W : \A i \in Of(cmds, W) : /\ cmds'[i] = cmds[i]
                                           /\ i < Len(cmds) + 1
           /\ cmds'[Len(cmds) + 1] = c
<1>1. /\ Len(cmds) \in Nat /\ DOMAIN cmds = 1..Len(cmds)
      /\ cmds' \in Seq(Commands)
      /\ DOMAIN cmds' = 1..(Len(cmds) + 1)
      /\ \A i \in 1..Len(cmds) : cmds'[i] = cmds[i]
      /\ cmds'[Len(cmds) + 1] = c
  OBVIOUS
<1>2. DOMAIN cmds' = DOMAIN cmds \cup {Len(cmds) + 1}
  BY <1>1
<1>3. ASSUME NEW W, c.do \notin W
      PROVE  Of(cmds', W) = Of(cmds, W)
  BY <1>1, <1>2, <1>3 DEF Of
<1>4. ASSUME NEW W, c.do \in W
      PROVE  Of(cmds', W) = Of(cmds, W) \cup {Len(cmds) + 1}
  BY <1>1, <1>2, <1>4 DEF Of
<1>5. ASSUME NEW W, NEW i \in Of(cmds, W)
      PROVE  cmds'[i] = cmds[i] /\ i < Len(cmds) + 1
  BY <1>1 DEF Of
<1> QED BY <1>1, <1>3, <1>4, <1>5 DEF One

(* The machine takes a command: those behind it move up. *)
LEMMA TakenOf ==
    ASSUME cmds \in Seq(Commands), cmds # << >>, cmds' = Tail(cmds)
    PROVE  /\ cmds' \in Seq(Commands)
           /\ Head(cmds) \in Commands /\ Head(cmds) = cmds[1]
           /\ \A W : 1 \in Of(cmds, W) <=> Head(cmds).do \in W
           /\ \A W : \A i \in Of(cmds', W) : /\ i + 1 \in Of(cmds, W)
                                            /\ cmds'[i] = cmds[i + 1]
                                            /\ i \in Nat \ {0}
           /\ \A W : \A i \in Of(cmds, W) :
                 i # 1 => i - 1 \in Of(cmds', W) /\ i \in Nat /\ i > 1
           /\ \A W : Of(cmds, W) = {} => Of(cmds', W) = {}
           /\ \A W : Head(cmds).do \in W /\ One(Of(cmds, W)) =>
                 Of(cmds', W) = {}
           /\ \A W : Head(cmds).do \notin W /\ One(Of(cmds, W)) =>
                 One(Of(cmds', W))
<1>1. /\ Len(cmds) \in Nat \ {0} /\ DOMAIN cmds = 1..Len(cmds)
      /\ cmds' \in Seq(Commands)
      /\ DOMAIN cmds' = 1..(Len(cmds) - 1)
      /\ \A i \in 1..(Len(cmds) - 1) : cmds'[i] = cmds[i + 1]
      /\ Head(cmds) = cmds[1] /\ Head(cmds) \in Commands
  OBVIOUS
<1>2. ASSUME NEW W, NEW i \in Of(cmds', W)
      PROVE  i + 1 \in Of(cmds, W) /\ cmds'[i] = cmds[i + 1]
             /\ i \in Nat \ {0}
  BY <1>1 DEF Of
<1>3. ASSUME NEW W, NEW i \in Of(cmds, W), i # 1
      PROVE  i - 1 \in Of(cmds', W) /\ i \in Nat /\ i > 1
  <2>1. /\ i \in 1..Len(cmds) /\ i > 1 /\ cmds[i].do \in W
        /\ i - 1 \in 1..(Len(cmds) - 1) /\ (i - 1) + 1 = i
    BY <1>1, <1>3 DEF Of
  <2> QED BY <1>1, <2>1 DEF Of
<1>4. ASSUME NEW W PROVE 1 \in Of(cmds, W) <=> Head(cmds).do \in W
  BY <1>1 DEF Of
<1>5. ASSUME NEW W, Head(cmds).do \in W, One(Of(cmds, W))
      PROVE  Of(cmds', W) = {}
  BY <1>2, <1>4, <1>5 DEF One
<1>6. ASSUME NEW W, Head(cmds).do \notin W, One(Of(cmds, W))
      PROVE  One(Of(cmds', W))
  <2>1. PICK i \in Of(cmds, W) : Of(cmds, W) = {i}
    BY <1>6 DEF One
  <2>2. i # 1 /\ i - 1 \in Of(cmds', W) /\ i \in Nat
    BY <1>3, <1>4, <1>6, <2>1
  <2>3. ASSUME NEW j \in Of(cmds', W) PROVE j = i - 1
    BY <1>2, <2>1, <2>2
  <2> QED BY <2>2, <2>3 DEF One
<1> QED BY <1>1, <1>2, <1>3, <1>4, <1>5, <1>6
(* Messages t are messages s and m after them. *)
Posted(s, m, t) ==
    /\ t \in Seq(Messages)
    /\ Len(s) \in Nat /\ Len(t) = Len(s) + 1
    /\ \A W : m.type \notin W => In(t, W) = In(s, W)
    /\ \A W : m.type \in W => In(t, W) = In(s, W) \cup {Len(s) + 1}
    /\ \A W : m.type \in W /\ In(s, W) = {} => One(In(t, W))
    /\ \A W : \A i \in In(s, W) : t[i] = s[i] /\ i < Len(s) + 1
    /\ t[Len(s) + 1] = m

(* A message is posted behind the others. *)
LEMMA PostedIn ==
    ASSUME NEW s \in Seq(Messages), NEW m \in Messages
    PROVE  Posted(s, m, Append(s, m))
<1> DEFINE t == Append(s, m)
<1>1. /\ Len(s) \in Nat /\ DOMAIN s = 1..Len(s)
      /\ t \in Seq(Messages) /\ Len(t) = Len(s) + 1
      /\ DOMAIN t = 1..(Len(s) + 1)
      /\ \A i \in 1..Len(s) : t[i] = s[i]
      /\ t[Len(s) + 1] = m
  OBVIOUS
<1> HIDE DEF t
<1>2. DOMAIN t = DOMAIN s \cup {Len(s) + 1}
  BY <1>1
<1>3. ASSUME NEW W, m.type \notin W
      PROVE  In(t, W) = In(s, W)
  BY <1>1, <1>2, <1>3 DEF In
<1>4. ASSUME NEW W, m.type \in W
      PROVE  In(t, W) = In(s, W) \cup {Len(s) + 1}
  BY <1>1, <1>2, <1>4 DEF In
<1>5. ASSUME NEW W, NEW i \in In(s, W)
      PROVE  t[i] = s[i] /\ i < Len(s) + 1
  BY <1>1 DEF In
<1>6. Posted(s, m, t)
  BY <1>1, <1>3, <1>4, <1>5 DEF One, Posted
<1> QED BY <1>6 DEF t

(* A message is received: those behind it move up. *)
LEMMA ReceivedIn ==
    ASSUME inbox \in Seq(Messages), inbox # << >>, inbox' = Tail(inbox)
    PROVE  /\ inbox' \in Seq(Messages)
           /\ Head(inbox) \in Messages /\ Head(inbox) = inbox[1]
           /\ \A W : 1 \in In(inbox, W) <=> Head(inbox).type \in W
           /\ \A W : \A i \in In(inbox', W) : /\ i + 1 \in In(inbox, W)
                                            /\ inbox'[i] = inbox[i + 1]
                                            /\ i \in Nat \ {0}
           /\ \A W : \A i \in In(inbox, W) :
                 i # 1 => i - 1 \in In(inbox', W) /\ i \in Nat /\ i > 1
           /\ \A W : In(inbox, W) = {} => In(inbox', W) = {}
           /\ \A W : Head(inbox).type \in W /\ One(In(inbox, W)) =>
                 In(inbox', W) = {}
           /\ \A W : Head(inbox).type \notin W /\ One(In(inbox, W)) =>
                 One(In(inbox', W))
<1>1. /\ Len(inbox) \in Nat \ {0} /\ DOMAIN inbox = 1..Len(inbox)
      /\ inbox' \in Seq(Messages)
      /\ DOMAIN inbox' = 1..(Len(inbox) - 1)
      /\ \A i \in 1..(Len(inbox) - 1) : inbox'[i] = inbox[i + 1]
      /\ Head(inbox) = inbox[1] /\ Head(inbox) \in Messages
  OBVIOUS
<1>2. ASSUME NEW W, NEW i \in In(inbox', W)
      PROVE  i + 1 \in In(inbox, W) /\ inbox'[i] = inbox[i + 1]
             /\ i \in Nat \ {0}
  BY <1>1 DEF In
<1>3. ASSUME NEW W, NEW i \in In(inbox, W), i # 1
      PROVE  i - 1 \in In(inbox', W) /\ i \in Nat /\ i > 1
  <2>1. /\ i \in 1..Len(inbox) /\ i > 1 /\ inbox[i].type \in W
        /\ i - 1 \in 1..(Len(inbox) - 1) /\ (i - 1) + 1 = i
    BY <1>1, <1>3 DEF In
  <2> QED BY <1>1, <2>1 DEF In
<1>4. ASSUME NEW W PROVE 1 \in In(inbox, W) <=> Head(inbox).type \in W
  BY <1>1 DEF In
<1>5. ASSUME NEW W, Head(inbox).type \in W, One(In(inbox, W))
      PROVE  In(inbox', W) = {}
  BY <1>2, <1>4, <1>5 DEF One
<1>6. ASSUME NEW W, Head(inbox).type \notin W, One(In(inbox, W))
      PROVE  One(In(inbox', W))
  <2>1. PICK i \in In(inbox, W) : In(inbox, W) = {i}
    BY <1>6 DEF One
  <2>2. i # 1 /\ i - 1 \in In(inbox', W) /\ i \in Nat
    BY <1>3, <1>4, <1>6, <2>1
  <2>3. ASSUME NEW j \in In(inbox', W) PROVE j = i - 1
    BY <1>2, <2>1, <2>2
  <2> QED BY <2>2, <2>3 DEF One
<1> QED BY <1>1, <1>2, <1>3, <1>4, <1>5, <1>6

(* An operation joins the queue, or begins it. *)
LEMMA LaterKept ==
    ASSUME NEW q \in Seq(Entries), NEW e \in Entries
    PROVE  /\ Append(q, e) \in Seq(Entries) /\ Append(q, e) # << >>
           /\ Len(q) \in Nat /\ (q # << >> => Len(q) > 0)
           /\ q # << >> => Append(q, e)[1] = q[1]
           /\ e.op = "pause" => Later(Append(q, e)) = Later(q)
           /\ e.op # "pause" /\ q # << >> =>
                 Later(Append(q, e)) = Later(q) \cup {Len(q) + 1}
           /\ e.op # "pause" /\ q # << >> /\ Later(q) = {} =>
                 One(Later(Append(q, e)))
           /\ \A i \in Later(q) : Append(q, e)[i] = q[i]
           /\ Append(q, e)[Len(q) + 1] = e
           /\ Later(<<e>>) = {} /\ <<e>> \in Seq(Entries) /\ Head(<<e>>) = e
<1> DEFINE t == Append(q, e)
<1>a. /\ Len(q) \in Nat /\ DOMAIN q = 1..Len(q)
      /\ q # << >> => Len(q) > 0
  OBVIOUS
<1>b. /\ t \in Seq(Entries) /\ Len(t) = Len(q) + 1
      /\ \A i \in 1..Len(q) : t[i] = q[i]
      /\ t[Len(q) + 1] = e
  OBVIOUS
<1> HIDE DEF t
<1>1. /\ Len(q) \in Nat /\ DOMAIN q = 1..Len(q)
      /\ q # << >> => Len(q) > 0
      /\ t \in Seq(Entries) /\ Len(t) = Len(q) + 1 /\ t # << >>
      /\ DOMAIN t = 1..(Len(q) + 1)
      /\ \A i \in 1..Len(q) : t[i] = q[i]
      /\ t[Len(q) + 1] = e
  BY <1>a, <1>b
<1>2. q # << >> => t[1] = q[1]
  BY <1>1
<1>3. e.op = "pause" => Later(t) = Later(q)
  BY <1>1 DEF Later
<1>4. e.op # "pause" /\ q # << >> => Later(t) = Later(q) \cup {Len(q) + 1}
  BY <1>1 DEF Later
<1>5. e.op # "pause" /\ q # << >> /\ Later(q) = {} => One(Later(t))
  BY <1>4 DEF One
<1>6. \A i \in Later(q) : t[i] = q[i]
  BY <1>1 DEF Later
<1>7. Later(<<e>>) = {} /\ <<e>> \in Seq(Entries) /\ Head(<<e>>) = e
  BY DEF Later
<1> QED BY <1>1, <1>2, <1>3, <1>4, <1>5, <1>6, <1>7 DEF t

(* What begins is no longer behind the head. *)
LEMMA LaterBegins ==
    ASSUME NEW q \in Seq(Entries), Len(q) > 1
    PROVE  /\ Tail(q) \in Seq(Entries) /\ Tail(q) # << >>
           /\ Head(Tail(q)) = q[2] /\ q[2] \in Entries
           /\ Head(Tail(q)).op # "pause" <=> 2 \in Later(q)
           /\ Later(q) = {} => Later(Tail(q)) = {}
           /\ 2 \in Later(q) /\ One(Later(q)) => Later(Tail(q)) = {}
           /\ 2 \notin Later(q) /\ One(Later(q)) => One(Later(Tail(q)))
           /\ \A i \in Later(Tail(q)) : /\ i + 1 \in Later(q)
                                        /\ Tail(q)[i] = q[i + 1]
<1> DEFINE t == Tail(q)
<1>a. /\ Len(q) \in Nat /\ DOMAIN q = 1..Len(q) /\ 2 \in 1..Len(q)
      /\ q[2] \in Entries /\ q # << >>
  OBVIOUS
<1>b. /\ t \in Seq(Entries) /\ Len(t) = Len(q) - 1
      /\ \A i \in 1..(Len(q) - 1) : t[i] = q[i + 1]
  BY <1>a
<1> HIDE DEF t
<1>1. /\ Len(q) \in Nat /\ DOMAIN q = 1..Len(q) /\ 2 \in 1..Len(q)
      /\ t \in Seq(Entries) /\ Len(t) = Len(q) - 1 /\ t # << >>
      /\ DOMAIN t = 1..(Len(q) - 1)
      /\ \A i \in 1..(Len(q) - 1) : t[i] = q[i + 1]
      /\ Head(t) = t[1] /\ q[2] \in Entries
  BY <1>a, <1>b
<1>2. Head(t) = q[2]
  BY <1>1
<1>3. q[2].op # "pause" <=> 2 \in Later(q)
  BY <1>1 DEF Later
<1>4. ASSUME NEW i \in Later(t)
      PROVE  /\ i + 1 \in Later(q) /\ t[i] = q[i + 1]
             /\ i + 1 # 2 /\ i \in Nat
  <2>1. /\ i \in 1..(Len(q) - 1) /\ i > 1 /\ t[i] = q[i + 1]
        /\ t[i].op # "pause" /\ i + 1 \in 1..Len(q)
    BY <1>1 DEF Later
  <2> QED BY <1>1, <2>1 DEF Later
<1>5. 2 \in Later(q) /\ One(Later(q)) => Later(t) = {}
  BY <1>4 DEF One
<1>6. ASSUME 2 \notin Later(q), One(Later(q)) PROVE One(Later(t))
  <2>1. PICK i \in Later(q) : Later(q) = {i}
    BY <1>6 DEF One
  <2>2. i \in 1..Len(q) /\ i > 2 /\ q[i].op # "pause"
    BY <1>1, <1>6, <2>1 DEF Later
  <2>3. i - 1 \in 1..(Len(q) - 1) /\ (i - 1) + 1 = i /\ i - 1 > 1
    BY <1>1, <2>2
  <2>4. i - 1 \in Later(t)
    BY <1>1, <2>2, <2>3 DEF Later
  <2>5. ASSUME NEW j \in Later(t) PROVE j = i - 1
    BY <1>4, <2>1, <2>2
  <2> QED BY <2>4, <2>5 DEF One
<1> QED BY <1>1, <1>2, <1>3, <1>4, <1>5, <1>6 DEF t

-----------------------------------------------------------------------------
(* What the operations of the queue do, whatever the client does.          *)
QueueTyped ==
    /\ cmds \in Seq(Commands) /\ chain \in Seq(Entries)
    /\ head \in {"idle", "prepare", "break", "sent", "answered"}
    /\ (head = "idle") <=> (chain = << >>)
    /\ expected \in {"none", "pause", "over", "in"}
    /\ waiting \in {"no", "yes", "target"}

(* The commands that no operation of the queue sends stay as they are.     *)
OthersKept ==
    /\ Of(cmds', {"unbreak"}) = Of(cmds, {"unbreak"})
    /\ \A i \in Of(cmds, {"unbreak"}) : cmds'[i] = cmds[i]

(* The commands and the messages of the thread have their types. *)
LEMMA CommandsTyped ==
    /\ \A what \in {"resume", "step", "pause", "break", "unbreak", "raw"} :
          Do(what) \in Commands /\ Do(what).do = what
    /\ \A n \in Pauses : [do |-> "unbreak", pause |-> n] \in Commands
    /\ \A what \in {"ok", "fail", "resumed"} :
          Message(what) \in Messages /\ Message(what).type = what
    /\ \A n \in Pauses : [type |-> "paused", pause |-> n] \in Messages
  BY MaxPausesAssumption DEF Do, Message, Commands, Messages, Pauses

(* An operation that begins sends its command, or prepares it.             *)
LEMMA RunSteps ==
    ASSUME TypeOK, Of(cmds, FromQueue) = {}, In(inbox, Answers) = {},
           NEW q \in Seq(Entries), q # << >>, Run(q), inbox' = inbox
    PROVE  /\ QueueTyped' /\ QueueOK' /\ OthersKept /\ chain' = q
           /\ head' \in {"prepare", "break", "sent"}
           /\ head' = "break" => waiting' # "no"
           /\ Head(q).op = "pause" =>
                 /\ AsCommand' = AsCommand /\ ~AtHead'
                 /\ \A i \in AsCommand : cmds'[i] = cmds[i]
                 /\ expected' = "pause" /\ waiting' = waiting
           /\ Head(q).op # "pause" =>
                 /\ AsCommand = {} => \/ One(AsCommand') /\ ~AtHead'
                                      \/ AsCommand' = {} /\ AtHead'
                 /\ Of(cmds', {"pause"}) = {}
           /\ Head(q).op = "resume" =>
                 ~AtHead' /\ expected' = expected /\ waiting' = waiting
<1> DEFINE e == Head(q)
<1>1. /\ e \in Entries /\ e = q[1] /\ e.op \in Operations
      /\ cmds \in Seq(Commands) /\ inbox \in Seq(Messages)
      /\ expected \in {"none", "pause", "over", "in"}
      /\ waiting \in {"no", "yes", "target"}
  <2>1. e \in Entries /\ e = q[1]
    OBVIOUS
  <2> QED BY <2>1 DEF TypeOK, Entries
<1>2. /\ chain' = q
      /\ expected' = IF e.op = "resume" THEN expected ELSE e.op
      /\ waiting' = IF e.op = "in" THEN "yes" ELSE waiting
  BY DEF Run
<1>3. Of(cmds, {"pause"}) = {} /\ Of(cmds, {"break"}) = {}
  BY DEF Of, FromQueue
<1> HIDE DEF e
<1>4. CASE e.op \in {"resume", "pause"}
  <2>1. head' = "sent" /\ cmds' = Append(cmds, Do(e.op))
    BY <1>4 DEF Run, e
  <2>2. Do(e.op) \in Commands /\ Do(e.op).do = e.op
    BY <1>4, CommandsTyped
  <2>3. /\ cmds' \in Seq(Commands) /\ One(Of(cmds', FromQueue))
        /\ Of(cmds', FromQueue) = {Len(cmds) + 1}
        /\ cmds'[Len(cmds) + 1] = Do(e.op)
        /\ OthersKept
    BY <1>1, <1>4, <2>1, <2>2, SentOf DEF FromQueue, OthersKept
  <2>4. QueueTyped'
    BY <1>1, <1>2, <1>4, <2>1, <2>3 DEF QueueTyped, Operations
  <2>5. QueueOK'
    BY <1>1, <1>2, <1>4, <2>1, <2>2, <2>3 DEF QueueOK
  <2>6. ~AtHead'
    BY <2>1 DEF AtHead
  <2>7. CASE e.op = "pause"
    <3>1. AsCommand' = AsCommand /\ \A i \in AsCommand : cmds'[i] = cmds[i]
      BY <1>1, <2>1, <2>2, <2>7, SentOf DEF AsCommand, Leaving
    <3> QED BY <1>2, <2>1, <2>3, <2>4, <2>5, <2>6, <2>7, <3>1 DEF e
  <2>8. CASE e.op = "resume"
    <3>1. AsCommand = {} => One(AsCommand')
      BY <1>1, <2>1, <2>2, <2>8, SentOf DEF AsCommand, Leaving
    <3>2. Of(cmds', {"pause"}) = {}
      BY <1>1, <1>3, <2>1, <2>2, <2>8, SentOf
    <3> QED BY <1>2, <2>1, <2>3, <2>4, <2>5, <2>6, <2>8, <3>1, <3>2 DEF e
  <2> QED BY <1>4, <2>7, <2>8
<1>5. CASE e.op = "in" /\ e.target /\ details # None
  <2>1. head' = "break" /\ cmds' = Append(cmds, Do("break"))
    BY <1>5 DEF Run, e
  <2>2. Do("break") \in Commands /\ Do("break").do = "break"
    BY CommandsTyped
  <2>3. /\ cmds' \in Seq(Commands) /\ One(Of(cmds', FromQueue))
        /\ Of(cmds', FromQueue) = {Len(cmds) + 1}
        /\ cmds'[Len(cmds) + 1] = Do("break")
        /\ OthersKept
    BY <1>1, <2>1, <2>2, SentOf DEF FromQueue, OthersKept
  <2>4. QueueTyped'
    BY <1>1, <1>2, <1>5, <2>1, <2>3 DEF QueueTyped
  <2>5. QueueOK'
    BY <1>1, <1>2, <1>5, <2>1, <2>2, <2>3 DEF QueueOK
  <2>6. AsCommand' = AsCommand /\ Of(cmds', {"pause"}) = {}
    BY <1>1, <1>3, <2>1, <2>2, SentOf DEF AsCommand, Leaving
  <2> QED BY <1>2, <1>5, <2>1, <2>3, <2>4, <2>5, <2>6 DEF e, AtHead
<1>6. CASE e.op \in {"over", "in"} /\ ~(e.op = "in" /\ e.target
                                        /\ details # None)
  <2>1. head' = "prepare" /\ cmds' = cmds
    BY <1>6 DEF Run, e
  <2>2. QueueTyped' /\ OthersKept
    BY <1>1, <1>2, <1>6, <2>1 DEF QueueTyped, OthersKept
  <2>3. QueueOK'
    BY <1>1, <1>2, <1>6, <2>1 DEF QueueOK
  <2>4. AsCommand' = AsCommand /\ AtHead' /\ Of(cmds', {"pause"}) = {}
    BY <1>3, <2>1 DEF AsCommand, AtHead
  <2> QED BY <1>2, <1>6, <2>1, <2>2, <2>3, <2>4 DEF e
<1> QED BY <1>1, <1>4, <1>5, <1>6 DEF Operations

(* What every step of the queue keeps.                                     *)
QueueKeeps ==
    /\ QueueTyped' /\ QueueOK' /\ OthersKept
    /\ WaitingOK => WaitingOK'
    /\ head' = "sent" /\ chain'[1].op # "pause" =>
          \/ In(inbox, Answers) = {}
          \/ head = "sent" /\ chain[1].op # "pause"
    /\ \/ UNCHANGED <<cmds, expected>>
       \/ \A i \in Of(cmds', {"pause"}) : expected' = "pause"

(* The first operation begins at once, and others wait for it. *)
LEMMA AddedSteps ==
    ASSUME TypeOK, QueueOK, NEW e \in Entries, Added(e), inbox' = inbox
    PROVE  /\ QueueKeeps
           /\ e.op = "pause" =>
                 /\ NoneQueued => NoneQueued'
                 /\ OneQueued => OneQueued'
                 /\ QueuedToResume => QueuedToResume'
                 /\ waiting' = waiting /\ expected' \in {expected, "pause"}
           /\ e.op # "pause" /\ NoneQueued => OneQueued'
           /\ e.op = "resume" /\ QueuedToResume =>
                 QueuedToResume' /\ waiting' = waiting
<1>1. chain \in Seq(Entries) /\ e.op \in Operations
  BY DEF TypeOK, Entries
<1>2. CASE chain = << >>
  <2>1. /\ Run(<<e>>) /\ <<e>> \in Seq(Entries) /\ <<e>> # << >>
        /\ Head(<<e>>) = e /\ Later(<<e>>) = {} /\ <<e>>[1] = e
    BY <1>1, <1>2, LaterKept DEF Added
  <2>2. head = "idle" /\ ~AtHead /\ Later(chain) = {}
    BY <1>2 DEF TypeOK, AtHead, Later
  <2>3. Of(cmds, FromQueue) = {} /\ In(inbox, Answers) = {}
    BY <2>2 DEF QueueOK
  <2>4. /\ QueueTyped' /\ QueueOK' /\ OthersKept /\ chain' = <<e>>
        /\ head' = "break" => waiting' # "no"
        /\ e.op = "pause" =>
              /\ AsCommand' = AsCommand /\ ~AtHead'
              /\ expected' = "pause" /\ waiting' = waiting
        /\ e.op # "pause" =>
              /\ AsCommand = {} => \/ One(AsCommand') /\ ~AtHead'
                                   \/ AsCommand' = {} /\ AtHead'
              /\ Of(cmds', {"pause"}) = {}
        /\ e.op = "resume" => ~AtHead' /\ waiting' = waiting
    BY <2>1, <2>3, RunSteps
  <2>5. Later(chain') = {}
    BY <2>1, <2>4
  <2>6. QueueKeeps
    BY <2>3, <2>4 DEF QueueKeeps, WaitingOK
  <2> QED BY <2>2, <2>4, <2>5, <2>6
          DEF NoneQueued, OneQueued, QueuedToResume
<1>3. CASE chain # << >>
  <2>1. chain' = Append(chain, e) /\ UNCHANGED <<head, cmds, expected, waiting>>
    BY <1>3 DEF Added
  <2>2. /\ chain' \in Seq(Entries) /\ chain' # << >> /\ chain'[1] = chain[1]
        /\ e.op = "pause" => Later(chain') = Later(chain)
        /\ e.op # "pause" => Later(chain') = Later(chain) \cup {Len(chain) + 1}
        /\ e.op # "pause" /\ Later(chain) = {} => One(Later(chain'))
        /\ \A i \in Later(chain) : chain'[i] = chain[i]
        /\ chain'[Len(chain) + 1] = e
    <3> DEFINE q == Append(chain, e)
    <3>1. /\ q \in Seq(Entries) /\ q # << >> /\ q[1] = chain[1]
          /\ e.op = "pause" => Later(q) = Later(chain)
          /\ e.op # "pause" => Later(q) = Later(chain) \cup {Len(chain) + 1}
          /\ e.op # "pause" /\ Later(chain) = {} => One(Later(q))
          /\ \A i \in Later(chain) : q[i] = chain[i]
          /\ q[Len(chain) + 1] = e
      BY <1>1, <1>3, LaterKept
    <3> HIDE DEF q
    <3>2. chain' = q
      BY <2>1 DEF q
    <3> QED BY <3>1, <3>2
  <2>3. AsCommand' = AsCommand /\ AtHead' = AtHead
    BY <2>1 DEF AsCommand, AtHead
  <2>4. QueueTyped'
    BY <1>3, <2>1, <2>2 DEF QueueTyped, TypeOK
  <2>5. QueueOK' /\ OthersKept
    BY <2>1, <2>2 DEF QueueOK, OthersKept
  <2>6. QueueKeeps
    BY <2>1, <2>2, <2>4, <2>5 DEF QueueKeeps, WaitingOK
  <2>7. /\ e.op = "pause" => /\ NoneQueued => NoneQueued'
                             /\ OneQueued => OneQueued'
                             /\ QueuedToResume => QueuedToResume'
        /\ e.op # "pause" /\ NoneQueued => OneQueued'
    BY <2>2, <2>3 DEF NoneQueued, OneQueued, QueuedToResume
  <2>8. e.op = "resume" /\ QueuedToResume => QueuedToResume'
    BY <2>2, <2>3 DEF QueuedToResume
  <2> QED BY <2>1, <2>6, <2>7, <2>8
<1> QED BY <1>2, <1>3

(* enqueue(): one more resume or step is under way, and one at most. *)
LEMMA EnqueueSteps ==
    ASSUME TypeOK, QueueOK, NEW c \in Callers, NEW e \in Entries,
           Enqueue(c, e), inbox' = inbox
    PROVE  /\ QueueKeeps /\ flushing' \subseteq [by : Callers, entry : Entries]
           /\ e.op = "pause" =>
                 /\ NoLeave => NoLeave'
                 /\ OneLeave => OneLeave'
                 /\ ToResume => ToResume'
                 /\ waiting' = waiting /\ expected' \in {expected, "pause"}
           /\ e.op # "pause" /\ NoLeave => OneLeave'
           /\ e.op = "resume" /\ ToResume => ToResume' /\ waiting' = waiting
<1>1. flushing \subseteq [by : Callers, entry : Entries]
  BY DEF TypeOK
<1>2. CASE chain # << >> /\ Latest(chain) = e.op
  <2> DEFINE f == [by |-> c, entry |-> e]
  <2>1. flushing' = flushing \cup {f} /\ UNCHANGED <<queueVars, cmds>>
    BY <1>2 DEF Enqueue
  <2>2. UNCHANGED <<cmds, chain, head, expected, waiting>>
    BY <2>1 DEF queueVars
  <2>3. f \in [by : Callers, entry : Entries] /\ f.entry = e
    OBVIOUS
  <2> HIDE DEF f
  <2>4. QueueKeeps
    BY <2>2 DEF QueueKeeps, QueueTyped, TypeOK, QueueOK, OthersKept, WaitingOK
  <2>5. /\ NoneQueued' = NoneQueued /\ OneQueued' = OneQueued
        /\ QueuedToResume' = QueuedToResume
    BY <2>2 DEF NoneQueued, OneQueued, QueuedToResume, AsCommand, AtHead
  <2>6. /\ e.op = "pause" => Flushing' = Flushing
        /\ e.op # "pause" => Flushing' = Flushing \cup {f}
    BY <2>1, <2>3 DEF Flushing
  <2>7. e.op # "pause" /\ NoLeave => OneLeave'
    BY <2>5, <2>6 DEF NoLeave, OneLeave, One
  <2>8. /\ e.op = "pause" => /\ NoLeave => NoLeave'
                             /\ OneLeave => OneLeave'
                             /\ ToResume => ToResume'
        /\ e.op = "resume" /\ ToResume => ToResume'
    BY <2>3, <2>5, <2>6 DEF NoLeave, OneLeave, ToResume
  <2> QED BY <1>1, <2>1, <2>2, <2>3, <2>4, <2>7, <2>8
<1>3. CASE ~(chain # << >> /\ Latest(chain) = e.op)
  <2>1. Added(e) /\ flushing' = flushing
    BY <1>3 DEF Enqueue
  <2>2. Flushing' = Flushing
    BY <2>1 DEF Flushing
  <2> QED BY <1>1, <2>1, <2>2, AddedSteps DEF NoLeave, OneLeave, ToResume
<1> QED BY <1>2, <1>3

(* What waited for the flush is taken for the latest operation, or added.  *)
LEMMA FlushedSteps ==
    ASSUME TypeOK, QueueOK, NEW f \in flushing, Flushed(f),
           NoLeave \/ OneLeave,
           f.entry.op # "pause" =>
               ~(chain # << >> /\ Latest(chain) = f.entry.op)
    PROVE  /\ NoLeave => NoLeave'
           /\ OneLeave => OneLeave'
           /\ ToResume => ToResume' /\ waiting' = waiting
           /\ NoLeave => expected' \in {expected, "pause"}
<1>1. /\ f.entry \in Entries /\ inbox' = inbox /\ flushing' = flushing \ {f}
      /\ IF chain # << >> /\ Latest(chain) = f.entry.op
         THEN UNCHANGED <<queueVars, cmds>>
         ELSE Added(f.entry)
  BY DEF Flushed, TypeOK
<1>2. CASE f.entry.op # "pause"
  <2>1. Added(f.entry)
    BY <1>1, <1>2
  <2>2. f \in Flushing
    BY <1>2 DEF Flushing
  <2>3. NoneQueued /\ Flushing = {f} /\ ~NoLeave
    BY <2>2 DEF NoLeave, OneLeave, One
  <2>4. Flushing' = {}
    BY <1>1, <2>3 DEF Flushing
  <2>5. OneQueued'
    BY <1>1, <1>2, <2>1, <2>3, AddedSteps
  <2>6. ToResume => ToResume' /\ waiting' = waiting
    BY <1>1, <2>1, <2>3, <2>4, AddedSteps DEF ToResume
  <2> QED BY <2>3, <2>4, <2>5, <2>6 DEF OneLeave
<1>3. CASE f.entry.op = "pause"
  <2>1. Flushing' = Flushing
    BY <1>1, <1>3 DEF Flushing
  <2>2. CASE chain # << >> /\ Latest(chain) = f.entry.op
    <3>1. UNCHANGED <<cmds, chain, head, expected, waiting>>
      BY <1>1, <2>2 DEF queueVars
    <3> QED BY <2>1, <3>1
            DEF NoLeave, OneLeave, ToResume, NoneQueued, OneQueued,
                QueuedToResume, AsCommand, AtHead
  <2>3. CASE ~(chain # << >> /\ Latest(chain) = f.entry.op)
    <3>1. Added(f.entry)
      BY <1>1, <2>3
    <3> QED BY <1>1, <1>3, <2>1, <3>1, AddedSteps
            DEF NoLeave, OneLeave, ToResume
  <2> QED BY <2>2, <2>3
<1> QED BY <1>2, <1>3

(* Whatever waits for the flush, the queue remains in order. *)
LEMMA FlushedKeeps ==
    ASSUME TypeOK, QueueOK, NEW f \in flushing, Flushed(f)
    PROVE  QueueKeeps /\ flushing' \subseteq [by : Callers, entry : Entries]
<1>1. /\ f.entry \in Entries /\ inbox' = inbox
      /\ flushing' \subseteq [by : Callers, entry : Entries]
      /\ IF chain # << >> /\ Latest(chain) = f.entry.op
         THEN UNCHANGED <<queueVars, cmds>>
         ELSE Added(f.entry)
  BY DEF Flushed, TypeOK
<1>2. CASE UNCHANGED <<queueVars, cmds>>
  BY <1>1, <1>2
  DEF queueVars, QueueKeeps, QueueTyped, TypeOK, QueueOK, OthersKept, WaitingOK
<1>3. CASE Added(f.entry)
  BY <1>1, <1>3, AddedSteps
<1> QED BY <1>1, <1>2, <1>3

(* The next operation begins.                                              *)
LEMMA OperationOverSteps ==
    ASSUME TypeOK, QueueOK, OperationOver
    PROVE  /\ QueueKeeps
           /\ NoLeave => NoLeave' /\ expected' \in {expected, "pause"}
           /\ OneLeave => OneLeave'
           /\ ToResume => ToResume' /\ waiting' = waiting
<1>1. /\ head = "answered" /\ inbox' = inbox /\ flushing' = flushing
      /\ IF Len(chain) > 1 THEN Run(Tail(chain))
         ELSE /\ chain' = << >> /\ head' = "idle"
              /\ UNCHANGED <<cmds, expected, waiting>>
  BY DEF OperationOver
<1>2. /\ chain \in Seq(Entries) /\ ~AtHead /\ Flushing' = Flushing
      /\ Of(cmds, FromQueue) = {} /\ In(inbox, Answers) = {}
  BY <1>1 DEF TypeOK, QueueOK, AtHead, Flushing
<1>3. CASE Len(chain) > 1
  <2> DEFINE q == Tail(chain)
  <2>1. /\ q \in Seq(Entries) /\ q # << >> /\ Run(q)
        /\ Head(q).op # "pause" <=> 2 \in Later(chain)
        /\ Later(chain) = {} => Later(q) = {}
        /\ 2 \in Later(chain) /\ One(Later(chain)) => Later(q) = {}
        /\ 2 \notin Later(chain) /\ One(Later(chain)) => One(Later(q))
        /\ \A i \in Later(q) : i + 1 \in Later(chain) /\ q[i] = chain[i + 1]
        /\ Head(q) = chain[2]
    BY <1>1, <1>2, <1>3, LaterBegins
  <2> HIDE DEF q
  <2>2. /\ QueueTyped' /\ QueueOK' /\ OthersKept /\ chain' = q
        /\ head' = "break" => waiting' # "no"
        /\ Head(q).op = "pause" =>
              /\ AsCommand' = AsCommand /\ ~AtHead'
              /\ expected' = "pause" /\ waiting' = waiting
        /\ Head(q).op # "pause" =>
              /\ AsCommand = {} => \/ One(AsCommand') /\ ~AtHead'
                                   \/ AsCommand' = {} /\ AtHead'
              /\ Of(cmds', {"pause"}) = {}
        /\ Head(q).op = "resume" => ~AtHead' /\ waiting' = waiting
    BY <1>1, <1>2, <2>1, RunSteps
  <2>3. QueueKeeps
    BY <1>2, <2>2 DEF QueueKeeps, WaitingOK
  <2>4. NoneQueued => NoneQueued' /\ expected' = "pause"
    BY <2>1, <2>2 DEF NoneQueued
  <2>a. ASSUME OneQueued PROVE OneQueued'
    <3>1. CASE Later(chain) = {}
      BY <1>2, <2>1, <2>2, <2>a, <3>1, OneIsSome DEF OneQueued
    <3>2. CASE AsCommand = {} /\ One(Later(chain)) /\ 2 \in Later(chain)
      BY <1>2, <2>1, <2>2, <3>2 DEF OneQueued
    <3>3. CASE AsCommand = {} /\ One(Later(chain)) /\ 2 \notin Later(chain)
      BY <1>2, <2>1, <2>2, <3>3 DEF OneQueued
    <3> QED BY <2>a, <3>1, <3>2, <3>3 DEF OneQueued
  <2>5. QueuedToResume => QueuedToResume' /\ waiting' = waiting
    BY <2>1, <2>2 DEF QueuedToResume
  <2> QED BY <1>2, <1>1, <2>3, <2>4, <2>5, <2>a
          DEF NoLeave, OneLeave, ToResume
<1>4. CASE ~(Len(chain) > 1)
  <2>1. /\ chain' = << >> /\ head' = "idle"
        /\ UNCHANGED <<cmds, expected, waiting>>
    BY <1>1, <1>4
  <2>2. AsCommand' = AsCommand /\ ~AtHead'
    BY <2>1 DEF AsCommand, AtHead
  <2>a. Later(chain) = {}
    BY <1>2, <1>4 DEF Later
  <2>b. Later(chain') = {}
    BY <2>1 DEF Later
  <2>3. QueueTyped'
    BY <2>1 DEF QueueTyped, TypeOK
  <2>4. QueueOK' /\ OthersKept
    BY <1>1, <1>2, <2>1 DEF QueueOK, OthersKept
  <2>5. QueueKeeps
    BY <1>2, <2>1, <2>3, <2>4 DEF QueueKeeps, WaitingOK
  <2> QED BY <1>1, <1>2, <2>1, <2>2, <2>a, <2>b, <2>5, OneIsSome
          DEF NoLeave, OneLeave, ToResume, NoneQueued, OneQueued,
              QueuedToResume
<1> QED BY <1>3, <1>4

-----------------------------------------------------------------------------
(* The types, the queue and the kinds of pauses: every step keeps Base,    *)
(* whatever the client does.                                               *)

(* What the machine sends when it leaves a pause, or refuses to.           *)
Sends(c) ==
    /\ inbox' \in Seq(Messages)
    /\ \A W : W \cap {"ok", "fail", "resumed"} = {} =>
          In(inbox', W) = In(inbox, W)
    /\ \A W : \A i \in In(inbox, W) : inbox'[i] = inbox[i]
    /\ c.do = "raw" => In(inbox', Answers) = In(inbox, Answers)
    /\ c.do # "raw" /\ In(inbox, Answers) = {} => One(In(inbox', Answers))
    /\ vm # 0 => /\ In(inbox', {"fail"}) = In(inbox, {"fail"})
                 /\ \E j \in In(inbox', {"resumed"}) :
                       \A i \in In(inbox', Answers) : i < j

LEMMA LeavesSends ==
    ASSUME inbox \in Seq(Messages), NEW c \in Commands, Leaves(c)
    PROVE  Sends(c)
<1> DEFINE a == IF vm # 0 THEN "ok" ELSE "fail"
<1>1. /\ a \in Answers /\ Message(a) \in Messages /\ Message(a).type = a
      /\ Message("resumed") \in Messages
      /\ Message("resumed").type = "resumed"
  BY CommandsTyped DEF Answers
<1>2. inbox' = inbox \o (IF c.do = "raw" THEN << >> ELSE <<Message(a)>>)
                     \o (IF vm # 0 THEN <<Message("resumed")>> ELSE << >>)
  BY DEF Leaves
<1>a. vm # 0 => a = "ok"
  OBVIOUS
<1> HIDE DEF a
<1> DEFINE t == IF c.do = "raw" THEN inbox ELSE Append(inbox, Message(a))
<1>3. /\ t \in Seq(Messages) /\ Len(t) \in Nat /\ Len(inbox) <= Len(t)
      /\ \A W : a \notin W => In(t, W) = In(inbox, W)
      /\ \A W : \A i \in In(inbox, W) : t[i] = inbox[i]
      /\ \A W : \A i \in In(t, W) : i < Len(t) + 1
      /\ \A W : c.do = "raw" => In(t, W) = In(inbox, W)
      /\ c.do # "raw" /\ In(inbox, Answers) = {} => One(In(t, Answers))
  <2>1. CASE c.do = "raw"
    <3>1. /\ Len(inbox) \in Nat
          /\ \A W : \A i \in In(inbox, W) : i < Len(inbox) + 1
      BY DEF In
    <3> QED BY <2>1, <3>1
  <2>2. CASE c.do # "raw"
    <3>1. t = Append(inbox, Message(a))
      BY <2>2
    <3> HIDE DEF t
    <3>2. /\ t \in Seq(Messages) /\ Len(t) = Len(inbox) + 1
          /\ Len(inbox) \in Nat
      BY <1>1, <3>1
    <3>a. Posted(inbox, Message(a), t)
      BY <1>1, <3>1, PostedIn
    <3>3. /\ \A W : a \notin W => In(t, W) = In(inbox, W)
          /\ \A W : \A i \in In(inbox, W) : t[i] = inbox[i]
          /\ In(inbox, Answers) = {} => One(In(t, Answers))
      BY <1>1, <3>a DEF Posted
    <3>4. \A W : \A i \in In(t, W) : i < Len(t) + 1
      BY <3>2 DEF In
    <3> QED BY <2>2, <3>2, <3>3, <3>4
  <2> QED BY <2>1, <2>2
<1>4. inbox' = IF vm # 0 THEN Append(t, Message("resumed")) ELSE t
  <2>1. CASE c.do = "raw"
    BY <1>1, <1>2, <2>1
  <2>2. CASE c.do # "raw"
    BY <1>1, <1>2, <2>2
  <2> QED BY <2>1, <2>2
<1> HIDE DEF t
<1>5. CASE vm = 0
  <2>1. inbox' = t
    BY <1>4, <1>5
  <2>2. \A W : W \cap {"ok", "fail", "resumed"} = {} => a \notin W
    BY <1>1 DEF Answers
  <2> QED BY <1>3, <1>5, <2>1, <2>2 DEF Sends
<1>6. CASE vm # 0
  <2>1. inbox' = Append(t, Message("resumed"))
    BY <1>4, <1>6
  <2>2. /\ inbox' \in Seq(Messages)
        /\ \A W : "resumed" \notin W => In(inbox', W) = In(t, W)
        /\ Len(t) + 1 \in In(inbox', {"resumed"})
        /\ \A W : \A i \in In(t, W) : inbox'[i] = t[i]
    <3>1. Posted(t, Message("resumed"), inbox')
      BY <1>1, <1>3, <2>1, PostedIn
    <3> QED BY <1>1, <3>1 DEF Posted
  <2>3. \A W : W \cap {"ok", "fail", "resumed"} = {} =>
           In(inbox', W) = In(inbox, W)
    BY <1>1, <1>3, <2>2 DEF Answers
  <2>4. \A W : \A i \in In(inbox, W) : inbox'[i] = inbox[i]
    <3> SUFFICES ASSUME NEW W, NEW i \in In(inbox, W)
                 PROVE  inbox'[i] = inbox[i]
      OBVIOUS
    <3>1. i \in 1..Len(inbox) /\ t[i] = inbox[i]
      BY <1>3 DEF In
    <3>2. i \in 1..Len(t)
      BY <1>3, <3>1
    <3> QED BY <1>1, <1>3, <2>1, <3>1, <3>2
  <2>5. In(inbox', Answers) = In(t, Answers)
    BY <2>2 DEF Answers
  <2>6. In(inbox', {"fail"}) = In(inbox, {"fail"})
    BY <1>3, <1>6, <1>a, <2>2
  <2>7. \E j \in In(inbox', {"resumed"}) : \A i \in In(inbox', Answers) : i < j
    BY <1>3, <2>2, <2>5
  <2> QED BY <1>3, <1>6, <2>2, <2>3, <2>4, <2>5, <2>6, <2>7 DEF Sends
<1> QED BY <1>5, <1>6

LEMMA TheNextPause ==
    ASSUME KindOK, \E n \in Pauses : kind[n] = "none"
    PROVE  /\ NextPause \in Pauses /\ kind[NextPause] = "none"
           /\ \A n \in Pauses : n < NextPause => kind[n] # "none"
           /\ \A n \in Pauses : n > NextPause => kind[n] = "none"
<1>1. PICK k \in 0..MaxPauses : \A n \in Pauses : kind[n] # "none" <=> n <= k
  BY DEF KindOK
<1>2. k + 1 \in Pauses /\ kind[k + 1] = "none"
  BY <1>1, MaxPausesAssumption DEF Pauses
<1>3. \A i \in 1..((k + 1) - 1) : kind[i] # "none"
  BY <1>1, MaxPausesAssumption DEF Pauses
<1>4. /\ NextPause \in Pauses /\ kind[NextPause] = "none"
      /\ \A i \in 1..(NextPause - 1) : kind[i] # "none"
  BY <1>2, <1>3 DEF NextPause
<1>5. NextPause = k + 1
  BY <1>1, <1>2, <1>4, MaxPausesAssumption DEF Pauses
<1> QED BY <1>1, <1>4, <1>5, MaxPausesAssumption DEF Pauses

LEMMA MachinePausesBase ==
    ASSUME Base, NEW k \in Kinds, MachinePauses(k)
    PROVE  Base'
<1> DEFINE n == NextPause
           m == [type |-> "paused", pause |-> n]
<1>1. /\ n \in Pauses /\ kind[n] = "none"
      /\ \A i \in Pauses : i < n => kind[i] # "none"
      /\ \A i \in Pauses : i > n => kind[i] = "none"
  BY TheNextPause DEF Base, MachinePauses
<1>2. /\ vm' = n /\ kind' = [kind EXCEPT ![n] = k] /\ wanted' = FALSE
      /\ inbox' = Append(inbox, m)
      /\ UNCHANGED <<planted, cmds, chain, head, expected, waiting, flushing,
                     details, handler, refresh, view, asked, dismissed,
                     rushed>>
  BY DEF MachinePauses, queueVars, clientVars
<1>3. m \in Messages /\ m.type = "paused" /\ m.pause = n
  BY <1>1, CommandsTyped
<1> HIDE DEF n, m
<1>a. Posted(inbox, m, inbox')
  BY <1>2, <1>3, PostedIn DEF Base, TypeOK
<1>4. TypeOK'
  <2>1. n \in 0..MaxPauses
    BY <1>1 DEF Pauses
  <2>2. inbox' \in Seq(Messages)
    BY <1>a DEF Posted
  <2>3. kind' \in [Pauses -> Kinds \cup {"none"}]
    BY <1>1, <1>2 DEF Base, TypeOK
  <2> QED BY <1>2, <2>1, <2>2, <2>3 DEF Base, TypeOK
<1>5. /\ In(inbox', Answers) = In(inbox, Answers)
      /\ In(inbox', {"paused", "unbroken"}) =
            In(inbox, {"paused", "unbroken"}) \cup {Len(inbox) + 1}
      /\ \A i \in In(inbox, {"paused", "unbroken"}) : inbox'[i] = inbox[i]
      /\ inbox'[Len(inbox) + 1] = m
  BY <1>3, <1>a DEF Posted, Answers
<1>6. QueueOK'
  BY <1>2, <1>5 DEF Base, QueueOK
<1>7. kind'[n] = k /\ k # "none" /\ \A i \in Pauses \ {n} : kind'[i] = kind[i]
  BY <1>1, <1>2 DEF Base, TypeOK, Kinds
<1>8. KindOK'
  <2>1. \E j \in 0..MaxPauses : \A i \in Pauses : kind'[i] # "none" <=> i <= j
    <3>1. n \in 0..MaxPauses
      BY <1>1 DEF Pauses
    <3>2. \A i \in Pauses : kind'[i] # "none" <=> i <= n
      BY <1>1, <1>7, MaxPausesAssumption DEF Pauses
    <3> QED BY <3>1, <3>2
  <2>2. \A i \in Pauses : handler'[i] # "none" =>
                             kind'[i] = kind[i] /\ kind'[i] # "none"
    BY <1>1, <1>2, <1>7 DEF Base, KindOK
  <2>3. \A i \in In(inbox', {"paused", "unbroken"}) :
           inbox'[i].pause \in Pauses /\ kind'[inbox'[i].pause] # "none"
    BY <1>1, <1>3, <1>5, <1>7 DEF Base, KindOK
  <2>4. \A i \in Of(cmds', {"unbreak"}) :
           cmds'[i].pause \in Pauses /\ kind'[cmds'[i].pause] # "none"
    BY <1>1, <1>2, <1>7 DEF Base, KindOK
  <2> QED BY <1>1, <1>2, <1>7, <2>1, <2>2, <2>3, <2>4 DEF Base, KindOK
<1> QED BY <1>4, <1>6, <1>8 DEF Base

(* What the handlers and the messages say of pauses still holds. *)
LEMMA KindKept ==
    ASSUME KindOK, UNCHANGED <<kind, vm, wanted>>,
           \A n \in Pauses :
               \/ handler'[n] = handler[n]
               \/ /\ kind[n] # "none"
                  /\ handler'[n] \notin {"skip", "bypass", "unbreak"},
           \A i \in In(inbox', {"paused", "unbroken"}) :
               \E j \in In(inbox, {"paused", "unbroken"}) :
                   inbox'[i] = inbox[j],
           \A i \in Of(cmds', {"unbreak"}) :
               \E j \in Of(cmds, {"unbreak"}) : cmds'[i] = cmds[j]
    PROVE  KindOK'
<1>1. \A n \in Pauses :
         /\ handler'[n] # "none" => kind[n] # "none"
         /\ handler'[n] \in {"skip", "bypass"} => kind[n] \in {"skip", "script"}
         /\ handler'[n] = "unbreak" => kind[n] = "target"
  BY DEF KindOK
<1>2. /\ \A i \in In(inbox', {"paused", "unbroken"}) :
            inbox'[i].pause \in Pauses /\ kind[inbox'[i].pause] # "none"
      /\ \A i \in Of(cmds', {"unbreak"}) :
            cmds'[i].pause \in Pauses /\ kind[cmds'[i].pause] # "none"
  BY DEF KindOK
<1> QED BY <1>1, <1>2 DEF KindOK

(* The machine takes the next command.                                     *)
LEMMA MachineObeysBase ==
    ASSUME Base, MachineObeys
    PROVE  Base'
<1> DEFINE c == Head(cmds)
<1>1. /\ cmds # << >> /\ cmds' = Tail(cmds)
      /\ Leaves(c) \/ AsksToPause(c) \/ Plants(c)
      /\ UNCHANGED <<chain, head, expected, waiting, flushing, details,
                     handler, refresh, view, asked, dismissed, rushed>>
  BY DEF MachineObeys, queueVars, clientVars
<1>2. /\ cmds' \in Seq(Commands) /\ c \in Commands /\ c = cmds[1]
      /\ \A W : 1 \in Of(cmds, W) <=> c.do \in W
      /\ \A W : \A i \in Of(cmds', W) :
            i + 1 \in Of(cmds, W) /\ cmds'[i] = cmds[i + 1]
      /\ \A W : Of(cmds, W) = {} => Of(cmds', W) = {}
      /\ \A W : c.do \in W /\ One(Of(cmds, W)) => Of(cmds', W) = {}
      /\ \A W : c.do \notin W /\ One(Of(cmds, W)) => One(Of(cmds', W))
  BY <1>1, TakenOf DEF Base, TypeOK
<1> HIDE DEF c
<1>3. /\ vm' \in {vm, 0} /\ kind' = kind /\ planted' \in BOOLEAN
      /\ wanted' \in BOOLEAN /\ (wanted' => vm' = 0)
      /\ inbox' \in Seq(Messages)
      /\ c.do \in FromQueue /\ In(inbox, Answers) = {} =>
            One(In(inbox', Answers))
      /\ c.do \notin FromQueue => In(inbox', Answers) = In(inbox, Answers)
      /\ \A i \in In(inbox', {"paused", "unbroken"}) :
            \/ /\ i \in In(inbox, {"paused", "unbroken"})
               /\ inbox'[i] = inbox[i]
            \/ c.do = "unbreak" /\ inbox'[i].pause = c.pause
  <2>1. CASE Leaves(c)
    <3>1. /\ c.do \in {"resume", "step", "raw"} /\ vm' = 0
          /\ UNCHANGED <<kind, wanted, planted>>
      BY <2>1 DEF Leaves
    <3>2. /\ inbox' \in Seq(Messages)
          /\ In(inbox', {"paused", "unbroken"}) =
                In(inbox, {"paused", "unbroken"})
          /\ \A i \in In(inbox, {"paused", "unbroken"}) : inbox'[i] = inbox[i]
          /\ c.do = "raw" => In(inbox', Answers) = In(inbox, Answers)
          /\ c.do # "raw" /\ In(inbox, Answers) = {} =>
                One(In(inbox', Answers))
      <4>1. Sends(c)
        BY <1>2, <2>1, LeavesSends DEF Base, TypeOK
      <4> QED BY <4>1 DEF Sends
    <3> QED BY <3>1, <3>2 DEF Base, TypeOK, FromQueue
  <2>2. CASE AsksToPause(c)
    <3>1. /\ c.do = "pause" /\ wanted' = (wanted \/ vm = 0)
          /\ inbox' = Append(inbox, Message("ok"))
          /\ UNCHANGED <<vm, kind, planted>>
      BY <2>2 DEF AsksToPause
    <3>2. Posted(inbox, Message("ok"), inbox') /\ Message("ok").type = "ok"
      BY <3>1, CommandsTyped, PostedIn DEF Base, TypeOK
    <3>3. /\ inbox' \in Seq(Messages)
          /\ In(inbox, Answers) = {} => One(In(inbox', Answers))
          /\ In(inbox', {"paused", "unbroken"}) =
                In(inbox, {"paused", "unbroken"})
          /\ \A i \in In(inbox, {"paused", "unbroken"}) : inbox'[i] = inbox[i]
      BY <3>2 DEF Posted, Answers
    <3>4. wanted' \in BOOLEAN /\ (wanted' => vm' = 0)
      BY <3>1 DEF Base, TypeOK, KindOK
    <3> QED BY <3>1, <3>3, <3>4 DEF Base, TypeOK, FromQueue
  <2>3. CASE Plants(c)
    <3> DEFINE m == IF c.do = "break" THEN Message("ok")
                    ELSE [type |-> "unbroken", pause |-> c.pause]
    <3>1. /\ c.do \in {"break", "unbreak"} /\ planted' = (c.do = "break")
          /\ inbox' = Append(inbox, m)
          /\ UNCHANGED <<vm, kind, wanted>>
      BY <2>3 DEF Plants
    <3>2. /\ m \in Messages
          /\ c.do = "break" => m.type = "ok"
          /\ c.do = "unbreak" => m.type = "unbroken" /\ m.pause = c.pause
      BY <1>2, <3>1, CommandsTyped DEF Commands, Messages
    <3> HIDE DEF m
    <3>3. Posted(inbox, m, inbox')
      BY <3>1, <3>2, PostedIn DEF Base, TypeOK
    <3>4. CASE c.do = "break"
      <4>1. /\ inbox' \in Seq(Messages)
            /\ In(inbox, Answers) = {} => One(In(inbox', Answers))
            /\ In(inbox', {"paused", "unbroken"}) =
                  In(inbox, {"paused", "unbroken"})
            /\ \A i \in In(inbox, {"paused", "unbroken"}) :
                  inbox'[i] = inbox[i]
        BY <3>2, <3>3, <3>4 DEF Posted, Answers
      <4> QED BY <3>1, <3>4, <4>1 DEF Base, TypeOK, KindOK, FromQueue
    <3>5. CASE c.do = "unbreak"
      <4>1. /\ inbox' \in Seq(Messages)
            /\ In(inbox', Answers) = In(inbox, Answers)
            /\ In(inbox', {"paused", "unbroken"}) =
                  In(inbox, {"paused", "unbroken"}) \cup {Len(inbox) + 1}
            /\ \A i \in In(inbox, {"paused", "unbroken"}) :
                  inbox'[i] = inbox[i]
            /\ inbox'[Len(inbox) + 1] = m
        BY <3>2, <3>3, <3>5 DEF Posted, Answers
      <4>2. planted' \in BOOLEAN /\ (wanted' => vm' = 0) /\ wanted' \in BOOLEAN
        BY <3>1 DEF Base, TypeOK, KindOK
      <4>3. c.do \notin FromQueue
        BY <3>5 DEF FromQueue
      <4> QED BY <3>1, <3>2, <3>5, <4>1, <4>2, <4>3
    <3> QED BY <3>1, <3>4, <3>5
  <2> QED BY <1>1, <2>1, <2>2, <2>3
<1>4. TypeOK'
  BY <1>1, <1>2, <1>3, MaxPausesAssumption DEF Base, TypeOK
<1>5. QueueOK'
  <2>1. CASE c.do \in FromQueue
    <3>1. Of(cmds, FromQueue) # {}
      BY <1>2, <2>1
    <3>2. /\ head \in {"sent", "break"} /\ One(Of(cmds, FromQueue))
          /\ In(inbox, Answers) = {}
      BY <3>1 DEF Base, QueueOK
    <3> QED BY <1>1, <1>2, <1>3, <2>1, <3>2 DEF Base, QueueOK
  <2>2. CASE c.do \notin FromQueue
    <3>1. /\ Of(cmds, FromQueue) = {} => Of(cmds', FromQueue) = {}
          /\ One(Of(cmds, FromQueue)) => One(Of(cmds', FromQueue))
          /\ \A i \in Of(cmds', FromQueue) :
                i + 1 \in Of(cmds, FromQueue) /\ cmds'[i] = cmds[i + 1]
          /\ In(inbox', Answers) = In(inbox, Answers)
      BY <1>2, <1>3, <2>2
    <3> QED BY <1>1, <3>1 DEF Base, QueueOK
  <2> QED BY <2>1, <2>2
<1>6. KindOK'
  <2>1. c.do = "unbreak" => c.pause \in Pauses /\ kind[c.pause] # "none"
    BY <1>2 DEF Base, KindOK
  <2>2. \A i \in In(inbox', {"paused", "unbroken"}) :
           inbox'[i].pause \in Pauses /\ kind[inbox'[i].pause] # "none"
    BY <1>3, <2>1 DEF Base, KindOK
  <2>3. \A i \in Of(cmds', {"unbreak"}) :
           cmds'[i].pause \in Pauses /\ kind[cmds'[i].pause] # "none"
    BY <1>2 DEF Base, KindOK
  <2> QED BY <1>1, <1>3, <2>2, <2>3 DEF Base, KindOK
<1> QED BY <1>4, <1>5, <1>6 DEF Base

LEMMA AnswerArrivesBase ==
    ASSUME Base, AnswerArrives
    PROVE  Base'
<1>1. /\ inbox # << >> /\ Head(inbox).type \in Answers
      /\ inbox' = Tail(inbox)
      /\ \/ /\ head = "break" /\ waiting # "no"
            /\ head' = "sent" /\ waiting' = "target"
            /\ cmds' = Append(cmds, Do("resume"))
         \/ head' = "answered" /\ UNCHANGED <<waiting, cmds>>
      /\ UNCHANGED <<vm, kind, wanted, planted, chain, expected, flushing,
                     details, handler, refresh, view, asked, dismissed,
                     rushed>>
  BY DEF AnswerArrives, machineVars, clientVars, Answers
<1>2. /\ inbox' \in Seq(Messages)
      /\ 1 \in In(inbox, Answers)
      /\ \A W : \A i \in In(inbox', W) :
            i + 1 \in In(inbox, W) /\ inbox'[i] = inbox[i + 1]
      /\ One(In(inbox, Answers)) => In(inbox', Answers) = {}
  BY <1>1, ReceivedIn DEF Base, TypeOK
<1>3. /\ head \in {"sent", "break"} /\ Of(cmds, FromQueue) = {}
      /\ In(inbox', Answers) = {} /\ chain # << >>
  BY <1>2 DEF Base, QueueOK, TypeOK
<1>4. CASE /\ head = "break" /\ head' = "sent" /\ waiting' = "target"
           /\ cmds' = Append(cmds, Do("resume"))
  <2>1. Do("resume") \in Commands /\ Do("resume").do = "resume"
    BY CommandsTyped
  <2>2. /\ cmds' \in Seq(Commands)
        /\ Of(cmds', {"unbreak"}) = Of(cmds, {"unbreak"})
        /\ \A i \in Of(cmds, {"unbreak"}) : cmds'[i] = cmds[i]
        /\ One(Of(cmds', FromQueue))
        /\ Of(cmds', FromQueue) = {Len(cmds) + 1}
        /\ cmds'[Len(cmds) + 1] = Do("resume")
    <3>1. cmds \in Seq(Commands)
      BY DEF Base, TypeOK
    <3> QED BY <1>3, <1>4, <2>1, <3>1, SentOf DEF FromQueue
  <2>3. TypeOK'
    BY <1>1, <1>2, <1>3, <1>4, <2>2 DEF Base, TypeOK
  <2>4. QueueOK'
    BY <1>1, <1>3, <1>4, <2>1, <2>2 DEF Base, QueueOK
  <2>5. KindOK'
    BY <1>1, <1>2, <2>2, KindKept DEF Base
  <2> QED BY <2>3, <2>4, <2>5 DEF Base
<1>5. CASE head' = "answered" /\ UNCHANGED <<waiting, cmds>>
  <2>1. TypeOK'
    BY <1>1, <1>2, <1>3, <1>5 DEF Base, TypeOK
  <2>2. QueueOK'
    BY <1>3, <1>5 DEF Base, QueueOK
  <2>3. KindOK'
    BY <1>1, <1>2, <1>5, KindKept DEF Base
  <2> QED BY <2>1, <2>2, <2>3 DEF Base
<1> QED BY <1>1, <1>3, <1>4, <1>5

LEMMA PausedArrivesBase ==
    ASSUME Base, PausedArrives
    PROVE  Base'
<1> DEFINE n == Head(inbox).pause
<1>1. /\ inbox # << >> /\ Head(inbox).type = "paused"
      /\ inbox' = Tail(inbox)
      /\ handler' = [handler EXCEPT ![n] = Verdict(n)]
      /\ UNCHANGED <<vm, kind, wanted, planted, cmds, chain, head, expected,
                     waiting, flushing, details, refresh, view, asked,
                     dismissed, rushed>>
  BY DEF PausedArrives, machineVars, queueVars, clientVars
<1>2. /\ inbox' \in Seq(Messages) /\ Head(inbox) = inbox[1]
      /\ 1 \in In(inbox, {"paused", "unbroken"})
      /\ \A W : \A i \in In(inbox', W) :
            i + 1 \in In(inbox, W) /\ inbox'[i] = inbox[i + 1]
      /\ In(inbox, Answers) = {} => In(inbox', Answers) = {}
      /\ One(In(inbox, Answers)) => One(In(inbox', Answers))
  BY <1>1, ReceivedIn DEF Base, TypeOK, Answers
<1>3. n \in Pauses /\ kind[n] # "none"
  BY <1>2 DEF Base, KindOK
<1> HIDE DEF n
<1>4. /\ Verdict(n) \in {"skip", "bypass", "want"}
      /\ Verdict(n) \in {"skip", "bypass"} => kind[n] \in {"skip", "script"}
  BY DEF Verdict
<1>5. TypeOK'
  <2>1. handler' \in [Pauses -> {"none", "skip", "bypass", "want", "unbreak",
                                 "create", "over", "in", "show", "tell",
                                 "done"}]
    BY <1>1, <1>3, <1>4 DEF Base, TypeOK
  <2> QED BY <1>1, <1>2, <2>1 DEF Base, TypeOK
<1>6. QueueOK'
  BY <1>1, <1>2 DEF Base, QueueOK
<1>7. KindOK'
  <2>1. \A i \in Pauses : i # n => handler'[i] = handler[i]
    BY <1>1, <1>3 DEF Base, TypeOK
  <2>2. handler'[n] = Verdict(n)
    BY <1>1, <1>3 DEF Base, TypeOK
  <2>3. \A i \in Pauses :
           /\ handler'[i] # "none" => kind[i] # "none"
           /\ handler'[i] \in {"skip", "bypass"} =>
                 kind[i] \in {"skip", "script"}
           /\ handler'[i] = "unbreak" => kind[i] = "target"
    BY <1>3, <1>4, <2>1, <2>2 DEF Base, KindOK
  <2>4. \A i \in In(inbox', {"paused", "unbroken"}) :
           inbox'[i].pause \in Pauses /\ kind[inbox'[i].pause] # "none"
    BY <1>2 DEF Base, KindOK
  <2> QED BY <1>1, <2>3, <2>4 DEF Base, KindOK
<1> QED BY <1>5, <1>6, <1>7 DEF Base

LEMMA UnbrokenArrivesBase ==
    ASSUME Base, UnbrokenArrives
    PROVE  Base'
<1> DEFINE n == Head(inbox).pause
<1>1. /\ inbox # << >> /\ Head(inbox).type = "unbroken"
      /\ inbox' = Tail(inbox)
      /\ handler' = [handler EXCEPT ![n] = "done"]
      /\ cmds' = Append(cmds, Do("raw"))
      /\ UNCHANGED <<vm, kind, wanted, planted, chain, head, expected,
                     waiting, flushing, details, refresh, view, asked,
                     dismissed, rushed>>
  BY DEF UnbrokenArrives, machineVars, queueVars, clientVars
<1>2. /\ inbox' \in Seq(Messages) /\ Head(inbox) = inbox[1]
      /\ 1 \in In(inbox, {"paused", "unbroken"})
      /\ \A W : \A i \in In(inbox', W) :
            i + 1 \in In(inbox, W) /\ inbox'[i] = inbox[i + 1]
      /\ In(inbox, Answers) = {} => In(inbox', Answers) = {}
      /\ One(In(inbox, Answers)) => One(In(inbox', Answers))
  BY <1>1, ReceivedIn DEF Base, TypeOK, Answers
<1>3. n \in Pauses /\ kind[n] # "none"
  BY <1>2 DEF Base, KindOK
<1> HIDE DEF n
<1>4. /\ cmds' \in Seq(Commands)
      /\ Of(cmds', {"unbreak"}) = Of(cmds, {"unbreak"})
      /\ Of(cmds', FromQueue) = Of(cmds, FromQueue)
      /\ \A i \in Of(cmds, {"unbreak"}) : cmds'[i] = cmds[i]
      /\ \A i \in Of(cmds, FromQueue) : cmds'[i] = cmds[i]
  <2>1. Do("raw") \in Commands /\ Do("raw").do = "raw"
    BY CommandsTyped
  <2>2. cmds \in Seq(Commands)
    BY DEF Base, TypeOK
  <2> QED BY <1>1, <2>1, <2>2, SentOf DEF FromQueue
<1>5. TypeOK'
  <2>1. handler' \in [Pauses -> {"none", "skip", "bypass", "want", "unbreak",
                                 "create", "over", "in", "show", "tell",
                                 "done"}]
    BY <1>1, <1>3 DEF Base, TypeOK
  <2> QED BY <1>1, <1>2, <1>4, <2>1 DEF Base, TypeOK
<1>6. QueueOK'
  BY <1>1, <1>2, <1>4 DEF Base, QueueOK
<1>7. KindOK'
  <2>1. \A i \in Pauses : \/ handler'[i] = handler[i]
                          \/ kind[i] # "none" /\ handler'[i] = "done"
    BY <1>1, <1>3 DEF Base, TypeOK
  <2>2. /\ \A i \in In(inbox', {"paused", "unbroken"}) :
              \E j \in In(inbox, {"paused", "unbroken"}) :
                  inbox'[i] = inbox[j]
        /\ \A i \in Of(cmds', {"unbreak"}) :
              \E j \in Of(cmds, {"unbreak"}) : cmds'[i] = cmds[j]
    BY <1>2, <1>4
  <2> QED BY <1>1, <2>1, <2>2, KindKept DEF Base
<1> QED BY <1>5, <1>6, <1>7 DEF Base

LEMMA ResumedArrivesBase ==
    ASSUME Base, ResumedArrives
    PROVE  Base'
<1>1. /\ inbox # << >> /\ Head(inbox).type = "resumed"
      /\ inbox' = Tail(inbox) /\ details' = None /\ view' = 0
      /\ UNCHANGED <<vm, kind, wanted, planted, cmds, chain, head, expected,
                     waiting, flushing, handler, refresh, asked, dismissed,
                     rushed>>
  BY DEF ResumedArrives, machineVars, queueVars, clientVars
<1>2. /\ inbox' \in Seq(Messages)
      /\ \A W : \A i \in In(inbox', W) :
            i + 1 \in In(inbox, W) /\ inbox'[i] = inbox[i + 1]
      /\ In(inbox, Answers) = {} => In(inbox', Answers) = {}
      /\ One(In(inbox, Answers)) => One(In(inbox', Answers))
  BY <1>1, ReceivedIn DEF Base, TypeOK, Answers
<1>3. TypeOK'
  BY <1>1, <1>2, MaxPausesAssumption DEF Base, TypeOK, None
<1>4. QueueOK'
  BY <1>1, <1>2 DEF Base, QueueOK
<1>5. KindOK'
  BY <1>1, <1>2, KindKept DEF Base
<1> QED BY <1>3, <1>4, <1>5 DEF Base

LEMMA PreparedBase ==
    ASSUME Base, Prepared
    PROVE  Base'
<1>1. /\ head = "prepare" /\ head' = "sent"
      /\ cmds' = Append(cmds, Do("step"))
      /\ UNCHANGED <<vm, kind, wanted, planted, inbox, chain, expected,
                     waiting, flushing, details, handler, refresh, view,
                     asked, dismissed, rushed>>
  BY DEF Prepared, machineVars, clientVars
<1>2. /\ Of(cmds, FromQueue) = {} /\ In(inbox, Answers) = {}
      /\ chain # << >> /\ chain[1].op # "pause"
  BY <1>1 DEF Base, QueueOK, TypeOK
<1>3. Do("step") \in Commands /\ Do("step").do = "step"
  BY CommandsTyped
<1>4. /\ cmds' \in Seq(Commands)
      /\ Of(cmds', {"unbreak"}) = Of(cmds, {"unbreak"})
      /\ \A i \in Of(cmds, {"unbreak"}) : cmds'[i] = cmds[i]
      /\ One(Of(cmds', FromQueue))
      /\ Of(cmds', FromQueue) = {Len(cmds) + 1}
      /\ cmds'[Len(cmds) + 1] = Do("step")
  <2>1. cmds \in Seq(Commands)
    BY DEF Base, TypeOK
  <2> QED BY <1>1, <1>2, <1>3, <2>1, SentOf DEF FromQueue
<1>5. TypeOK'
  BY <1>1, <1>2, <1>4 DEF Base, TypeOK
<1>6. QueueOK'
  BY <1>1, <1>2, <1>3, <1>4 DEF Base, QueueOK
<1>7. KindOK'
  BY <1>1, <1>4, KindKept DEF Base
<1> QED BY <1>5, <1>6, <1>7 DEF Base

(* A step that moves the queue on, and a handler if any.                   *)
LEMMA QueueStepBase ==
    ASSUME Base, QueueKeeps,
           flushing' \subseteq [by : Callers, entry : Entries],
           UNCHANGED <<vm, kind, wanted, planted, inbox, details, refresh>>,
           view' \in 0..MaxPauses, asked' \in 0..MaxAsked,
           dismissed' \subseteq Pauses, rushed' \in BOOLEAN,
           handler' \in [Pauses -> {"none", "skip", "bypass", "want",
                                    "unbreak", "create", "over", "in", "show",
                                    "tell", "done"}],
           \A n \in Pauses :
               \/ handler'[n] = handler[n]
               \/ /\ kind[n] # "none"
                  /\ handler'[n] \notin {"skip", "bypass", "unbreak"}
    PROVE  Base'
<1>1. TypeOK'
  BY DEF QueueKeeps, QueueTyped, Base, TypeOK
<1>2. KindOK'
  BY KindKept DEF QueueKeeps, OthersKept, Base
<1> QED BY <1>1, <1>2 DEF QueueKeeps, Base

(* The steps that belong to the queue alone. *)
LEMMA QueueBase ==
    ASSUME Base, OperationOver \/ \E f \in flushing : Flushed(f)
    PROVE  Base'
<1>1. CASE OperationOver
  <2>1. /\ UNCHANGED <<vm, kind, wanted, planted, inbox, flushing, details,
                       handler, refresh, view, asked, dismissed, rushed>>
        /\ QueueKeeps
    BY <1>1, OperationOverSteps
    DEF Base, OperationOver, machineVars, clientVars
  <2> QED BY <2>1, QueueStepBase DEF Base, TypeOK
<1>2. ASSUME NEW f \in flushing, Flushed(f) PROVE Base'
  <2>1. /\ UNCHANGED <<vm, kind, wanted, planted, inbox, details, handler,
                       refresh, view, asked, dismissed, rushed>>
        /\ QueueKeeps /\ flushing' \subseteq [by : Callers, entry : Entries]
    BY <1>2, FlushedKeeps DEF Base, Flushed, machineVars, clientVars
  <2> QED BY <2>1, QueueStepBase DEF Base, TypeOK
<1> QED BY <1>1, <1>2

(* Who enqueues, and what. *)
LEMMA EntriesTyped ==
    /\ \A op \in Operations : Entry(op) \in Entries /\ Entry(op).op = op
    /\ \A n \in Pauses : n \in Callers
    /\ \A i \in 1..MaxAsked : MaxPauses + i \in Callers
  BY MaxPausesAssumption, MaxAskedAssumption
  DEF Entry, Entries, Callers, Pauses

LEMMA DecidedBase ==
    ASSUME Base, NEW n \in Pauses, Decided(n)
    PROVE  Base'
<1>1. /\ UNCHANGED <<vm, kind, wanted, planted, inbox, details, refresh, view,
                     asked, dismissed, rushed>>
      /\ handler[n] \in {"skip", "want", "bypass"}
  BY DEF Decided, machineVars, clientVars
<1>2. kind[n] # "none"
  BY <1>1 DEF Base, KindOK
<1>3. \A s \in {"done", "create", "unbreak"} :
         handler' = [handler EXCEPT ![n] = s] =>
            /\ handler' \in [Pauses -> {"none", "skip", "bypass", "want",
                                        "unbreak", "create", "over", "in",
                                        "show", "tell", "done"}]
            /\ handler'[n] = s
            /\ \A i \in Pauses \ {n} : handler'[i] = handler[i]
  BY DEF Base, TypeOK
<1>4. CASE handler' = [handler EXCEPT ![n] = "done"]
           /\ Enqueue(n, Entry("resume"))
  <2>1. QueueKeeps /\ flushing' \subseteq [by : Callers, entry : Entries]
    BY <1>1, <1>4, EnqueueSteps, EntriesTyped DEF Base, Operations
  <2> QED BY <1>1, <1>2, <1>3, <1>4, <2>1, QueueStepBase DEF Base, TypeOK
<1>5. CASE /\ handler' = [handler EXCEPT ![n] = "done"]
           /\ cmds' = Append(cmds, Do("raw"))
           /\ UNCHANGED <<queueVars, flushing>>
  <2>1. cmds \in Seq(Commands) /\ Do("raw") \in Commands /\ Do("raw").do = "raw"
    BY CommandsTyped DEF Base, TypeOK
  <2>2. /\ cmds' \in Seq(Commands) /\ OthersKept
        /\ Of(cmds', FromQueue) = Of(cmds, FromQueue)
        /\ \A i \in Of(cmds, FromQueue) : cmds'[i] = cmds[i]
    BY <1>5, <2>1, SentOf DEF OthersKept, FromQueue
  <2>3. UNCHANGED <<chain, head, expected, waiting, flushing>>
    BY <1>5 DEF queueVars
  <2>4. TypeOK'
    BY <1>1, <1>3, <1>5, <2>2, <2>3 DEF Base, TypeOK
  <2>5. QueueOK'
    BY <1>1, <2>2, <2>3 DEF Base, QueueOK
  <2>6. KindOK'
    BY <1>1, <1>2, <1>3, <1>5, <2>2, KindKept DEF Base, OthersKept
  <2> QED BY <2>4, <2>5, <2>6 DEF Base
<1>6. CASE /\ kind[n] = "target"
           /\ handler' = [handler EXCEPT ![n] = "unbreak"]
           /\ waiting' = "yes"
           /\ cmds' = Append(cmds, [do |-> "unbreak", pause |-> n])
           /\ UNCHANGED <<chain, head, expected, flushing>>
  <2> DEFINE c == [do |-> "unbreak", pause |-> n]
  <2>1. /\ cmds \in Seq(Commands) /\ c \in Commands
        /\ c.do = "unbreak" /\ c.pause = n
    BY CommandsTyped DEF Base, TypeOK
  <2>2. cmds' = Append(cmds, c)
    BY <1>6
  <2> HIDE DEF c
  <2>3. /\ cmds' \in Seq(Commands)
        /\ Of(cmds', FromQueue) = Of(cmds, FromQueue)
        /\ \A i \in Of(cmds, FromQueue) : cmds'[i] = cmds[i]
        /\ Of(cmds', {"unbreak"}) = Of(cmds, {"unbreak"}) \cup {Len(cmds) + 1}
        /\ \A i \in Of(cmds, {"unbreak"}) : cmds'[i] = cmds[i]
        /\ cmds'[Len(cmds) + 1] = c
    BY <2>1, <2>2, SentOf DEF FromQueue
  <2>4. TypeOK'
    BY <1>1, <1>3, <1>6, <2>3 DEF Base, TypeOK
  <2>5. QueueOK'
    BY <1>1, <1>6, <2>3 DEF Base, QueueOK
  <2>6. KindOK'
    <3>1. \A i \in Pauses :
             /\ handler'[i] # "none" => kind[i] # "none"
             /\ handler'[i] \in {"skip", "bypass"} =>
                   kind[i] \in {"skip", "script"}
             /\ handler'[i] = "unbreak" => kind[i] = "target"
      BY <1>2, <1>3, <1>6 DEF Base, KindOK
    <3>2. \A i \in Of(cmds', {"unbreak"}) :
             cmds'[i].pause \in Pauses /\ kind[cmds'[i].pause] # "none"
      BY <1>2, <2>1, <2>3 DEF Base, KindOK
    <3> QED BY <1>1, <3>1, <3>2 DEF Base, KindOK
  <2> QED BY <2>4, <2>5, <2>6 DEF Base
<1>7. CASE /\ handler' = [handler EXCEPT ![n] = "create"]
           /\ UNCHANGED <<queueVars, cmds, flushing>>
  <2>1. UNCHANGED <<chain, head, expected, waiting, flushing, cmds>>
    BY <1>7 DEF queueVars
  <2>2. TypeOK'
    BY <1>1, <1>3, <1>7, <2>1 DEF Base, TypeOK
  <2>3. QueueOK'
    BY <1>1, <2>1 DEF Base, QueueOK
  <2>4. KindOK'
    BY <1>1, <1>2, <1>3, <1>7, <2>1, KindKept DEF Base
  <2> QED BY <2>2, <2>3, <2>4 DEF Base
<1> QED BY <1>4, <1>5, <1>6, <1>7 DEF Decided

LEMMA CreatedBase ==
    ASSUME Base, NEW n \in Pauses, Created(n)
    PROVE  Base'
<1>1. /\ handler[n] = "create" /\ details' = OwnDetails(n)
      /\ \E s \in {"show", "over", "in"} : handler' = [handler EXCEPT ![n] = s]
      /\ UNCHANGED <<vm, kind, wanted, planted, cmds, inbox, chain, head,
                     expected, waiting, flushing, refresh, view, asked,
                     dismissed, rushed>>
  BY DEF Created, machineVars, queueVars, clientVars
<1>2. kind[n] # "none"
  BY <1>1 DEF Base, KindOK
<1>3. TypeOK'
  <2>1. details' \in [pause : 0..MaxPauses, by : {"none", "event", "refresh"}]
    BY <1>1 DEF OwnDetails, Pauses
  <2>2. handler' \in [Pauses -> {"none", "skip", "bypass", "want", "unbreak",
                                 "create", "over", "in", "show", "tell",
                                 "done"}]
    BY <1>1 DEF Base, TypeOK
  <2> QED BY <1>1, <2>1, <2>2 DEF Base, TypeOK
<1>4. QueueOK'
  BY <1>1 DEF Base, QueueOK
<1>5. KindOK'
  <2>1. \A i \in Pauses :
           \/ handler'[i] = handler[i]
           \/ /\ kind[i] # "none"
              /\ handler'[i] \notin {"skip", "bypass", "unbreak"}
    BY <1>1, <1>2 DEF Base, TypeOK
  <2> QED BY <1>1, <2>1, KindKept DEF Base
<1> QED BY <1>3, <1>4, <1>5 DEF Base

LEMMA SteeredBase ==
    ASSUME Base, NEW n \in Pauses, Steered(n)
    PROVE  Base'
<1>1. /\ handler[n] \in {"over", "in", "show"}
      /\ \E s \in {"tell", "done"} : handler' = [handler EXCEPT ![n] = s]
      /\ UNCHANGED <<vm, kind, wanted, planted, inbox, details, refresh, view,
                     asked, dismissed, rushed>>
      /\ \/ UNCHANGED <<queueVars, cmds, flushing>>
         \/ handler[n] # "show" /\ Enqueue(n, Entry(handler[n]))
         \/ /\ waiting' = "no" /\ expected' = "none"
            /\ UNCHANGED <<chain, head, cmds, flushing>>
  BY DEF Steered, machineVars, clientVars
<1>2. kind[n] # "none"
  BY <1>1 DEF Base, KindOK
<1>3. /\ handler' \in [Pauses -> {"none", "skip", "bypass", "want", "unbreak",
                                  "create", "over", "in", "show", "tell",
                                  "done"}]
      /\ \A i \in Pauses :
            \/ handler'[i] = handler[i]
            \/ /\ kind[i] # "none"
               /\ handler'[i] \notin {"skip", "bypass", "unbreak"}
  BY <1>1, <1>2 DEF Base, TypeOK
<1>4. CASE handler[n] # "show" /\ Enqueue(n, Entry(handler[n]))
  <2>1. QueueKeeps /\ flushing' \subseteq [by : Callers, entry : Entries]
    BY <1>1, <1>4, EnqueueSteps, EntriesTyped DEF Base, Operations
  <2> QED BY <1>1, <1>3, <2>1, QueueStepBase DEF Base, TypeOK
<1>5. CASE UNCHANGED <<chain, head, cmds, flushing>>
           /\ \/ UNCHANGED <<expected, waiting>>
              \/ waiting' = "no" /\ expected' = "none"
  <2>1. TypeOK'
    BY <1>1, <1>3, <1>5 DEF Base, TypeOK
  <2>2. QueueOK'
    BY <1>1, <1>5 DEF Base, QueueOK
  <2>3. KindOK'
    BY <1>1, <1>3, <1>5, KindKept DEF Base
  <2> QED BY <2>1, <2>2, <2>3 DEF Base
<1> QED BY <1>1, <1>4, <1>5 DEF queueVars

LEMMA ShowsBase ==
    ASSUME Base, \/ \E n \in Pauses : Told(n)
                 \/ Refreshed \/ RefreshTold \/ AsksForRefresh
    PROVE  Base'
<1>1. /\ UNCHANGED <<vm, kind, wanted, planted, cmds, inbox, chain, head,
                     waiting, flushing, dismissed>>
      /\ expected' \in {expected, "none"}
      /\ \/ handler' = handler
         \/ \E n \in Pauses : /\ handler[n] = "tell"
                              /\ handler' = [handler EXCEPT ![n] = "done"]
  BY DEF Told, Refreshed, RefreshTold, AsksForRefresh, machineVars, queueVars,
         clientVars
<1>2. /\ handler' \in [Pauses -> {"none", "skip", "bypass", "want", "unbreak",
                                  "create", "over", "in", "show", "tell",
                                  "done"}]
      /\ \A i \in Pauses :
            \/ handler'[i] = handler[i]
            \/ /\ kind[i] # "none"
               /\ handler'[i] \notin {"skip", "bypass", "unbreak"}
  BY <1>1 DEF Base, TypeOK, KindOK
<1>3. /\ details' \in [pause : 0..MaxPauses, by : {"none", "event", "refresh"}]
      /\ refresh' \in [pause : 0..MaxPauses, at : {"no", "create", "tell"}]
      /\ view' \in 0..MaxPauses /\ asked' \in 0..MaxAsked
      /\ rushed' \in BOOLEAN
  <2>1. CASE \E n \in Pauses : Told(n)
    BY <2>1 DEF Base, TypeOK, Told, clientVars, Pauses
  <2>2. CASE Refreshed
    BY <2>2, MaxPausesAssumption DEF Base, TypeOK, Refreshed, clientVars
  <2>3. CASE RefreshTold
    BY <2>3, MaxPausesAssumption DEF Base, TypeOK, RefreshTold, clientVars
  <2>4. CASE AsksForRefresh
    <3>1. /\ asked < MaxAsked /\ asked' = asked + 1
          /\ rushed' = (rushed \/ view = 0)
          /\ refresh' = [pause |-> details.pause, at |-> "create"]
          /\ UNCHANGED <<details, view>>
      BY <2>4 DEF AsksForRefresh, Asks
    <3>2. asked' \in 0..MaxAsked
      BY <3>1, MaxAskedAssumption DEF Base, TypeOK
    <3> QED BY <3>1, <3>2 DEF Base, TypeOK
  <2> QED BY <2>1, <2>2, <2>3, <2>4
<1>4. TypeOK'
  BY <1>1, <1>2, <1>3 DEF Base, TypeOK
<1>5. QueueOK'
  BY <1>1 DEF Base, QueueOK
<1>6. KindOK'
  BY <1>1, <1>2, KindKept DEF Base
<1> QED BY <1>4, <1>5, <1>6 DEF Base

LEMMA AsksBase ==
    ASSUME Base,
           AsksForPause \/ \E e \in Entries : AsksToLeave(e)
    PROVE  Base'
<1>1. PICK e \in Entries :
         /\ asked < MaxAsked /\ asked' = asked + 1 /\ rushed' \in BOOLEAN
         /\ Enqueue(MaxPauses + asked', e)
         /\ view' \in {view, 0}
         /\ dismissed' \in {dismissed, dismissed \cup {view}}
         /\ dismissed' # dismissed => view # 0
         /\ UNCHANGED <<vm, kind, wanted, planted, inbox, details, handler,
                        refresh>>
  <2>1. CASE AsksForPause
    <3>1. Entry("pause") \in Entries
      BY EntriesTyped DEF Operations
    <3> QED BY <2>1, <3>1 DEF AsksForPause, Asks, machineVars, Base, TypeOK
  <2>2. ASSUME NEW e \in Entries, AsksToLeave(e)
        PROVE  /\ asked < MaxAsked /\ asked' = asked + 1 /\ rushed' \in BOOLEAN
               /\ Enqueue(MaxPauses + asked', e)
               /\ view' \in {view, 0}
               /\ dismissed' \in {dismissed, dismissed \cup {view}}
               /\ dismissed' # dismissed => view # 0
               /\ UNCHANGED <<vm, kind, wanted, planted, inbox, details,
                              handler, refresh>>
    BY <2>2 DEF AsksToLeave, Asks, machineVars, Base, TypeOK
  <2> QED BY <2>1, <2>2
<1>2. asked' \in 1..MaxAsked /\ asked' \in 0..MaxAsked
  BY <1>1, MaxAskedAssumption DEF Base, TypeOK
<1>3. QueueKeeps /\ flushing' \subseteq [by : Callers, entry : Entries]
  <2>1. MaxPauses + asked' \in Callers
    BY <1>2, EntriesTyped
  <2> QED BY <1>1, <2>1, EnqueueSteps DEF Base
<1>4. dismissed' \subseteq Pauses /\ view' \in 0..MaxPauses
  BY <1>1, MaxPausesAssumption DEF Base, TypeOK, Pauses
<1> QED BY <1>1, <1>2, <1>3, <1>4, QueueStepBase DEF Base, TypeOK

LEMMA InitBase ==
    ASSUME Init
    PROVE  Base
<1>1. In(inbox, Answers) = {} /\ In(inbox, {"paused", "unbroken"}) = {}
      /\ \A W : Of(cmds, W) = {}
  BY DEF Init, In, Of
<1>2. TypeOK
  <2>1. /\ vm \in 0..MaxPauses /\ view \in 0..MaxPauses
        /\ asked \in 0..MaxAsked
        /\ details \in [pause : 0..MaxPauses,
                        by : {"none", "event", "refresh"}]
        /\ refresh \in [pause : 0..MaxPauses, at : {"no", "create", "tell"}]
    BY MaxPausesAssumption, MaxAskedAssumption DEF Init, None
  <2>2. /\ cmds \in Seq(Commands) /\ inbox \in Seq(Messages)
        /\ chain \in Seq(Entries)
    BY DEF Init
  <2> QED BY <2>1, <2>2 DEF Init, TypeOK
<1>3. QueueOK
  BY <1>1 DEF Init, QueueOK
<1>4. KindOK
  <2>1. \A n \in Pauses : kind[n] # "none" <=> n <= 0
    BY MaxPausesAssumption DEF Init, Pauses
  <2>2. 0 \in 0..MaxPauses
    BY MaxPausesAssumption
  <2> QED BY <1>1, <2>1, <2>2 DEF Init, KindOK
<1> QED BY <1>2, <1>3, <1>4 DEF Base

LEMMA NextBase ==
    ASSUME Base, [Next]_vars
    PROVE  Base'
<1>1. ASSUME NEW k \in Kinds, MachinePauses(k) PROVE Base'
  BY <1>1, MachinePausesBase
<1>2. CASE MachineObeys
  BY <1>2, MachineObeysBase
<1>3. CASE Arrives
  BY <1>3, AnswerArrivesBase, PausedArrivesBase, UnbrokenArrivesBase,
     ResumedArrivesBase
  DEF Arrives
<1>4. CASE Prepared
  BY <1>4, PreparedBase
<1>5. CASE OperationOver \/ \E f \in flushing : Flushed(f)
  BY <1>5, QueueBase
<1>6. ASSUME NEW n \in Pauses, Handles(n) PROVE Base'
  BY <1>6, DecidedBase, CreatedBase, SteeredBase, ShowsBase DEF Handles
<1>7. CASE Refreshed \/ RefreshTold
  BY <1>7, ShowsBase
<1>8. CASE Client
  BY <1>8, AsksBase, ShowsBase DEF Client
<1>9. CASE UNCHANGED vars
  BY <1>9 DEF vars, machineVars, queueVars, clientVars, Base, TypeOK, QueueOK,
              KindOK
<1> QED BY <1>1, <1>2, <1>3, <1>4, <1>5, <1>6, <1>7, <1>8, <1>9 DEF Next

(* The variables of the thread keep their types, and an answer of the      *)
(* machine finds the operation of StateQueue that it is for.               *)
THEOREM TypeCorrect == Spec => []TypeOK
<1>1. Init => Base
  BY InitBase
<1>2. Base /\ [Next]_vars => Base'
  BY NextBase
<1>3. Base => TypeOK
  BY DEF Base
<1> QED BY <1>1, <1>2, <1>3, PTL DEF Spec

-----------------------------------------------------------------------------
(* A client that is not rushed: what the phase of a pause says.            *)
LEMMA Exclusive == ~(NoLeave /\ OneLeave)
  BY OneIsSome DEF NoLeave, OneLeave, NoneQueued, OneQueued

(* The phases of a pause: while it is handled, and while it is left, it is *)
(* the one the machine is at, and nobody shows or refreshes it.            *)
LEMMA AtSomePause ==
    ASSUME Base, vm # 0
    PROVE  vm \in Pauses
  BY MaxPausesAssumption DEF Base, TypeOK, Pauses

LEMMA BusyPhase ==
    ASSUME Base, PhaseOK, NEW n \in Pauses, handler[n] \notin {"none", "done"}
    PROVE  vm = n /\ vm # 0 /\ Coming = {} /\ NoLeave /\ Unseen
<1>1. vm = n
  BY DEF PhaseOK
<1>2. vm # 0
  BY <1>1, MaxPausesAssumption DEF Pauses
<1> QED BY <1>1, <1>2 DEF PhaseOK

LEMMA LeavePhase ==
    ASSUME Base, PhaseOK, OneLeave
    PROVE  /\ vm # 0 /\ vm \in Pauses /\ Coming = {} /\ handler[vm] = "done"
           /\ Unseen /\ ~NoLeave
<1>1. ~NoLeave
  BY Exclusive
<1>2. vm # 0 /\ Coming = {}
  BY <1>1 DEF PhaseOK
<1> QED BY <1>1, <1>2, AtSomePause DEF PhaseOK

LEMMA ShownPhase ==
    ASSUME Base, PhaseOK, ~Unseen
    PROVE  /\ vm # 0 /\ vm \in Pauses /\ Coming = {} /\ handler[vm] = "done"
           /\ NoLeave
           /\ \/ view = vm /\ refresh.at \in {"no", "create"}
              \/ view = 0 /\ refresh.at = "tell"
<1>1. vm # 0 /\ Coming = {}
  BY DEF PhaseOK
<1> QED BY <1>1, AtSomePause DEF PhaseOK

LEMMA SomePhase ==
    ASSUME Base, PhaseOK
    PROVE  NoLeave \/ OneLeave
  BY DEF PhaseOK

(* No message of the machine that it goes on is left when a pause has come.*)
LEMMA NothingResumed ==
    ASSUME AnswerOK, vm # 0, Coming = {}
    PROVE  In(inbox, {"resumed"}) = {}
  BY DEF AnswerOK

-----------------------------------------------------------------------------
(* Steps of the queue. *)
LEMMA QueueStepCalm ==
    ASSUME Base, Calm, QueueKeeps, PhaseOK', DetailsOK', LeaveOK',
           UNCHANGED <<vm, kind, wanted, inbox>>,
           \/ handler' = handler
           \/ /\ vm # 0 /\ handler[vm] # "unbreak"
              /\ handler' = [handler EXCEPT ![vm] = "done"],
           NoLeave' => expected' \in {expected, "pause"}
    PROVE  Calm'
<1>1. vm # 0 => /\ vm \in Pauses
                /\ \/ handler'[vm] = handler[vm]
                   \/ handler[vm] # "unbreak" /\ handler'[vm] = "done"
  BY AtSomePause DEF Base, TypeOK
<1>2. UnbreakOK'
  BY <1>1 DEF Calm, UnbreakOK, QueueKeeps, OthersKept
<1>3. AnswerOK'
  BY DEF Calm, AnswerOK, QueueKeeps, Coming
<1>4. ExpectedOK'
  <2>1. wanted' => expected' = "pause"
    BY DEF Calm, ExpectedOK, PhaseOK, Base, KindOK
  <2>2. \A i \in Of(cmds', {"pause"}) :
           vm' = 0 \/ (\E j \in AsCommand' : j < i) => expected' = "pause"
    BY DEF QueueKeeps, Calm, ExpectedOK, AsCommand
  <2>3. vm' # 0 /\ kind'[vm'] = "asked" =>
          /\ handler'[vm'] \in {"none", "want", "create"} =>
                expected' = "pause"
          /\ handler'[vm'] \notin {"over", "in"}
    <3> SUFFICES ASSUME vm # 0, kind[vm] = "asked"
                 PROVE  /\ handler'[vm] \in {"none", "want", "create"} =>
                              expected' = "pause"
                        /\ handler'[vm] \notin {"over", "in"}
      OBVIOUS
    <3>1. /\ handler[vm] \in {"none", "want", "create"} => expected = "pause"
          /\ handler[vm] \notin {"over", "in"}
      BY DEF Calm, ExpectedOK
    <3>2. handler'[vm] # "done" => NoLeave'
      BY DEF PhaseOK
    <3> QED BY <1>1, <3>1, <3>2
  <2>4. vm' # 0 /\ kind'[vm'] # "smart" => handler'[vm'] \notin {"over", "in"}
    BY <1>1 DEF Calm, ExpectedOK
  <2> QED BY <2>1, <2>2, <2>3, <2>4 DEF ExpectedOK
<1>5. WaitingOK'
  BY DEF Calm, QueueKeeps
<1> QED BY <1>2, <1>3, <1>4, <1>5 DEF Calm

(* One that leaves what is under way as it is.                             *)
LEMMA QueueKeptCalm ==
    ASSUME Base, Base', Calm, QueueKeeps,
           UNCHANGED <<vm, kind, wanted, inbox, handler, view, refresh,
                       details, dismissed>>,
           NoLeave => NoLeave' /\ expected' \in {expected, "pause"},
           OneLeave => OneLeave',
           OneLeave /\ ToResume => ToResume' /\ waiting' = waiting
    PROVE  Calm'
<1>1. PhaseOK'
  BY DEF Calm, PhaseOK, Unseen, Coming
<1>2. DetailsOK'
  BY DEF Calm, DetailsOK, OwnDetails
<1>3. OneLeave' => OneLeave
  BY SomePhase, Exclusive, PTL DEF Calm
<1>4. LeaveOK'
  BY <1>3 DEF Calm, LeaveOK
<1>5. NoLeave' => NoLeave
  BY SomePhase, Exclusive, PTL DEF Calm
<1> QED BY <1>1, <1>2, <1>4, <1>5, QueueStepCalm

(* The next operation begins: what is under way remains so. *)
LEMMA OperationOverCalm ==
    ASSUME Base, Base', Calm, OperationOver
    PROVE  Calm'
<1>1. UNCHANGED <<vm, kind, wanted, inbox, handler, view, refresh, details,
                  dismissed>>
  BY DEF OperationOver, machineVars, clientVars
<1>2. /\ QueueKeeps
      /\ NoLeave => NoLeave' /\ expected' \in {expected, "pause"}
      /\ OneLeave => OneLeave'
      /\ ToResume => ToResume' /\ waiting' = waiting
  BY OperationOverSteps DEF Base
<1> QED BY <1>1, <1>2, QueueKeptCalm

(* The resume or step that waits for the flush is not swallowed: what is   *)
(* like it in the queue led to this pause, so it has been answered.        *)
LEMMA NotSwallowed ==
    ASSUME Base, Calm, NEW f \in flushing, f.entry.op # "pause", Settled,
           chain # << >>, Latest(chain) = f.entry.op
    PROVE  FALSE
<1>1. f \in Flushing
  BY DEF Flushing
<1>2. OneLeave /\ NoneQueued
  BY <1>1, SomePhase DEF Calm, NoLeave, OneLeave
<1>3. vm # 0 /\ In(inbox, {"resumed"}) = {}
  BY <1>2, LeavePhase, NothingResumed DEF Calm
<1>4. /\ chain \in Seq(Entries) /\ Len(chain) \in Nat \ {0}
      /\ chain[Len(chain)].op # "pause"
  BY DEF Base, TypeOK, Latest
<1>5. CASE Len(chain) > 1
  BY <1>2, <1>4, <1>5 DEF NoneQueued, Later
<1>6. CASE Len(chain) = 1
  <2>1. chain[1].op # "pause"
    BY <1>4, <1>6
  <2>2. head = "sent"
    BY <1>2 DEF Base, TypeOK, Settled, NoneQueued, AtHead
  <2>3. ASSUME NEW i \in Of(cmds, FromQueue) PROVE FALSE
    <3>1. cmds[i].do \in {"resume", "step"}
      BY <2>1, <2>2, <2>3 DEF Base, QueueOK, Of, FromQueue
    <3>2. i \in AsCommand
      BY <2>3, <3>1 DEF AsCommand, Of, Leaving
    <3> QED BY <1>2, <3>2 DEF NoneQueued
  <2>4. ASSUME NEW i \in In(inbox, Answers) PROVE FALSE
    BY <1>3, <2>1, <2>2 DEF Calm, AnswerOK
  <2> QED BY <2>2, <2>3, <2>4, OneIsSome DEF Base, QueueOK
<1>7. Len(chain) = 1 \/ Len(chain) > 1
  <2>1. \A m \in Nat \ {0} : m = 1 \/ m > 1
    OBVIOUS
  <2> QED BY <1>4, <2>1, Zenon
<1> QED BY <1>5, <1>6, <1>7

LEMMA FlushedCalm ==
    ASSUME Base, Base', Calm, NEW f \in flushing, Flushed(f)
    PROVE  Calm'
<1>1. /\ Settled
      /\ UNCHANGED <<vm, kind, wanted, inbox, handler, view, refresh, details,
                     dismissed>>
  BY DEF Flushed, machineVars, clientVars
<1>2. f.entry.op # "pause" => ~(chain # << >> /\ Latest(chain) = f.entry.op)
  BY <1>1, NotSwallowed
<1>3. NoLeave \/ OneLeave
  BY SomePhase DEF Calm
<1>4. /\ NoLeave => NoLeave'
      /\ OneLeave => OneLeave'
      /\ ToResume => ToResume' /\ waiting' = waiting
      /\ NoLeave => expected' \in {expected, "pause"}
  BY <1>2, <1>3, FlushedSteps DEF Base
<1>5. QueueKeeps
  BY FlushedKeeps DEF Base
<1> QED BY <1>1, <1>4, <1>5, QueueKeptCalm

LEMMA AsksForPauseCalm ==
    ASSUME Base, Base', Calm, AsksForPause
    PROVE  Calm'
<1>1. /\ Enqueue(MaxPauses + asked', Entry("pause"))
      /\ asked < MaxAsked /\ asked' = asked + 1
      /\ UNCHANGED <<vm, kind, wanted, inbox, handler, view, refresh, details,
                     dismissed>>
  BY DEF AsksForPause, Asks, machineVars
<1>2. MaxPauses + asked' \in Callers
  <2>1. asked' \in 1..MaxAsked
    BY <1>1, MaxAskedAssumption DEF Base, TypeOK
  <2> QED BY <2>1, EntriesTyped
<1>3. Entry("pause") \in Entries /\ Entry("pause").op = "pause"
  BY EntriesTyped DEF Operations
<1>4. /\ QueueKeeps
      /\ NoLeave => NoLeave'
      /\ OneLeave => OneLeave'
      /\ ToResume => ToResume'
      /\ waiting' = waiting /\ expected' \in {expected, "pause"}
  BY <1>1, <1>2, <1>3, EnqueueSteps DEF Base
<1> QED BY <1>1, <1>4, QueueKeptCalm

(* The client leaves the pause that it shows.                              *)
LEMMA AsksToLeaveCalm ==
    ASSUME Base, Base', Calm, ~rushed', NEW e \in Entries, AsksToLeave(e)
    PROVE  Calm'
<1>1. /\ e.op # "pause" /\ view # 0 /\ refresh.at = "no"
      /\ asked < MaxAsked /\ asked' = asked + 1
      /\ dismissed' = dismissed \cup {view} /\ view' = 0
      /\ Enqueue(MaxPauses + asked', e)
      /\ UNCHANGED <<vm, kind, wanted, inbox, handler, refresh, details>>
  BY DEF AsksToLeave, Asks, machineVars
<1>2. /\ vm # 0 /\ Coming = {} /\ handler[vm] = "done" /\ NoLeave
      /\ view = vm
  BY <1>1, ShownPhase DEF Calm, Unseen
<1>3. MaxPauses + asked' \in Callers
  <2>1. asked' \in 1..MaxAsked
    BY <1>1, MaxAskedAssumption DEF Base, TypeOK
  <2> QED BY <2>1, EntriesTyped
<1>4. QueueKeeps /\ OneLeave'
  BY <1>1, <1>2, <1>3, EnqueueSteps DEF Base
<1>5. ~NoLeave'
  BY <1>4, Exclusive, PTL
<1>6. PhaseOK'
  BY <1>1, <1>2, <1>4 DEF Calm, PhaseOK, Unseen, Coming
<1>7. DetailsOK' /\ LeaveOK'
  BY <1>1, <1>2 DEF Calm, DetailsOK, OwnDetails, LeaveOK
<1> QED BY <1>1, <1>4, <1>5, <1>6, <1>7, QueueStepCalm

(* A handler resumes or steps, and is done.                                *)
LEMMA HandlerLeaves ==
    ASSUME Base, Base', Calm, NEW n \in Pauses, NEW e \in Entries,
           e.op # "pause", Enqueue(n, e),
           handler[n] \notin {"none", "unbreak", "done"},
           handler' = [handler EXCEPT ![n] = "done"],
           UNCHANGED <<vm, kind, wanted, inbox, view, refresh, details,
                       dismissed>>,
           \/ kind[n] \notin {"show", "asked"}
           \/ waiting = "target" /\ e.op = "resume"
    PROVE  Calm'
<1>1. vm = n /\ vm # 0 /\ Coming = {} /\ NoLeave /\ Unseen
  BY BusyPhase DEF Calm
<1>2. /\ QueueKeeps /\ OneLeave'
      /\ e.op = "resume" /\ ToResume => ToResume' /\ waiting' = waiting
  BY <1>1, EnqueueSteps, EntriesTyped DEF Base
<1>3. ~NoLeave'
  BY <1>2, Exclusive, PTL
<1>4. /\ handler'[vm] = "done"
      /\ \A i \in Pauses \ {vm} : handler'[i] = handler[i]
  BY <1>1 DEF Base, TypeOK
<1>5. PhaseOK'
  BY <1>1, <1>2, <1>4 DEF Calm, PhaseOK, Unseen, Coming
<1>6. DetailsOK'
  BY <1>1, <1>4 DEF Calm, DetailsOK, Unseen
<1>7. LeaveOK'
  <2>1. ToResume
    BY <1>1 DEF NoLeave, NoneQueued, ToResume, QueuedToResume
  <2> QED BY <1>1, <1>2, <2>1 DEF LeaveOK
<1> QED BY <1>1, <1>2, <1>3, <1>5, <1>6, <1>7, QueueStepCalm

-----------------------------------------------------------------------------
(* Steps of the machine. *)
LEMMA MachinePausesCalm ==
    ASSUME Base, Base', Calm, NEW k \in Kinds, MachinePauses(k)
    PROVE  Calm'
<1> DEFINE n == NextPause
           m == [type |-> "paused", pause |-> n]
<1>1. /\ vm = 0 /\ (k = "asked" => wanted)
      /\ \E i \in Pauses : kind[i] = "none"
      /\ vm' = n /\ kind' = [kind EXCEPT ![n] = k] /\ wanted' = FALSE
      /\ inbox' = Append(inbox, m)
      /\ UNCHANGED <<cmds, chain, head, expected, waiting, flushing, details,
                     handler, refresh, view, dismissed>>
  BY DEF MachinePauses, queueVars, clientVars
<1>2. n \in Pauses /\ kind[n] = "none" /\ handler[n] = "none"
  BY <1>1, TheNextPause DEF Base, KindOK
<1>3. n # 0 /\ kind'[n] = k
  BY <1>1, <1>2, MaxPausesAssumption DEF Pauses, Base, TypeOK
<1>4. NoLeave /\ Unseen /\ Coming = {}
  BY <1>1 DEF Calm, PhaseOK
<1>5. NoLeave' /\ Unseen'
  BY <1>1, <1>4 DEF NoLeave, NoneQueued, AsCommand, AtHead, Flushing, Unseen
<1>6. Posted(inbox, m, inbox')
  <2>1. inbox \in Seq(Messages) /\ m \in Messages
    BY <1>2, CommandsTyped DEF Base, TypeOK
  <2> QED BY <1>1, <2>1, PostedIn
<1>7. /\ Coming' = {Len(inbox) + 1} /\ inbox'[Len(inbox) + 1] = m
      /\ \A W : "paused" \notin W => In(inbox', W) = In(inbox, W)
      /\ \A W : \A i \in In(inbox, W) : i < Len(inbox) + 1
  BY <1>4, <1>6 DEF Posted, Coming
<1>8. /\ In(inbox', {"unbroken"}) = In(inbox, {"unbroken"})
      /\ In(inbox', {"fail"}) = In(inbox, {"fail"})
      /\ In(inbox', {"resumed"}) = In(inbox, {"resumed"})
      /\ In(inbox', Answers) = In(inbox, Answers)
  BY <1>7 DEF Answers
<1>9. PhaseOK'
  <2>1. One(Coming') /\ \A i \in Coming' : inbox'[i].pause = n
    BY <1>7 DEF One
  <2>2. \A i \in Pauses \ {vm'} : handler'[i] \in {"none", "done"}
    BY <1>1, MaxPausesAssumption DEF Calm, PhaseOK, Pauses
  <2>3. refresh'.at = "no" /\ handler'[vm'] = "none" /\ Coming' # {}
    BY <1>1, <1>2, <1>5, <1>7 DEF Unseen
  <2> QED BY <1>1, <1>3, <1>5, <2>1, <2>2, <2>3 DEF PhaseOK
<1>10. UnbreakOK'
  BY <1>1, <1>2, <1>8 DEF Calm, UnbreakOK
<1>11. AnswerOK'
  <2>1. \A i \in In(inbox', {"resumed"}) : \E j \in Coming' : i < j
    BY <1>7, <1>8
  <2>2. head' = "sent" /\ chain'[1].op # "pause" =>
          \A i \in In(inbox', Answers) :
              \E j \in In(inbox', {"resumed"}) : i < j
    BY <1>1, <1>8 DEF Calm, AnswerOK
  <2> QED BY <1>8, <2>1, <2>2 DEF Calm, AnswerOK
<1>12. DetailsOK'
  BY <1>1, <1>2, <1>5 DEF DetailsOK, Unseen
<1>13. ExpectedOK'
  <2>1. \A i \in Of(cmds', {"pause"}) : expected' = "pause"
    BY <1>1 DEF Calm, ExpectedOK
  <2>2. k = "asked" => expected' = "pause"
    BY <1>1 DEF Calm, ExpectedOK
  <2>3. kind'[vm'] = k /\ handler'[vm'] = "none"
    BY <1>1, <1>2, <1>3
  <2> QED BY <1>1, <2>1, <2>2, <2>3 DEF ExpectedOK
<1>14. ~OneLeave'
  BY <1>5, Exclusive, PTL
<1>15. WaitingOK' /\ LeaveOK'
  BY <1>1, <1>14 DEF Calm, WaitingOK, LeaveOK
<1> QED BY <1>9, <1>10, <1>11, <1>12, <1>13, <1>15 DEF Calm

(* The machine obeys the one resume or step that is under way. *)
LEMMA LeavesCalm ==
    ASSUME Base, Base', Calm, MachineObeys, Leaves(Head(cmds))
    PROVE  Calm'
<1> DEFINE c == Head(cmds)
<1>1. /\ cmds # << >> /\ cmds' = Tail(cmds)
      /\ c.do \in Leaving /\ vm' = 0
      /\ UNCHANGED <<kind, wanted, chain, head, expected, waiting, flushing,
                     details, handler, refresh, view, dismissed>>
  BY DEF MachineObeys, Leaves, Leaving, queueVars, clientVars
<1>2. cmds \in Seq(Commands) /\ inbox \in Seq(Messages)
  BY DEF Base, TypeOK
<1>3. /\ c \in Commands
      /\ \A W : 1 \in Of(cmds, W) <=> c.do \in W
      /\ \A W : \A i \in Of(cmds', W) : i + 1 \in Of(cmds, W) /\ i \in Nat \ {0}
      /\ \A W : Of(cmds, W) = {} => Of(cmds', W) = {}
      /\ \A W : c.do \in W /\ One(Of(cmds, W)) => Of(cmds', W) = {}
  BY <1>1, <1>2, TakenOf
<1>4. 1 \in AsCommand
  BY <1>1, <1>3 DEF AsCommand
<1>5. OneLeave /\ One(AsCommand) /\ ~AtHead /\ Later(chain) = {}
      /\ Flushing = {}
  BY <1>4, SomePhase DEF Calm, NoLeave, OneLeave, NoneQueued, OneQueued
<1>6. /\ vm # 0 /\ vm \in Pauses /\ Coming = {} /\ handler[vm] = "done"
      /\ Unseen
  BY <1>5, LeavePhase DEF Calm
<1>7. Sends(c)
  BY <1>2, <1>3, LeavesSends
<1>8. /\ Coming' = Coming
      /\ In(inbox', {"unbroken"}) = In(inbox, {"unbroken"})
      /\ In(inbox', {"fail"}) = In(inbox, {"fail"})
      /\ \E j \in In(inbox', {"resumed"}) : \A i \in In(inbox', Answers) : i < j
  <2>1. \A W : W \cap {"ok", "fail", "resumed"} = {} =>
            In(inbox', W) = In(inbox, W)
    BY <1>7 DEF Sends
  <2>2. /\ In(inbox', {"paused"}) = In(inbox, {"paused"})
        /\ In(inbox', {"unbroken"}) = In(inbox, {"unbroken"})
    BY <2>1
  <2> QED BY <1>6, <1>7, <2>2 DEF Sends, Coming
<1>9. AsCommand' = {}
  BY <1>1, <1>3, <1>5 DEF AsCommand
<1>10. NoLeave' /\ Unseen' /\ Coming' = {}
  BY <1>1, <1>5, <1>6, <1>8, <1>9
  DEF NoLeave, NoneQueued, AtHead, Flushing, Unseen
<1>11. PhaseOK'
  <2>1. \A n \in Pauses : handler[n] \in {"none", "done"}
    BY <1>6 DEF Calm, PhaseOK
  <2> QED BY <1>1, <1>10, <2>1 DEF PhaseOK, Unseen
<1>12. UnbreakOK'
  BY <1>1, <1>3, <1>6, <1>8 DEF Calm, UnbreakOK
<1>13. AnswerOK'
  BY <1>1, <1>8 DEF Calm, AnswerOK
<1>14. DetailsOK'
  BY <1>1, <1>10 DEF DetailsOK, Unseen
<1>15. ExpectedOK'
  <2>1. ~wanted'
    BY <1>1, <1>6 DEF Base, KindOK
  <2>2. ASSUME NEW i \in Of(cmds', {"pause"}) PROVE expected' = "pause"
    <3>1. i + 1 \in Of(cmds, {"pause"}) /\ 1 < i + 1
      BY <1>3
    <3> QED BY <1>1, <1>4, <3>1 DEF Calm, ExpectedOK
  <2> QED BY <1>1, <2>1, <2>2 DEF ExpectedOK
<1>16. WaitingOK' /\ LeaveOK'
  BY <1>1 DEF Calm, WaitingOK, LeaveOK
<1> QED BY <1>11, <1>12, <1>13, <1>14, <1>15, <1>16 DEF Calm

(* A command that does not move the machine is obeyed, and m is sent.      *)
LEMMA ObeyedCalm ==
    ASSUME Base, Base', Calm, cmds # << >>, cmds' = Tail(cmds),
           Head(cmds).do \notin Leaving,
           NEW m, m.type \in {"ok", "unbroken"}, Posted(inbox, m, inbox'),
           UNCHANGED <<vm, kind, chain, head, expected, waiting, flushing,
                       details, handler, refresh, view, dismissed>>
    PROVE  /\ PhaseOK' /\ DetailsOK' /\ WaitingOK' /\ LeaveOK'
           /\ head # "sent" \/ chain[1].op = "pause" => AnswerOK'
           /\ (wanted' => expected = "pause") => ExpectedOK'
<1> DEFINE c == Head(cmds)
<1>1. cmds \in Seq(Commands) /\ inbox \in Seq(Messages)
  BY DEF Base, TypeOK
<1>2. /\ \A W : \A i \in Of(cmds', W) : i + 1 \in Of(cmds, W) /\ i \in Nat \ {0}
      /\ \A W : Of(cmds, W) = {} => Of(cmds', W) = {}
      /\ \A W : c.do \notin W /\ One(Of(cmds, W)) => One(Of(cmds', W))
  BY <1>1, TakenOf
<1>3. /\ AsCommand = {} => AsCommand' = {}
      /\ One(AsCommand) => One(AsCommand')
  BY <1>2 DEF AsCommand
<1>4. /\ NoLeave => NoLeave'
      /\ OneLeave => OneLeave'
      /\ ToResume' = ToResume
  BY <1>3 DEF NoLeave, OneLeave, NoneQueued, OneQueued, AtHead, Flushing,
              ToResume, QueuedToResume
<1>5. OneLeave' => OneLeave
  BY <1>4, SomePhase, Exclusive, PTL DEF Calm
<1>6. /\ \A W : m.type \notin W => In(inbox', W) = In(inbox, W)
      /\ \A W : \A i \in In(inbox, W) : inbox'[i] = inbox[i]
  BY DEF Posted
<1>7. /\ Coming' = Coming /\ In(inbox', {"fail"}) = In(inbox, {"fail"})
      /\ In(inbox', {"resumed"}) = In(inbox, {"resumed"})
      /\ \A i \in Coming : inbox'[i] = inbox[i]
  BY <1>6 DEF Coming
<1>8. PhaseOK'
  BY <1>4, <1>7 DEF Calm, PhaseOK, Unseen
<1>9. DetailsOK' /\ WaitingOK'
  BY DEF Calm, DetailsOK, WaitingOK, OwnDetails
<1>10. LeaveOK'
  BY <1>4, <1>5 DEF Calm, LeaveOK
<1>11. ASSUME (head # "sent") \/ (chain[1].op = "pause") PROVE AnswerOK'
  BY <1>7, <1>11 DEF Calm, AnswerOK
<1>12. ASSUME wanted' => expected = "pause" PROVE ExpectedOK'
  <2>1. ASSUME NEW i \in Of(cmds', {"pause"}),
               vm = 0 \/ (\E j \in AsCommand' : j < i)
        PROVE  expected = "pause"
    <3>1. i + 1 \in Of(cmds, {"pause"}) /\ i \in Nat
      BY <1>2
    <3>2. ASSUME NEW j \in AsCommand', j < i
          PROVE  \E l \in AsCommand : l < i + 1
      <4>1. j + 1 \in AsCommand /\ j \in Nat
        BY <1>2 DEF AsCommand
      <4> QED BY <3>1, <3>2, <4>1
    <3> QED BY <2>1, <3>1, <3>2 DEF Calm, ExpectedOK
  <2> QED BY <1>12, <2>1 DEF Calm, ExpectedOK
<1> QED BY <1>8, <1>9, <1>10, <1>11, <1>12

LEMMA AsksToPauseCalm ==
    ASSUME Base, Base', Calm, MachineObeys, AsksToPause(Head(cmds))
    PROVE  Calm'
<1> DEFINE c == Head(cmds)
           m == Message("ok")
<1>1. /\ cmds # << >> /\ cmds' = Tail(cmds) /\ c.do = "pause"
      /\ wanted' = (wanted \/ vm = 0) /\ inbox' = Append(inbox, m)
      /\ UNCHANGED <<vm, kind, chain, head, expected, waiting, flushing,
                     details, handler, refresh, view, dismissed>>
  BY DEF MachineObeys, AsksToPause, queueVars, clientVars
<1>2. cmds \in Seq(Commands) /\ inbox \in Seq(Messages)
      /\ m \in Messages /\ m.type = "ok"
  BY CommandsTyped DEF Base, TypeOK
<1>3. Posted(inbox, m, inbox')
  BY <1>1, <1>2, PostedIn
<1>4. /\ \A W : 1 \in Of(cmds, W) <=> c.do \in W
      /\ c = cmds[1]
      /\ \A W : \A i \in Of(cmds', W) : i + 1 \in Of(cmds, W)
                                        /\ cmds'[i] = cmds[i + 1]
      /\ \A W : Of(cmds, W) = {} => Of(cmds', W) = {}
      /\ \A W : c.do \notin W /\ One(Of(cmds, W)) => One(Of(cmds', W))
  BY <1>1, <1>2, TakenOf
<1>5. chain[1].op = "pause"
  <2>1. 1 \in Of(cmds, FromQueue)
    BY <1>1, <1>4 DEF FromQueue
  <2> QED BY <1>1, <1>4, <2>1 DEF Base, QueueOK
<1>6. wanted' => expected = "pause"
  <2>1. 1 \in Of(cmds, {"pause"})
    BY <1>1, <1>4
  <2> QED BY <1>1, <2>1 DEF Calm, ExpectedOK
<1>7. /\ PhaseOK' /\ DetailsOK' /\ WaitingOK' /\ LeaveOK'
      /\ AnswerOK' /\ ExpectedOK'
  <2>1. c.do \notin Leaving /\ m.type \in {"ok", "unbroken"}
    BY <1>1, <1>2 DEF Leaving
  <2> HIDE DEF m
  <2> QED BY <1>1, <1>3, <1>5, <1>6, <2>1, ObeyedCalm
<1>8. UnbreakOK'
  <2>1. In(inbox', {"unbroken"}) = In(inbox, {"unbroken"})
    BY <1>2, <1>3 DEF Posted
  <2>2. \A i \in In(inbox, {"unbroken"}) : inbox'[i] = inbox[i]
    BY <1>3 DEF Posted
  <2>3. /\ Of(cmds, {"unbreak"}) = {} => Of(cmds', {"unbreak"}) = {}
        /\ One(Of(cmds, {"unbreak"})) => One(Of(cmds', {"unbreak"}))
    BY <1>1, <1>4
  <2>4. \A i \in Of(cmds', {"unbreak"}) : cmds'[i].pause = vm
    BY <1>4 DEF Calm, UnbreakOK
  <2> QED BY <1>1, <2>1, <2>2, <2>3, <2>4 DEF Calm, UnbreakOK
<1> QED BY <1>7, <1>8 DEF Calm

(* A breakpoint on the target of a step is set, or removed. *)
LEMMA PlantsCalm ==
    ASSUME Base, Base', Calm, MachineObeys, Plants(Head(cmds))
    PROVE  Calm'
<1> DEFINE c == Head(cmds)
           m == IF c.do = "break" THEN Message("ok")
                ELSE [type |-> "unbroken", pause |-> c.pause]
<1>1. /\ cmds # << >> /\ cmds' = Tail(cmds) /\ c.do \in {"break", "unbreak"}
      /\ inbox' = Append(inbox, m) /\ wanted' = wanted
      /\ UNCHANGED <<vm, kind, chain, head, expected, waiting, flushing,
                     details, handler, refresh, view, dismissed>>
  BY DEF MachineObeys, Plants, queueVars, clientVars
<1>2. cmds \in Seq(Commands) /\ inbox \in Seq(Messages)
  BY DEF Base, TypeOK
<1>3. /\ c \in Commands /\ c = cmds[1]
      /\ \A W : 1 \in Of(cmds, W) <=> c.do \in W
      /\ \A W : \A i \in Of(cmds', W) : i + 1 \in Of(cmds, W)
                                        /\ cmds'[i] = cmds[i + 1]
      /\ \A W : Of(cmds, W) = {} => Of(cmds', W) = {}
      /\ \A W : c.do \in W /\ One(Of(cmds, W)) => Of(cmds', W) = {}
      /\ \A W : c.do \notin W /\ One(Of(cmds, W)) => One(Of(cmds', W))
  BY <1>1, <1>2, TakenOf
<1>4. m \in Messages /\ m.type = (IF c.do = "break" THEN "ok" ELSE "unbroken")
  BY <1>3, CommandsTyped DEF Commands, Messages
<1>5. Posted(inbox, m, inbox')
  BY <1>1, <1>2, <1>4, PostedIn
<1>6. wanted' => expected = "pause"
  BY <1>1 DEF Calm, ExpectedOK
<1>7. PhaseOK' /\ DetailsOK' /\ WaitingOK' /\ LeaveOK' /\ ExpectedOK'
      /\ (head # "sent" \/ chain[1].op = "pause" => AnswerOK')
  <2>1. c.do \notin Leaving /\ m.type \in {"ok", "unbroken"}
    BY <1>1, <1>4 DEF Leaving
  <2> HIDE DEF m
  <2> QED BY <1>1, <1>5, <1>6, <2>1, ObeyedCalm
<1>8. /\ c.do # "break" => /\ Len(inbox) + 1 \in Nat
                           /\ In(inbox', {"unbroken"}) =
                                 In(inbox, {"unbroken"}) \cup {Len(inbox) + 1}
      /\ c.do = "break" => In(inbox', {"unbroken"}) = In(inbox, {"unbroken"})
      /\ c.do # "break" => In(inbox', Answers) = In(inbox, Answers)
      /\ c.do # "break" /\ In(inbox, {"unbroken"}) = {} =>
            One(In(inbox', {"unbroken"}))
      /\ \A i \in In(inbox, {"unbroken"}) : inbox'[i] = inbox[i]
      /\ inbox'[Len(inbox) + 1] = m
  <2> HIDE DEF m
  <2> QED BY <1>4, <1>5 DEF Posted, Answers
<1>9. CASE c.do = "break"
  <2>1. head = "break"
    <3>1. 1 \in Of(cmds, FromQueue)
      BY <1>3, <1>9 DEF FromQueue
    <3> QED BY <1>3, <1>9, <3>1 DEF Base, QueueOK
  <2>2. UnbreakOK'
    <3>1. /\ Of(cmds, {"unbreak"}) = {} => Of(cmds', {"unbreak"}) = {}
          /\ One(Of(cmds, {"unbreak"})) => One(Of(cmds', {"unbreak"}))
      BY <1>3, <1>9
    <3>2. \A i \in Of(cmds', {"unbreak"}) : cmds'[i].pause = vm
      BY <1>3 DEF Calm, UnbreakOK
    <3> QED BY <1>1, <1>8, <1>9, <3>1, <3>2 DEF Calm, UnbreakOK
  <2> QED BY <1>7, <2>1, <2>2 DEF Calm
<1>10. CASE c.do = "unbreak"
  <2>1. 1 \in Of(cmds, {"unbreak"})
    BY <1>3, <1>10
  <2>2. /\ vm # 0 /\ handler[vm] = "unbreak" /\ c.pause = vm
        /\ One(Of(cmds, {"unbreak"})) /\ In(inbox, {"unbroken"}) = {}
    BY <1>3, <2>1, OneIsSome DEF Calm, UnbreakOK
  <2>3. Of(cmds', {"unbreak"}) = {}
    BY <1>3, <1>10, <2>2
  <2>4. /\ One(In(inbox', {"unbroken"}))
        /\ \A i \in In(inbox', {"unbroken"}) : inbox'[i].pause = vm
    BY <1>8, <1>10, <2>2
  <2>5. UnbreakOK'
    BY <1>1, <2>2, <2>3, <2>4 DEF UnbreakOK
  <2>6. AnswerOK'
    <3>1. /\ In(inbox', {"fail"}) = In(inbox, {"fail"})
          /\ In(inbox', {"resumed"}) = In(inbox, {"resumed"})
          /\ Coming' = Coming
      <4> HIDE DEF m
      <4> QED BY <1>4, <1>5, <1>10 DEF Posted, Coming
    <3> QED BY <1>1, <1>8, <1>10, <3>1 DEF Calm, AnswerOK
  <2> QED BY <1>7, <2>5, <2>6 DEF Calm
<1> QED BY <1>1, <1>9, <1>10

LEMMA MachineObeysCalm ==
    ASSUME Base, Base', Calm, MachineObeys
    PROVE  Calm'
<1>1. \/ Leaves(Head(cmds)) \/ AsksToPause(Head(cmds)) \/ Plants(Head(cmds))
  BY DEF MachineObeys
<1> QED BY <1>1, LeavesCalm, AsksToPauseCalm, PlantsCalm

-----------------------------------------------------------------------------
(* What arrives from the machine. *)
LEMMA ReceivedSteps ==
    ASSUME Base, Calm, inbox # << >>, inbox' = Tail(inbox), vm' = vm
    PROVE  /\ Coming = {} => Coming' = {}
           /\ Head(inbox).type # "paused" =>
                 /\ One(Coming) => One(Coming')
                 /\ vm # 0 => \A i \in In(inbox', {"resumed"}) :
                                  \E k \in Coming' : i < k
           /\ \A i \in Coming' : \E j \in Coming : inbox'[i] = inbox[j]
           /\ In(inbox', {"fail"}) = {}
           /\ (\A i \in In(inbox, Answers) :
                   \E j \in In(inbox, {"resumed"}) : i < j) =>
                \A i \in In(inbox', Answers) :
                   \E j \in In(inbox', {"resumed"}) : i < j
<1>1. inbox \in Seq(Messages)
  BY DEF Base, TypeOK
<1>2. /\ \A W : \A i \in In(inbox', W) : /\ i + 1 \in In(inbox, W)
                                         /\ inbox'[i] = inbox[i + 1]
                                         /\ i \in Nat \ {0}
      /\ \A W : \A i \in In(inbox, W) :
            i # 1 => i - 1 \in In(inbox', W) /\ i \in Nat /\ i > 1
      /\ \A W : In(inbox, W) = {} => In(inbox', W) = {}
      /\ \A W : Head(inbox).type \notin W /\ One(In(inbox, W)) =>
            One(In(inbox', W))
      /\ \A W : 1 \in In(inbox, W) <=> Head(inbox).type \in W
  BY <1>1, ReceivedIn
<1>3. Coming = {} => Coming' = {}
  BY <1>2 DEF Coming
<1>4. ASSUME Head(inbox).type # "paused", One(Coming) PROVE One(Coming')
  BY <1>2, <1>4 DEF Coming
<1>5. ASSUME Head(inbox).type # "paused", vm # 0,
             NEW i \in In(inbox', {"resumed"})
      PROVE  \E k \in Coming' : i < k
  <2>1. i + 1 \in In(inbox, {"resumed"}) /\ i \in Nat \ {0}
    BY <1>2
  <2>2. PICK k \in Coming : i + 1 < k
    BY <1>5, <2>1 DEF Calm, AnswerOK
  <2>3. k # 1
    BY <1>2, <1>5 DEF Coming
  <2>4. k - 1 \in Coming' /\ k \in Nat
    BY <1>2, <2>3 DEF Coming
  <2>5. i < k - 1
    BY <2>1, <2>2, <2>4
  <2> QED BY <2>4, <2>5
<1>6. ASSUME NEW i \in Coming'
      PROVE  \E j \in Coming : inbox'[i] = inbox[j]
  <2>1. i + 1 \in Coming /\ inbox'[i] = inbox[i + 1]
    BY <1>2 DEF Coming
  <2> QED BY <2>1
<1>7. In(inbox', {"fail"}) = {}
  BY <1>2 DEF Calm, AnswerOK
<1>8. ASSUME \A i \in In(inbox, Answers) :
                \E j \in In(inbox, {"resumed"}) : i < j,
             NEW i \in In(inbox', Answers)
      PROVE  \E j \in In(inbox', {"resumed"}) : i < j
  <2>1. i + 1 \in In(inbox, Answers) /\ i \in Nat \ {0}
    BY <1>2
  <2>2. PICK j \in In(inbox, {"resumed"}) : i + 1 < j
    BY <1>8, <2>1
  <2>3. j # 1
    BY <2>1, <2>2
  <2>4. j - 1 \in In(inbox', {"resumed"}) /\ j \in Nat
    BY <1>2, <2>3
  <2>5. i < j - 1
    BY <2>1, <2>2, <2>4
  <2> QED BY <2>4, <2>5
<1> QED BY <1>3, <1>4, <1>5, <1>6, <1>7, <1>8

(* Something else than a pause arrives, and nobody leaves. *)
LEMMA ReceivedPhase ==
    ASSUME Base, Calm, inbox # << >>, inbox' = Tail(inbox),
           Head(inbox).type # "paused",
           UNCHANGED <<vm, handler, refresh, view>>,
           NoLeave => NoLeave', OneLeave => OneLeave'
    PROVE  PhaseOK'
<1>1. /\ Coming = {} => Coming' = {}
      /\ One(Coming) => One(Coming')
      /\ \A i \in Coming' : \E j \in Coming : inbox'[i] = inbox[j]
  BY ReceivedSteps
<1>2. vm = 0 => NoLeave' /\ Unseen' /\ Coming' = {}
  BY <1>1 DEF Calm, PhaseOK, Unseen
<1>3. vm # 0 /\ Coming # {} =>
         /\ NoLeave' /\ Unseen' /\ handler[vm] = "none"
         /\ One(Coming') /\ \A i \in Coming' : inbox'[i].pause = vm
  BY <1>1 DEF Calm, PhaseOK, Unseen
<1>4. vm # 0 /\ Coming # {} => Coming' # {}
  BY <1>3, OneIsSome
<1>5. vm # 0 /\ Coming = {} =>
         /\ handler[vm] # "none"
         /\ handler[vm] # "done" => NoLeave' /\ Unseen'
         /\ handler[vm] = "done" =>
               \/ OneLeave' /\ Unseen'
               \/ NoLeave' /\ view = vm /\ refresh.at \in {"no", "create"}
               \/ NoLeave' /\ view = 0 /\ refresh.at = "tell"
  BY DEF Calm, PhaseOK, Unseen
<1>6. /\ refresh.at # "no" => refresh.pause = vm
      /\ \A n \in Pauses \ {vm} : handler[n] \in {"none", "done"}
  BY DEF Calm, PhaseOK
<1>7. vm # 0 /\ Coming' = {} => Coming = {}
  BY <1>4
<1>8. vm # 0 /\ Coming' # {} => Coming # {}
  BY <1>1
<1> HIDE DEF NoLeave, OneLeave, Unseen, Coming
<1> QED BY <1>2, <1>3, <1>5, <1>6, <1>7, <1>8 DEF PhaseOK

(* The operation at the head of the queue sends its resume or its step.    *)
LEMMA HeadSends ==
    ASSUME Base, Calm, AtHead, NEW c \in Commands, c.do \in {"resume", "step"},
           cmds' = Append(cmds, c), head' = "sent",
           UNCHANGED <<vm, kind, chain, flushing, dismissed>>
    PROVE  /\ OneLeave /\ OneLeave' /\ LeaveOK'
           /\ Of(cmds', {"unbreak"}) = Of(cmds, {"unbreak"})
           /\ \A i \in Of(cmds, {"unbreak"}) : cmds'[i] = cmds[i]
           /\ Of(cmds', {"pause"}) = Of(cmds, {"pause"})
<1>1. /\ OneLeave /\ AsCommand = {} /\ Later(chain) = {} /\ Flushing = {}
  BY SomePhase DEF Calm, NoLeave, OneLeave, NoneQueued, OneQueued
<1>2. cmds \in Seq(Commands)
  BY DEF Base, TypeOK
<1>3. /\ \A W : c.do \notin W => Of(cmds', W) = Of(cmds, W)
      /\ \A W : c.do \in W /\ Of(cmds, W) = {} => One(Of(cmds', W))
      /\ \A W : \A i \in Of(cmds, W) : cmds'[i] = cmds[i]
  BY <1>2, SentOf
<1>4. One(AsCommand')
  BY <1>1, <1>3 DEF AsCommand, Leaving
<1>5. OneLeave'
  BY <1>1, <1>4 DEF OneLeave, OneQueued, AtHead, Flushing
<1>6. LeaveOK'
  BY <1>1 DEF Calm, LeaveOK, ToResume, QueuedToResume
<1> QED BY <1>1, <1>3, <1>5, <1>6

LEMMA PreparedCalm ==
    ASSUME Base, Base', Calm, Prepared
    PROVE  Calm'
<1>1. /\ head = "prepare" /\ head' = "sent" /\ cmds' = Append(cmds, Do("step"))
      /\ UNCHANGED <<vm, kind, wanted, inbox, chain, expected, waiting,
                     flushing, details, handler, refresh, view, dismissed>>
  BY DEF Prepared, machineVars, clientVars
<1>2. PICK c \in Commands : c.do = "step" /\ cmds' = Append(cmds, c)
  BY <1>1, CommandsTyped
<1>3. /\ OneLeave /\ OneLeave' /\ LeaveOK'
      /\ Of(cmds', {"unbreak"}) = Of(cmds, {"unbreak"})
      /\ \A i \in Of(cmds, {"unbreak"}) : cmds'[i] = cmds[i]
      /\ Of(cmds', {"pause"}) = Of(cmds, {"pause"})
  <2>1. AtHead /\ c.do \in {"resume", "step"}
    BY <1>1, <1>2 DEF AtHead
  <2>2. UNCHANGED <<vm, kind, chain, flushing, dismissed>>
    BY <1>1
  <2> QED BY <1>1, <1>2, <2>1, <2>2, HeadSends
<1>4. /\ vm # 0 /\ Coming = {} /\ handler[vm] = "done" /\ Unseen
  BY <1>3, LeavePhase DEF Calm
<1>5. PhaseOK'
  BY <1>1, <1>3, <1>4 DEF Calm, PhaseOK, Unseen, Coming
<1>6. UnbreakOK'
  BY <1>1, <1>3 DEF Calm, UnbreakOK
<1>7. AnswerOK'
  <2>1. In(inbox, Answers) = {}
    BY <1>1 DEF Base, QueueOK
  <2> QED BY <1>1, <2>1 DEF Calm, AnswerOK, Coming
<1>8. DetailsOK' /\ WaitingOK'
  BY <1>1 DEF Calm, DetailsOK, WaitingOK, OwnDetails
<1>9. ExpectedOK'
  <2>1. Of(cmds', {"pause"}) = {}
    BY <1>1, <1>3 DEF Base, QueueOK, Of, FromQueue
  <2> QED BY <1>1, <2>1 DEF Calm, ExpectedOK
<1> QED BY <1>3, <1>5, <1>6, <1>7, <1>8, <1>9 DEF Calm

LEMMA AnswerArrivesCalm ==
    ASSUME Base, Base', Calm, AnswerArrives
    PROVE  Calm'
<1>1. /\ inbox # << >> /\ Head(inbox).type \in Answers /\ inbox' = Tail(inbox)
      /\ \/ /\ head = "break" /\ head' = "sent" /\ waiting' = "target"
            /\ cmds' = Append(cmds, Do("resume"))
         \/ /\ ~(head = "break" /\ waiting # "no") /\ head' = "answered"
            /\ UNCHANGED <<waiting, cmds>>
      /\ UNCHANGED <<vm, kind, wanted, chain, expected, flushing, details,
                     handler, refresh, view, dismissed>>
  BY DEF AnswerArrives, machineVars, clientVars, Answers
<1>2. inbox \in Seq(Messages)
  BY DEF Base, TypeOK
<1>3. /\ 1 \in In(inbox, Answers)
      /\ \A W : \A i \in In(inbox', W) : /\ i + 1 \in In(inbox, W)
                                         /\ inbox'[i] = inbox[i + 1]
      /\ \A W : In(inbox, W) = {} => In(inbox', W) = {}
      /\ \A W : Head(inbox).type \in W /\ One(In(inbox, W)) =>
            In(inbox', W) = {}
      /\ \A W : Head(inbox).type \notin W /\ One(In(inbox, W)) =>
            One(In(inbox', W))
  BY <1>1, <1>2, ReceivedIn
<1>4. /\ head \in {"sent", "break"} /\ Of(cmds, FromQueue) = {}
      /\ In(inbox', Answers) = {}
  BY <1>1, <1>3 DEF Base, QueueOK
<1>5. Head(inbox).type \notin {"paused", "resumed", "unbroken"}
  BY <1>1 DEF Answers
<1>6. /\ Coming = {} => Coming' = {}
      /\ One(Coming) => One(Coming')
      /\ vm # 0 => \A i \in In(inbox', {"resumed"}) : \E k \in Coming' : i < k
      /\ \A i \in Coming' : \E j \in Coming : inbox'[i] = inbox[j]
      /\ In(inbox', {"fail"}) = {}
  BY <1>1, <1>5, ReceivedSteps
<1>7. Of(cmds, {"pause"}) = {}
  BY <1>4 DEF Of, FromQueue
<1>8. /\ In(inbox, {"unbroken"}) = {} => In(inbox', {"unbroken"}) = {}
      /\ One(In(inbox, {"unbroken"})) => One(In(inbox', {"unbroken"}))
      /\ \A i \in In(inbox', {"unbroken"}) : inbox'[i].pause = vm
  BY <1>3, <1>5 DEF Calm, UnbreakOK
<1>9. AnswerOK'
  BY <1>1, <1>4, <1>6 DEF Calm, AnswerOK
<1>10. DetailsOK'
  BY <1>1 DEF Calm, DetailsOK, OwnDetails
<1>11. CASE /\ head = "break" /\ head' = "sent"
            /\ cmds' = Append(cmds, Do("resume"))
  <2>1. PICK c \in Commands : c.do = "resume" /\ cmds' = Append(cmds, c)
    BY <1>11, CommandsTyped
  <2>2. /\ OneLeave /\ OneLeave' /\ LeaveOK'
        /\ Of(cmds', {"unbreak"}) = Of(cmds, {"unbreak"})
        /\ \A i \in Of(cmds, {"unbreak"}) : cmds'[i] = cmds[i]
        /\ Of(cmds', {"pause"}) = Of(cmds, {"pause"})
    <3>1. AtHead /\ c.do \in {"resume", "step"}
      BY <1>11, <2>1 DEF AtHead
    <3>2. UNCHANGED <<vm, kind, chain, flushing, dismissed>>
      BY <1>1
    <3> QED BY <1>11, <2>1, <3>1, <3>2, HeadSends
  <2>3. vm # 0 /\ Coming = {} /\ handler[vm] = "done" /\ Unseen
    BY <2>2, LeavePhase DEF Calm
  <2>4. PhaseOK'
    BY <1>1, <1>6, <2>2, <2>3 DEF Calm, PhaseOK, Unseen
  <2>5. UnbreakOK'
    BY <1>1, <1>8, <2>2 DEF Calm, UnbreakOK
  <2>6. ExpectedOK'
    BY <1>1, <1>7, <2>2 DEF Calm, ExpectedOK
  <2>7. WaitingOK'
    BY <1>11 DEF WaitingOK
  <2> QED BY <1>9, <1>10, <2>2, <2>4, <2>5, <2>6, <2>7 DEF Calm
<1>12. CASE /\ ~(head = "break" /\ waiting # "no") /\ head' = "answered"
            /\ UNCHANGED <<waiting, cmds>>
  <2>1. head = "sent"
    BY <1>4, <1>12 DEF Calm, WaitingOK
  <2>2. (NoLeave' <=> NoLeave) /\ (OneLeave' <=> OneLeave)
        /\ (ToResume' <=> ToResume)
    <3>1. /\ ~AtHead /\ ~AtHead' /\ AsCommand' = AsCommand
          /\ Flushing' = Flushing /\ chain' = chain
      BY <1>1, <1>12, <2>1 DEF AtHead, AsCommand, Flushing
    <3>2. /\ NoneQueued' <=> NoneQueued
          /\ OneQueued' <=> OneQueued
          /\ QueuedToResume' <=> QueuedToResume
      BY <3>1 DEF NoneQueued, OneQueued, QueuedToResume
    <3> QED BY <3>1, <3>2 DEF NoLeave, OneLeave, ToResume
  <2>3. PhaseOK'
    BY <1>1, <1>5, <2>2, ReceivedPhase
  <2>4. UnbreakOK'
    BY <1>1, <1>8, <1>12 DEF Calm, UnbreakOK
  <2>5. ExpectedOK'
    BY <1>1, <1>7, <1>12 DEF Calm, ExpectedOK
  <2>6. WaitingOK' /\ LeaveOK'
    BY <1>1, <1>12, <2>2 DEF Calm, WaitingOK, LeaveOK
  <2> QED BY <1>9, <1>10, <2>3, <2>4, <2>5, <2>6 DEF Calm
<1> QED BY <1>1, <1>11, <1>12

(* The event of the pause that the machine is at finds it unhandled, and   *)
(* no news that the machine went on is left.                               *)
LEMMA PausedArrivesCalm ==
    ASSUME Base, Base', Calm, PausedArrives
    PROVE  Calm'
<1> DEFINE n == Head(inbox).pause
<1>1. /\ inbox # << >> /\ Head(inbox).type = "paused" /\ inbox' = Tail(inbox)
      /\ handler' = [handler EXCEPT ![n] = Verdict(n)]
      /\ UNCHANGED <<vm, kind, wanted, cmds, chain, head, expected, waiting,
                     flushing, details, refresh, view, dismissed>>
  BY DEF PausedArrives, machineVars, queueVars, clientVars
<1>2. inbox \in Seq(Messages)
  BY DEF Base, TypeOK
<1>3. /\ Head(inbox) = inbox[1]
      /\ \A W : 1 \in In(inbox, W) <=> Head(inbox).type \in W
      /\ \A W : In(inbox, W) = {} => In(inbox', W) = {}
      /\ \A W : Head(inbox).type \in W /\ One(In(inbox, W)) =>
            In(inbox', W) = {}
      /\ \A W : \A i \in In(inbox, W) : i # 1 => i \in Nat /\ i > 1
  BY <1>1, <1>2, ReceivedIn
<1>4. 1 \in Coming
  BY <1>1, <1>3 DEF Coming
<1>5. /\ vm # 0 /\ NoLeave /\ Unseen /\ handler[vm] = "none" /\ One(Coming)
      /\ n = vm
  BY <1>3, <1>4 DEF Calm, PhaseOK
<1>6. vm \in Pauses
  BY <1>5, AtSomePause
<1>7. Coming = {1}
  BY <1>4, <1>5 DEF One
<1>8. /\ Coming' = {}
      /\ In(inbox, {"resumed"}) = {} /\ In(inbox', {"resumed"}) = {}
  <2>1. Coming' = {}
    BY <1>1, <1>3, <1>5 DEF Coming
  <2>2. ASSUME NEW i \in In(inbox, {"resumed"}) PROVE FALSE
    <3>1. i < 1
      BY <1>5, <1>7 DEF Calm, AnswerOK
    <3>2. i = 1 \/ (i \in Nat /\ i > 1)
      BY <1>3
    <3> QED BY <3>1, <3>2
  <2> QED BY <1>3, <2>1, <2>2
<1>9. /\ handler'[vm] \in {"skip", "bypass", "want"}
      /\ kind[vm] = "asked" => handler'[vm] = "want"
      /\ \A i \in Pauses \ {vm} : handler'[i] = handler[i]
  BY <1>1, <1>5, <1>6 DEF Verdict, Base, TypeOK
<1>10. (NoLeave' <=> NoLeave) /\ Unseen'
  BY <1>1, <1>5 DEF NoLeave, NoneQueued, AsCommand, AtHead, Flushing, Unseen
<1>11. PhaseOK'
  <2>1. handler'[vm] # "none" /\ handler'[vm] # "done"
    BY <1>9
  <2>2. \A i \in Pauses \ {vm} : handler'[i] \in {"none", "done"}
    BY <1>9 DEF Calm, PhaseOK
  <2>3. refresh'.at = "no"
    BY <1>10 DEF Unseen
  <2> QED BY <1>1, <1>5, <1>8, <1>10, <2>1, <2>2, <2>3 DEF PhaseOK
<1>12. UnbreakOK'
  <2>1. Of(cmds, {"unbreak"}) = {} /\ In(inbox, {"unbroken"}) = {}
    BY <1>5 DEF Calm, UnbreakOK
  <2>2. Of(cmds', {"unbreak"}) = {} /\ In(inbox', {"unbroken"}) = {}
    BY <1>1, <1>3, <2>1
  <2> QED BY <1>1, <1>9, <2>2 DEF UnbreakOK
<1>13. AnswerOK'
  <2>1. In(inbox', {"fail"}) = {}
    BY <1>3 DEF Calm, AnswerOK
  <2>2. head = "sent" /\ chain[1].op # "pause" => In(inbox', Answers) = {}
    BY <1>3, <1>8 DEF Calm, AnswerOK
  <2> QED BY <1>1, <1>8, <2>1, <2>2 DEF AnswerOK
<1>14. DetailsOK'
  BY <1>1, <1>5, <1>9 DEF DetailsOK, Unseen
<1>15. ExpectedOK'
  <2>1. kind[vm] = "asked" => expected = "pause"
    BY <1>5 DEF Calm, ExpectedOK
  <2>2. handler'[vm] \notin {"over", "in"}
    BY <1>9
  <2> QED BY <1>1, <2>1, <2>2 DEF Calm, ExpectedOK, AsCommand
<1>16. ~OneLeave'
  BY <1>5, <1>10, Exclusive, PTL
<1>17. WaitingOK' /\ LeaveOK'
  BY <1>1, <1>16 DEF Calm, WaitingOK, LeaveOK
<1> QED BY <1>11, <1>12, <1>13, <1>14, <1>15, <1>17 DEF Calm

(* The handler of the pause that the machine is at resumes or steps without *)
(* the queue.                                                              *)
LEMMA BypassSteps ==
    ASSUME Base, Calm, NoLeave, vm # 0, cmds' = Append(cmds, Do("raw")),
           UNCHANGED <<vm, wanted, chain, head, expected, flushing>>
    PROVE  /\ OneLeave'
           /\ Of(cmds', {"unbreak"}) = Of(cmds, {"unbreak"})
           /\ \A i \in Of(cmds, {"unbreak"}) : cmds'[i] = cmds[i]
           /\ ~\E i \in Of(cmds', {"pause"}) : \E j \in AsCommand' : j < i
<1>1. cmds \in Seq(Commands) /\ Do("raw") \in Commands /\ Do("raw").do = "raw"
  BY CommandsTyped DEF Base, TypeOK
<1>2. PICK c \in Commands : c.do = "raw" /\ cmds' = Append(cmds, c)
  BY <1>1
<1>3. /\ Len(cmds) \in Nat
      /\ \A W : c.do \notin W => Of(cmds', W) = Of(cmds, W)
      /\ \A W : c.do \in W =>
            Of(cmds', W) = Of(cmds, W) \cup {Len(cmds) + 1}
      /\ \A W : c.do \in W /\ Of(cmds, W) = {} => One(Of(cmds', W))
      /\ \A W : \A i \in Of(cmds, W) : cmds'[i] = cmds[i]
                                       /\ i < Len(cmds) + 1
  BY <1>1, <1>2, SentOf
<1>4. AsCommand = {} /\ ~AtHead /\ Later(chain) = {} /\ Flushing = {}
  BY DEF NoLeave, NoneQueued
<1>5. One(AsCommand') /\ AsCommand' = {Len(cmds) + 1}
  BY <1>2, <1>3, <1>4 DEF AsCommand, Leaving
<1>6. OneLeave'
  BY <1>4, <1>5 DEF OneLeave, OneQueued, AtHead, Flushing
<1>7. ASSUME NEW i \in Of(cmds', {"pause"}), NEW j \in AsCommand', j < i
      PROVE  FALSE
  <2>1. i \in Of(cmds, {"pause"})
    BY <1>2, <1>3
  <2>2. i < Len(cmds) + 1 /\ i \in Nat
    BY <1>1, <1>3, <2>1 DEF Of
  <2> QED BY <1>3, <1>5, <1>7, <2>2
<1>8. Of(cmds', {"unbreak"}) = Of(cmds, {"unbreak"})
  BY <1>2, <1>3
<1> QED BY <1>3, <1>6, <1>7, <1>8

LEMMA UnbrokenArrivesCalm ==
    ASSUME Base, Base', Calm, UnbrokenArrives
    PROVE  Calm'
<1> DEFINE n == Head(inbox).pause
<1>1. /\ inbox # << >> /\ Head(inbox).type = "unbroken"
      /\ inbox' = Tail(inbox) /\ handler' = [handler EXCEPT ![n] = "done"]
      /\ cmds' = Append(cmds, Do("raw"))
      /\ UNCHANGED <<vm, kind, wanted, chain, head, expected, waiting,
                     flushing, details, refresh, view, dismissed>>
  BY DEF UnbrokenArrives, machineVars, queueVars, clientVars
<1>2. inbox \in Seq(Messages)
  BY DEF Base, TypeOK
<1>3. /\ Head(inbox) = inbox[1]
      /\ \A W : 1 \in In(inbox, W) <=> Head(inbox).type \in W
      /\ \A W : In(inbox, W) = {} => In(inbox', W) = {}
      /\ \A W : Head(inbox).type \in W /\ One(In(inbox, W)) =>
            In(inbox', W) = {}
  BY <1>1, <1>2, ReceivedIn
<1>4. 1 \in In(inbox, {"unbroken"})
  BY <1>1, <1>3
<1>5. /\ vm # 0 /\ handler[vm] = "unbreak" /\ n = vm
      /\ One(In(inbox, {"unbroken"})) /\ Of(cmds, {"unbreak"}) = {}
  BY <1>3, <1>4, OneIsSome DEF Calm, UnbreakOK
<1>6. vm \in Pauses
  BY <1>5, AtSomePause
<1>7. Coming = {} /\ NoLeave /\ Unseen
  BY <1>5, <1>6, BusyPhase DEF Calm
<1>8. /\ handler'[vm] = "done"
      /\ \A i \in Pauses \ {vm} : handler'[i] = handler[i]
  BY <1>1, <1>5, <1>6 DEF Base, TypeOK
<1>9. /\ Coming' = {} /\ In(inbox', {"fail"}) = {}
      /\ In(inbox', {"unbroken"}) = {}
      /\ In(inbox, {"resumed"}) = {} /\ In(inbox', {"resumed"}) = {}
  <2>1. In(inbox, {"resumed"}) = {}
    BY <1>5, <1>7, NothingResumed DEF Calm
  <2>2. In(inbox, {"fail"}) = {}
    BY DEF Calm, AnswerOK
  <2> QED BY <1>1, <1>3, <1>5, <1>7, <2>1, <2>2 DEF Coming
<1>10. /\ OneLeave' /\ Of(cmds', {"unbreak"}) = {}
       /\ ~\E i \in Of(cmds', {"pause"}) : \E j \in AsCommand' : j < i
  <2>1. UNCHANGED <<vm, wanted, chain, head, expected, flushing>>
    BY <1>1
  <2> QED BY <1>1, <1>5, <1>7, <2>1, BypassSteps
<1>11. PhaseOK'
  <2>1. \A i \in Pauses \ {vm} : handler'[i] \in {"none", "done"}
    BY <1>8 DEF Calm, PhaseOK
  <2>2. Unseen'
    BY <1>1, <1>7 DEF Unseen
  <2>3. refresh'.at = "no"
    BY <2>2 DEF Unseen
  <2> QED BY <1>1, <1>5, <1>8, <1>9, <1>10, <2>1, <2>2, <2>3 DEF PhaseOK
<1>12. UnbreakOK'
  BY <1>1, <1>8, <1>9, <1>10 DEF UnbreakOK
<1>13. AnswerOK'
  <2>1. head = "sent" /\ chain[1].op # "pause" => In(inbox', Answers) = {}
    BY <1>3, <1>9 DEF Calm, AnswerOK
  <2> QED BY <1>1, <1>9, <2>1 DEF AnswerOK
<1>14. DetailsOK'
  BY <1>1, <1>7, <1>8 DEF DetailsOK, Unseen
<1>15. kind[vm] = "target"
  BY <1>5, <1>6 DEF Base, KindOK
<1>16. ExpectedOK'
  <2>1. wanted' => expected' = "pause"
    BY <1>1 DEF Calm, ExpectedOK
  <2> QED BY <1>1, <1>5, <1>8, <1>10, <1>15, <2>1 DEF ExpectedOK
<1>17. WaitingOK' /\ LeaveOK'
  BY <1>1, <1>15 DEF Calm, WaitingOK, LeaveOK
<1> QED BY <1>11, <1>12, <1>13, <1>14, <1>16, <1>17 DEF Calm

(* The client no longer shows the pause that was left. *)
LEMMA ResumedArrivesCalm ==
    ASSUME Base, Base', Calm, ResumedArrives
    PROVE  Calm'
<1>1. /\ inbox # << >> /\ Head(inbox).type = "resumed"
      /\ inbox' = Tail(inbox) /\ details' = None /\ view' = 0
      /\ UNCHANGED <<vm, kind, wanted, cmds, chain, head, expected, waiting,
                     flushing, handler, refresh, dismissed>>
  BY DEF ResumedArrives, machineVars, queueVars, clientVars
<1>2. inbox \in Seq(Messages)
  BY DEF Base, TypeOK
<1>3. /\ 1 \in In(inbox, {"resumed"})
      /\ \A W : \A i \in In(inbox', W) : /\ i + 1 \in In(inbox, W)
                                         /\ inbox'[i] = inbox[i + 1]
      /\ \A W : In(inbox, W) = {} => In(inbox', W) = {}
      /\ \A W : Head(inbox).type \notin W /\ One(In(inbox, W)) =>
            One(In(inbox', W))
  BY <1>1, <1>2, ReceivedIn
<1>4. vm # 0 => Coming # {} /\ handler[vm] = "none"
  BY <1>3 DEF Calm, AnswerOK, PhaseOK
<1>5. Unseen /\ NoLeave
  BY <1>4 DEF Calm, PhaseOK
<1>6. view' = view
  BY <1>1, <1>5 DEF Unseen
<1>7. (NoLeave' <=> NoLeave) /\ (OneLeave' <=> OneLeave)
  <2>1. /\ (AtHead' <=> AtHead) /\ AsCommand' = AsCommand
        /\ Flushing' = Flushing /\ chain' = chain
    BY <1>1 DEF AtHead, AsCommand, Flushing
  <2>2. (NoneQueued' <=> NoneQueued) /\ (OneQueued' <=> OneQueued)
    BY <2>1 DEF NoneQueued, OneQueued
  <2> QED BY <2>1, <2>2 DEF NoLeave, OneLeave
<1>8. PhaseOK'
  BY <1>1, <1>6, <1>7, ReceivedPhase
<1>9. UnbreakOK'
  <2>1. Of(cmds, {"unbreak"}) = {} /\ In(inbox, {"unbroken"}) = {}
    BY <1>4 DEF Calm, UnbreakOK
  <2>2. In(inbox', {"unbroken"}) = {}
    BY <1>3, <2>1
  <2> QED BY <1>1, <1>4, <2>1, <2>2 DEF UnbreakOK
<1>10. AnswerOK'
  <2>1. Head(inbox).type # "paused"
    BY <1>1
  <2>2. /\ vm # 0 => \A i \in In(inbox', {"resumed"}) : \E k \in Coming' : i < k
        /\ In(inbox', {"fail"}) = {}
        /\ (\A i \in In(inbox, Answers) :
                \E j \in In(inbox, {"resumed"}) : i < j) =>
             \A i \in In(inbox', Answers) :
                \E j \in In(inbox', {"resumed"}) : i < j
    BY <1>1, <2>1, ReceivedSteps
  <2> QED BY <1>1, <2>2 DEF Calm, AnswerOK
<1>11. DetailsOK'
  <2>1. view' = 0 /\ refresh'.at = "no"
    BY <1>1, <1>5 DEF Unseen
  <2> QED BY <1>1, <1>4, <2>1 DEF DetailsOK
<1>12. ExpectedOK'
  BY <1>1 DEF Calm, ExpectedOK, AsCommand
<1>13. ~OneLeave'
  BY <1>5, <1>7, Exclusive, PTL
<1>14. WaitingOK' /\ LeaveOK'
  BY <1>1, <1>13 DEF Calm, WaitingOK, LeaveOK
<1> QED BY <1>8, <1>9, <1>10, <1>11, <1>12, <1>14 DEF Calm

-----------------------------------------------------------------------------
(* What the thread does with the pause that the machine is at, while       *)
(* nobody leaves it.                                                       *)
LEMMA StayCalm ==
    ASSUME Base, Base', Calm, vm # 0, NoLeave, Coming = {},
           UNCHANGED <<vm, kind, wanted, cmds, inbox, chain, head, flushing,
                       dismissed>>,
           NEW s, handler' = [handler EXCEPT ![vm] = s],
           s \notin {"none", "unbreak"}, handler[vm] # "unbreak",
           refresh'.at # "no" => refresh'.pause = vm,
           s # "done" => Unseen',
           s = "done" => (\/ view' = vm /\ refresh'.at \in {"no", "create"}
                          \/ view' = 0 /\ refresh'.at = "tell"),
           s \in {"over", "in", "show", "tell"} => details' = OwnDetails(vm),
           view' # 0 \/ refresh'.at = "tell" => details'.pause = vm,
           kind[vm] = "asked" /\ s \in {"want", "create"} =>
               expected' = "pause",
           s \in {"over", "in"} => kind[vm] = "smart"
    PROVE  Calm'
<1>1. /\ vm \in Pauses /\ handler'[vm] = s
      /\ \A i \in Pauses \ {vm} : handler'[i] = handler[i]
  BY AtSomePause DEF Base, TypeOK
<1>2. /\ AsCommand' = AsCommand /\ Flushing' = Flushing /\ Coming' = Coming
      /\ (AtHead' <=> AtHead)
  BY DEF AsCommand, Flushing, Coming, AtHead
<1>3. AsCommand = {} /\ ~AtHead
  BY DEF NoLeave, NoneQueued
<1>4. NoLeave'
  BY <1>2 DEF NoLeave, NoneQueued
<1>5. ~OneLeave'
  BY <1>4, Exclusive, PTL
<1>6. PhaseOK'
  <2>1. \A i \in Pauses \ {vm} : handler'[i] \in {"none", "done"}
    BY <1>1 DEF Calm, PhaseOK
  <2>2. Coming' = {} /\ vm' = vm
    BY <1>2
  <2> HIDE DEF NoLeave, OneLeave, Coming, Unseen
  <2> QED BY <1>1, <1>4, <2>1, <2>2 DEF PhaseOK
<1>7. UnbreakOK'
  BY <1>1 DEF Calm, UnbreakOK
<1>8. AnswerOK'
  BY <1>2 DEF Calm, AnswerOK
<1>9. DetailsOK'
  <2>1. OwnDetails(vm)' = OwnDetails(vm)
    BY DEF OwnDetails
  <2> QED BY <1>1, <2>1 DEF DetailsOK
<1>10. ExpectedOK'
  <2>1. ~wanted'
    BY DEF Base, KindOK
  <2>2. ~\E j \in AsCommand' : TRUE
    BY <1>2, <1>3
  <2>3. /\ kind'[vm'] = "asked" =>
              /\ handler'[vm'] \in {"none", "want", "create"} =>
                    expected' = "pause"
              /\ handler'[vm'] \notin {"over", "in"}
        /\ kind'[vm'] # "smart" => handler'[vm'] \notin {"over", "in"}
    BY <1>1
  <2> QED BY <2>1, <2>2, <2>3 DEF ExpectedOK
<1>11. WaitingOK' /\ LeaveOK'
  BY <1>2, <1>3, <1>5 DEF WaitingOK, LeaveOK, AtHead
<1> QED BY <1>6, <1>7, <1>8, <1>9, <1>10, <1>11 DEF Calm

LEMMA BypassCalm ==
    ASSUME Base, Base', Calm, NEW n \in Pauses, handler[n] = "bypass",
           handler' = [handler EXCEPT ![n] = "done"],
           cmds' = Append(cmds, Do("raw")),
           UNCHANGED <<vm, kind, wanted, inbox, chain, head, expected, waiting,
                       flushing, details, refresh, view, dismissed>>
    PROVE  Calm'
<1>1. vm = n /\ vm # 0 /\ Coming = {} /\ NoLeave /\ Unseen
  BY BusyPhase DEF Calm
<1>2. /\ handler'[vm] = "done"
      /\ \A i \in Pauses \ {vm} : handler'[i] = handler[i]
  BY <1>1 DEF Base, TypeOK
<1>3. /\ OneLeave'
      /\ Of(cmds', {"unbreak"}) = Of(cmds, {"unbreak"})
      /\ ~\E i \in Of(cmds', {"pause"}) : \E j \in AsCommand' : j < i
  BY <1>1, BypassSteps
<1>4. kind[vm] \in {"skip", "script"}
  BY <1>1 DEF Base, KindOK
<1>5. Of(cmds, {"unbreak"}) = {} /\ In(inbox, {"unbroken"}) = {}
  BY <1>1 DEF Calm, UnbreakOK
<1>6. Coming' = {} /\ Unseen' /\ refresh'.at = "no"
  BY <1>1 DEF Coming, Unseen
<1>7. PhaseOK'
  <2>1. \A i \in Pauses \ {vm} : handler'[i] \in {"none", "done"}
    BY <1>2 DEF Calm, PhaseOK
  <2> QED BY <1>1, <1>2, <1>3, <1>6, <2>1 DEF PhaseOK
<1>8. UnbreakOK'
  BY <1>2, <1>3, <1>5 DEF UnbreakOK
<1>9. AnswerOK'
  BY DEF Calm, AnswerOK, Coming
<1>10. DetailsOK'
  BY <1>2, <1>6 DEF DetailsOK, Unseen
<1>11. ExpectedOK'
  <2>1. wanted' => expected' = "pause"
    BY DEF Calm, ExpectedOK
  <2> QED BY <1>1, <1>2, <1>3, <1>4, <2>1 DEF ExpectedOK
<1>12. WaitingOK' /\ LeaveOK'
  BY <1>4 DEF Calm, WaitingOK, LeaveOK
<1> QED BY <1>7, <1>8, <1>9, <1>10, <1>11, <1>12 DEF Calm

(* The target is reached, and its breakpoint is removed. *)
LEMMA TargetCalm ==
    ASSUME Base, Base', Calm, NEW n \in Pauses,
           handler[n] = "want", kind[n] = "target",
           handler' = [handler EXCEPT ![n] = "unbreak"], waiting' = "yes",
           cmds' = Append(cmds, [do |-> "unbreak", pause |-> n]),
           UNCHANGED <<vm, kind, wanted, inbox, chain, head, expected,
                       flushing, details, refresh, view, dismissed>>
    PROVE  Calm'
<1>1. vm = n /\ vm # 0 /\ Coming = {} /\ NoLeave /\ Unseen
  BY BusyPhase DEF Calm
<1>2. /\ handler'[vm] = "unbreak"
      /\ \A i \in Pauses \ {vm} : handler'[i] = handler[i]
  BY <1>1 DEF Base, TypeOK
<1>3. PICK c \in Commands :
         c.do = "unbreak" /\ c.pause = n /\ cmds' = Append(cmds, c)
  BY CommandsTyped
<1>4. cmds \in Seq(Commands)
  BY DEF Base, TypeOK
<1>5. /\ Len(cmds) \in Nat /\ cmds'[Len(cmds) + 1] = c
      /\ \A W : c.do \notin W => Of(cmds', W) = Of(cmds, W)
      /\ \A W : c.do \in W =>
            Of(cmds', W) = Of(cmds, W) \cup {Len(cmds) + 1}
      /\ \A W : c.do \in W /\ Of(cmds, W) = {} => One(Of(cmds', W))
  BY <1>3, <1>4, SentOf
<1>6. Of(cmds, {"unbreak"}) = {} /\ In(inbox, {"unbroken"}) = {}
  BY <1>1 DEF Calm, UnbreakOK
<1>7. /\ One(Of(cmds', {"unbreak"}))
      /\ \A i \in Of(cmds', {"unbreak"}) : cmds'[i].pause = n
      /\ AsCommand' = AsCommand
  BY <1>3, <1>5, <1>6 DEF AsCommand, Leaving
<1>8. AsCommand = {} /\ ~AtHead
  BY <1>1 DEF NoLeave, NoneQueued
<1>9. NoLeave'
  BY <1>1, <1>7 DEF NoLeave, NoneQueued, AtHead, Flushing
<1>10. Coming' = {} /\ Unseen' /\ refresh'.at = "no"
  BY <1>1 DEF Coming, Unseen
<1>11. PhaseOK'
  <2>1. \A i \in Pauses \ {vm} : handler'[i] \in {"none", "done"}
    BY <1>2 DEF Calm, PhaseOK
  <2> QED BY <1>1, <1>2, <1>9, <1>10, <2>1 DEF PhaseOK
<1>12. UnbreakOK'
  BY <1>1, <1>2, <1>6, <1>7 DEF UnbreakOK
<1>13. AnswerOK'
  BY DEF Calm, AnswerOK, Coming
<1>14. DetailsOK'
  BY <1>2, <1>10 DEF DetailsOK, Unseen
<1>15. ExpectedOK'
  <2>1. wanted' => expected' = "pause"
    BY DEF Calm, ExpectedOK
  <2> QED BY <1>1, <1>2, <1>7, <1>8, <2>1 DEF ExpectedOK
<1>16. ~OneLeave'
  BY <1>9, Exclusive, PTL
<1>17. WaitingOK' /\ LeaveOK'
  BY <1>8, <1>16 DEF WaitingOK, LeaveOK, AtHead
<1> QED BY <1>11, <1>12, <1>13, <1>14, <1>15, <1>17 DEF Calm

(* The handler resumes, goes around the queue, or creates the details. *)
LEMMA DecidedCalm ==
    ASSUME Base, Base', Calm, NEW n \in Pauses, Decided(n)
    PROVE  Calm'
<1>1. UNCHANGED <<vm, kind, wanted, inbox, details, refresh, view, dismissed>>
  BY DEF Decided, machineVars, clientVars
<1>2. CASE /\ \/ handler[n] = "skip"
              \/ handler[n] = "want" /\ waiting = "target"
           /\ handler' = [handler EXCEPT ![n] = "done"]
           /\ Enqueue(n, Entry("resume"))
  <2>1. /\ Entry("resume") \in Entries /\ Entry("resume").op = "resume"
    BY EntriesTyped DEF Operations
  <2>2. kind[n] \notin {"show", "asked"} \/ waiting = "target"
    BY <1>2 DEF Base, KindOK
  <2>3. handler[n] \notin {"none", "unbreak", "done"}
    BY <1>2
  <2> QED BY <1>1, <1>2, <2>1, <2>2, <2>3, HandlerLeaves
<1>3. CASE /\ handler[n] = "bypass"
           /\ handler' = [handler EXCEPT ![n] = "done"]
           /\ cmds' = Append(cmds, Do("raw"))
           /\ UNCHANGED <<queueVars, flushing>>
  BY <1>1, <1>3, BypassCalm DEF queueVars
<1>4. CASE /\ handler[n] = "want" /\ kind[n] = "target"
           /\ handler' = [handler EXCEPT ![n] = "unbreak"]
           /\ waiting' = "yes"
           /\ cmds' = Append(cmds, [do |-> "unbreak", pause |-> n])
           /\ UNCHANGED <<chain, head, expected, flushing>>
  BY <1>1, <1>4, TargetCalm
<1>5. CASE /\ handler[n] = "want"
           /\ handler' = [handler EXCEPT ![n] = "create"]
           /\ UNCHANGED <<queueVars, cmds, flushing>>
  <2>1. vm = n /\ vm # 0 /\ Coming = {} /\ NoLeave /\ Unseen
    BY <1>5, BusyPhase DEF Calm
  <2>2. kind[vm] = "asked" => expected = "pause"
    BY <1>5, <2>1 DEF Calm, ExpectedOK
  <2>3. Unseen' /\ view' = 0 /\ refresh'.at = "no"
    BY <1>1, <2>1 DEF Unseen
  <2>4. UNCHANGED <<vm, kind, wanted, cmds, inbox, chain, head, flushing,
                    dismissed, expected>>
    BY <1>1, <1>5 DEF queueVars
  <2>5. PICK s : s = "create" /\ handler' = [handler EXCEPT ![vm] = s]
    BY <1>5, <2>1
  <2> QED BY <1>5, <2>1, <2>2, <2>3, <2>4, <2>5, StayCalm
<1> QED BY <1>2, <1>3, <1>4, <1>5 DEF Decided

LEMMA CreatedCalm ==
    ASSUME Base, Base', Calm, NEW n \in Pauses, Created(n)
    PROVE  Calm'
<1>1. PICK s \in {"show", "over", "in"} :
         /\ handler[n] = "create" /\ details' = OwnDetails(n)
         /\ handler' = [handler EXCEPT ![n] = s]
         /\ s # "show" => kind[n] \in {"smart", "asked"} /\ expected # "pause"
         /\ UNCHANGED <<vm, kind, wanted, cmds, inbox, chain, head, expected,
                        waiting, flushing, refresh, view, dismissed>>
  BY DEF Created, machineVars, queueVars, clientVars
<1>2. vm = n /\ vm # 0 /\ Coming = {} /\ NoLeave /\ Unseen
  BY <1>1, BusyPhase DEF Calm
<1>3. s # "show" => kind[vm] = "smart"
  BY <1>1, <1>2 DEF Calm, ExpectedOK
<1>4. Unseen' /\ view' = 0 /\ refresh'.at = "no"
  BY <1>1, <1>2 DEF Unseen
<1> QED BY <1>1, <1>2, <1>3, <1>4, StayCalm

(* Only a pause of the smart stepper steps on: a pause that was asked for  *)
(* is shown.                                                               *)
LEMMA SteeredCalm ==
    ASSUME Base, Base', Calm, NEW n \in Pauses, Steered(n)
    PROVE  Calm'
<1>1. /\ handler[n] \in {"over", "in", "show"}
      /\ UNCHANGED <<vm, kind, wanted, inbox, details, refresh, view,
                     dismissed>>
  BY DEF Steered, machineVars, clientVars
<1>2. vm = n /\ vm # 0 /\ Coming = {} /\ NoLeave /\ Unseen
  BY <1>1, BusyPhase DEF Calm
<1>3. details = OwnDetails(n)
  BY <1>1, <1>2 DEF Calm, DetailsOK
<1>4. CASE handler[n] = "show"
  <2>1. /\ handler' = [handler EXCEPT ![n] = "tell"]
        /\ UNCHANGED <<chain, head, cmds, flushing>>
    BY <1>3, <1>4 DEF Steered
  <2>2. Unseen' /\ view' = 0 /\ refresh'.at = "no"
    BY <1>1, <1>2 DEF Unseen
  <2>3. PICK s : s = "tell" /\ handler' = [handler EXCEPT ![vm] = s]
    BY <1>2, <2>1
  <2>4. details' = OwnDetails(vm)
    BY <1>1, <1>2, <1>3
  <2> QED BY <1>1, <1>2, <1>4, <2>1, <2>2, <2>3, <2>4, StayCalm
<1>5. CASE handler[n] # "show"
  <2>1. /\ handler' = [handler EXCEPT ![n] = "done"]
        /\ Enqueue(n, Entry(handler[n]))
    BY <1>3, <1>5 DEF Steered
  <2>2. Entry(handler[n]) \in Entries /\ Entry(handler[n]).op # "pause"
    BY <1>1, <1>5, EntriesTyped DEF Operations
  <2>3. kind[n] = "smart"
    BY <1>1, <1>2, <1>5 DEF Calm, ExpectedOK
  <2> QED BY <1>1, <2>1, <2>2, <2>3, HandlerLeaves
<1> QED BY <1>4, <1>5

(* The client is told, refreshes, and is told again. *)
LEMMA ShowsCalm ==
    ASSUME Base, Base', Calm, ~rushed',
           \/ \E n \in Pauses : Told(n)
           \/ Refreshed \/ RefreshTold \/ AsksForRefresh
    PROVE  Calm'
<1>1. UNCHANGED <<vm, kind, wanted, cmds, inbox, chain, head, flushing,
                  dismissed>>
  BY DEF Told, Refreshed, RefreshTold, AsksForRefresh, machineVars, queueVars,
         clientVars
<1>2. ASSUME NEW n \in Pauses, Told(n) PROVE Calm'
  <2>1. /\ handler[n] = "tell" /\ handler' = [handler EXCEPT ![n] = "done"]
        /\ view' = n /\ UNCHANGED <<details, refresh>>
    BY <1>2 DEF Told
  <2>2. vm = n /\ vm # 0 /\ Coming = {} /\ NoLeave /\ Unseen
    BY <2>1, BusyPhase DEF Calm
  <2>3. details' = OwnDetails(vm) /\ details'.pause = vm
    BY <2>1, <2>2 DEF Calm, DetailsOK, OwnDetails
  <2>4. refresh'.at = "no"
    BY <2>1, <2>2 DEF Unseen
  <2>5. PICK s : s = "done" /\ handler' = [handler EXCEPT ![vm] = s]
    BY <2>1, <2>2
  <2> QED BY <1>1, <2>1, <2>2, <2>3, <2>4, <2>5, StayCalm
<1>3. ASSUME Refreshed \/ RefreshTold \/ AsksForRefresh PROVE Calm'
  <2>1. ~Unseen
    BY <1>3 DEF Refreshed, RefreshTold, AsksForRefresh, Asks, Unseen
  <2>2. /\ vm # 0 /\ vm \in Pauses /\ Coming = {} /\ handler[vm] = "done"
        /\ NoLeave
        /\ \/ view = vm /\ refresh.at \in {"no", "create"}
           \/ view = 0 /\ refresh.at = "tell"
    BY <2>1, ShownPhase DEF Calm
  <2>3. handler' = [handler EXCEPT ![vm] = "done"]
    <3>1. handler' = handler
      BY <1>3 DEF Refreshed, RefreshTold, AsksForRefresh
    <3> QED BY <2>2, <3>1 DEF Base, TypeOK
  <2>4. /\ refresh.at # "no" => refresh.pause = vm
        /\ view # 0 \/ refresh.at = "tell" => details.pause = vm
    BY DEF Calm, PhaseOK, DetailsOK
  <2>5. /\ refresh'.at # "no" => refresh'.pause = vm
        /\ \/ view' = vm /\ refresh'.at \in {"no", "create"}
           \/ view' = 0 /\ refresh'.at = "tell"
        /\ details'.pause = vm
    <3>1. CASE Refreshed
      BY <2>2, <2>4, <3>1 DEF Refreshed, Base, TypeOK
    <3>2. CASE RefreshTold
      BY <2>2, <2>4, <3>2 DEF RefreshTold, Base, TypeOK
    <3>3. CASE AsksForRefresh
      BY <2>2, <2>4, <3>3 DEF AsksForRefresh, Asks
    <3> QED BY <1>3, <3>1, <3>2, <3>3
  <2> QED BY <1>1, <2>2, <2>3, <2>5, StayCalm
<1> QED BY <1>2, <1>3

-----------------------------------------------------------------------------
LEMMA InitCalm ==
    ASSUME Init
    PROVE  Calm
<1>1. /\ vm = 0 /\ head = "idle" /\ view = 0 /\ refresh.at = "no" /\ ~wanted
      /\ \A n \in Pauses : handler[n] = "none"
      /\ chain = << >> /\ flushing = {}
  BY DEF Init
<1>2. (\A W : Of(cmds, W) = {}) /\ \A W : In(inbox, W) = {}
  BY DEF Init, Of, In
<1>3. NoLeave /\ Unseen /\ Coming = {}
  BY <1>1, <1>2
  DEF NoLeave, NoneQueued, AsCommand, AtHead, Flushing, Later, Unseen, Coming
<1>4. PhaseOK
  BY <1>1, <1>3 DEF PhaseOK
<1>5. UnbreakOK /\ AnswerOK /\ ExpectedOK
  BY <1>1, <1>2 DEF UnbreakOK, AnswerOK, ExpectedOK
<1>6. DetailsOK /\ WaitingOK /\ LeaveOK
  BY <1>1 DEF DetailsOK, WaitingOK, LeaveOK
<1> QED BY <1>4, <1>5, <1>6 DEF Calm

LEMMA UnchangedCalm ==
    ASSUME Calm, UNCHANGED vars
    PROVE  Calm'
<1>1. UNCHANGED <<vm, kind, wanted, cmds, inbox, chain, head, flushing,
                  expected, waiting, details, handler, refresh, view,
                  dismissed>>
  BY DEF vars, machineVars, queueVars, clientVars
<1>2. /\ AsCommand' = AsCommand /\ Flushing' = Flushing /\ Coming' = Coming
      /\ (AtHead' <=> AtHead) /\ (Unseen' <=> Unseen)
  BY <1>1 DEF AsCommand, Flushing, Coming, AtHead, Unseen
<1>3. /\ NoLeave' <=> NoLeave
      /\ OneLeave' <=> OneLeave
      /\ ToResume' <=> ToResume
  <2>1. /\ NoneQueued' <=> NoneQueued
        /\ OneQueued' <=> OneQueued
        /\ QueuedToResume' <=> QueuedToResume
    BY <1>1, <1>2 DEF NoneQueued, OneQueued, QueuedToResume
  <2> QED BY <1>2, <2>1 DEF NoLeave, OneLeave, ToResume
<1>4. PhaseOK'
  BY <1>1, <1>2, <1>3 DEF Calm, PhaseOK
<1>5. UnbreakOK' /\ AnswerOK'
  BY <1>1, <1>2 DEF Calm, UnbreakOK, AnswerOK
<1>6. ExpectedOK'
  BY <1>1, <1>2 DEF Calm, ExpectedOK
<1>7. DetailsOK' /\ WaitingOK' /\ LeaveOK'
  BY <1>1, <1>3 DEF Calm, DetailsOK, WaitingOK, LeaveOK, OwnDetails
<1> QED BY <1>4, <1>5, <1>6, <1>7 DEF Calm

(* A client that was rushed stays so. *)
LEMMA NotRushedBefore ==
    ASSUME Base, [Next]_vars, ~rushed'
    PROVE  ~rushed
<1>1. \/ rushed' = rushed
      \/ \E b : Asks(b)
  BY DEF Next, vars, clientVars, MachinePauses, MachineObeys, Arrives,
         AnswerArrives, PausedArrives, UnbrokenArrives, ResumedArrives,
         Prepared, OperationOver, Flushed, Handles, Decided, Created, Steered,
         Told, Refreshed, RefreshTold, Client, AsksToLeave, AsksForPause,
         AsksForRefresh
<1> QED BY <1>1 DEF Asks

LEMMA NextCalm ==
    ASSUME Base, Base', Calm, ~rushed', [Next]_vars
    PROVE  Calm'
<1>1. ASSUME NEW k \in Kinds, MachinePauses(k) PROVE Calm'
  BY <1>1, MachinePausesCalm
<1>2. CASE MachineObeys
  BY <1>2, MachineObeysCalm
<1>3. CASE Arrives
  BY <1>3, AnswerArrivesCalm, PausedArrivesCalm, UnbrokenArrivesCalm,
     ResumedArrivesCalm
  DEF Arrives
<1>4. CASE Prepared
  BY <1>4, PreparedCalm
<1>5. CASE OperationOver
  BY <1>5, OperationOverCalm
<1>6. ASSUME NEW f \in flushing, Flushed(f) PROVE Calm'
  BY <1>6, FlushedCalm
<1>7. ASSUME NEW n \in Pauses, Handles(n) PROVE Calm'
  BY <1>7, DecidedCalm, CreatedCalm, SteeredCalm, ShowsCalm DEF Handles
<1>8. CASE Refreshed \/ RefreshTold
  BY <1>8, ShowsCalm
<1>9. CASE Client
  BY <1>9, AsksToLeaveCalm, AsksForPauseCalm, ShowsCalm DEF Client
<1>10. CASE UNCHANGED vars
  BY <1>10, UnchangedCalm
<1> QED BY <1>1, <1>2, <1>3, <1>4, <1>5, <1>6, <1>7, <1>8, <1>9, <1>10 DEF Next

-----------------------------------------------------------------------------
(* The invariant that everything else follows from. *)
THEOREM Invariant == Spec => []IInv
<1>1. Init => IInv
  BY InitBase, InitCalm DEF IInv
<1>2. IInv /\ [Next]_vars => IInv'
  BY NextBase, NotRushedBefore, NextCalm DEF IInv
<1> QED BY <1>1, <1>2, PTL DEF Spec

(* Nothing is on its way: the client shows what the machine does.          *)
LEMMA QuietShows ==
    ASSUME IInv
    PROVE  Truthful
<1> SUFFICES ASSUME Quiet, ~rushed PROVE view = vm
  BY DEF Truthful
<1>1. Base /\ Calm
  BY DEF IInv
<1>2. ~OneLeave /\ Coming = {} /\ refresh.at = "no"
  <2>1. AsCommand = {} /\ Coming = {}
    BY DEF Quiet, AsCommand, Of, Coming, In
  <2>2. Later(chain) = {} /\ ~AtHead /\ Flushing = {}
    BY <1>1 DEF Quiet, Later, AtHead, Flushing, Base, TypeOK
  <2>3. NoLeave
    BY <2>1, <2>2 DEF NoLeave, NoneQueued
  <2> QED BY <2>1, <2>3, Exclusive DEF Quiet
<1>3. vm # 0 => handler[vm] \in {"none", "done"}
  BY <1>1, AtSomePause DEF Quiet
<1> QED BY <1>1, <1>2, <1>3 DEF Calm, PhaseOK, Unseen

(* Once nothing is on its way, a client that is not rushed shows exactly   *)
(* what the machine does: no `stopped` event for a pause that was left,    *)
(* and none missing for one that was not.                                  *)
THEOREM Truth == Spec => []Truthful
  BY Invariant, QuietShows, PTL

(* Only a command moves a machine that is paused. *)
LEMMA LeftByCommand ==
    ASSUME Base, [Next]_vars, vm # 0, vm' # vm
    PROVE  AsCommand # {}
<1>1. MachineObeys /\ Leaves(Head(cmds))
  BY DEF Next, vars, machineVars, MachinePauses, MachineObeys, Arrives,
         AnswerArrives, PausedArrives, UnbrokenArrives, ResumedArrives,
         Prepared, OperationOver, Flushed, Handles, Decided, Created, Steered,
         Told, Refreshed, RefreshTold, Client, AsksToLeave, AsksForPause,
         AsksForRefresh, AsksToPause, Plants
<1>2. cmds \in Seq(Commands) /\ cmds # << >>
      /\ Head(cmds).do \in Leaving
  BY <1>1 DEF Base, TypeOK, MachineObeys, Leaves, Leaving
<1>3. 1 \in AsCommand
  BY <1>2 DEF AsCommand, Of
<1> QED BY <1>3

LEMMA StepKeepsShown ==
    ASSUME IInv, [Next]_vars
    PROVE  Left({"show", "asked"}) /\ ~rushed /\ waiting # "target"
               => vm \in dismissed
<1> SUFFICES ASSUME vm # 0, vm' # vm, kind[vm] \in {"show", "asked"}, ~rushed,
                    waiting # "target"
             PROVE  vm \in dismissed
  BY DEF Left
<1>1. Base /\ Calm
  BY DEF IInv
<1>2. AsCommand # {}
  BY <1>1, LeftByCommand
<1>3. OneLeave
  BY <1>1, <1>2, SomePhase DEF Calm, NoLeave, NoneQueued
<1> QED BY <1>1, <1>3 DEF Calm, LeaveOK

(* A pause to be shown, or asked for, is left only when the client saw it  *)
(* and asked to leave it, or on the way to the target of a step: no resume *)
(* or step that was meant for an earlier pause reaches it.                 *)
THEOREM Kept == Spec => ShownIsKept
<1>1. IInv /\ [Next]_vars =>
         [Left({"show", "asked"}) /\ ~rushed /\ waiting # "target"
             => vm \in dismissed]_vars
  BY StepKeepsShown
<1> QED BY <1>1, Invariant, PTL DEF Spec, ShownIsKept
=============================================================================
