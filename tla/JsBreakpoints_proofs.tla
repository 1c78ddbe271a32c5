------------------------- MODULE JsBreakpoints_proofs -------------------------
(***************************************************************************)
(* That the breakpoints asked for are set, that none is leaked, that the   *)
(* profiler silences all of them, and that the count of breakpoints and    *)
(* the handler match, for any number of sources, scripts and requests      *)
(* (module JsBreakpoints).                                                 *)
(*                                                                         *)
(* NoOrphan says something of quiet states only.  What makes it hold is    *)
(* true in all: whatever V8 has a breakpoint for is known to the debugger  *)
(* or has its removal on the wire, and what is being set is known or will  *)
(* be refused (RefsOK).  HandlerMatches is about states in which no        *)
(* request is under way; in the others CountOK and HandlerOK say by how    *)
(* much the count is off, and whom the handler is for.                     *)
(*                                                                         *)
(* CurrentSet, the other half of NoOrphan, has an invariant of its own on  *)
(* top of that one (SInv): an enabled breakpoint is in each script of its  *)
(* source set in V8, being set, or about to be placed there, unless it is  *)
(* contested (SetOK); and what V8 removes is what some request waits to    *)
(* see removed, or was set by path where the line is elsewhere             *)
(* (RemovalsOK).                                                           *)
(***************************************************************************)
EXTENDS JsBreakpoints, FiniteSetTheorems, TLAPS

(* The commands on their way to V8. *)
LiveSets(commands) ==
    {commands[i].ref :
        i \in {j \in DOMAIN commands : /\ commands[j].kind = "set"
                                       /\ ~ commands[j].dead}}
Lost(commands) ==
    {commands[i].ref : i \in {j \in DOMAIN commands :
                                 commands[j].kind = "lost"}}
Removals(commands) ==
    {commands[i].ref : i \in {j \in DOMAIN commands :
                                 commands[j].kind = "remove"}}

(* Those that are removed, or will be when V8 has set them. *)
Doomed(commands) ==
    {commands[i].ref :
        i \in {j \in DOMAIN commands :
                  commands[j].kind = "remove" \/ commands[j].dead}}

(* No reference is being set twice. *)
SetOnce(commands) ==
    \A i, j \in DOMAIN commands :
        /\ commands[i].kind = "set" /\ ~ commands[i].dead
        /\ commands[j].kind = "set" /\ ~ commands[j].dead
        /\ commands[i].ref = commands[j].ref
        => i = j

(* The breakpoints of a request exist once it is merged. *)
RequestsOK ==
    /\ \A i \in DOMAIN queue : pc[queue[i]] = "entry"
    /\ \A i, j \in DOMAIN queue : queue[i] = queue[j] => i = j
    /\ \A r \in Requests : \A b \in news[r] : b[1] = r
    /\ \A b \in byDapId : pc[b[1]] \in {"unbind", "enable", "done"}
    /\ \A s \in Sources : byPath[s] \subseteq byDapId
    /\ \A s, t \in Sources : s # t => byPath[s] \cap byPath[t] = {}
    /\ filter = "none" => enabled = {}

(* The new breakpoints that are not counted yet. *)
Coming == {b \in Breakpoints : pc[b[1]] = "unbind" /\ b \in news[b[1]]}

CountOK == total + Cardinality(Coming) = Cardinality(byDapId)

(* While no request is between its two counts, there is a handler if there *)
(* are breakpoints, or a request that asks for some has just come.         *)
HandlerOK ==
    (\A r \in Requests : pc[r] # "unbind") =>
        /\ byDapId # {} => handler
        /\ handler => \/ byDapId # {}
                      \/ \E r \in Requests : /\ pc[r] \in {"predict", "entry"}
                                             /\ args[r].lines # {}

(* A reference V8 has a breakpoint for is known, or about to be removed,   *)
(* or was dropped; one that is being set is known; and one that was dropped*)
(* while it was being set will be refused, or is counted as dropped.       *)
RefsOK ==
    /\ \A ref \in v8 : ref \in applied \cup forgotten \cup Removals(wire)
    /\ \A ref \in v8 : ref[2] \in alive \cup Lasting
    /\ \A ref \in pending \cup applied :
          ref[1] \in enabled /\ ref[2] \in parsed \cup Lasting
    /\ SetOnce(wire)
    /\ LiveSets(wire) \subseteq pending
    /\ \A ref \in Lost(wire) : ref \in forgotten \/ ref[2] \in parsed \ alive

(* The profiler has one command at a time on the wire. *)
ProfilerOK ==
    \A i \in DOMAIN wire : wire[i].kind = "profile" =>
        /\ filter = "none" /\ profile < 2
        /\ \A j \in DOMAIN wire : wire[j].kind = "profile" => j = i

IInv ==
    /\ TypeOK /\ wire \in Seq(Commands)
    /\ RequestsOK /\ CountOK /\ HandlerOK /\ ProfilerOK
    /\ RefsOK

-----------------------------------------------------------------------------
(* The wire.                                                               *)

LEMMA RefsFinite ==
    /\ IsFiniteSet(Breakpoints) /\ IsFiniteSet(Refs)
    /\ \A refs \in SUBSET Refs : IsFiniteSet(refs)
<1>1. IsFiniteSet(Requests)
  BY BoundsAssumption, FS_Interval DEF Requests
<1>2. IsFiniteSet(Breakpoints)
  BY <1>1, FiniteAssumption, FS_Product DEF Breakpoints
<1>3. IsFiniteSet(Scripts \cup Lasting)
  <2>1. IsFiniteSet(Urls \cup {"path"})
    BY FiniteAssumption, FS_AddElement
  <2> QED BY <2>1, FiniteAssumption, FS_Union DEF Lasting
<1>4. IsFiniteSet(Refs)
  BY <1>2, <1>3, FS_Product DEF Refs
<1> QED BY <1>2, <1>4, FS_Subset

(* One command of that kind for each reference. *)
OneEach(c, kind, refs) ==
    /\ c \in Seq(Commands)
    /\ \A i \in DOMAIN c : c[i].kind = kind /\ ~ c[i].dead /\ c[i].ref \in refs
    /\ \A i, j \in DOMAIN c : c[i].ref = c[j].ref => i = j
    /\ \A ref \in refs : \E i \in DOMAIN c : c[i].ref = ref

LEMMA CommandedFacts ==
    ASSUME NEW kind \in {"set", "remove"}, NEW refs \in SUBSET Refs
    PROVE  OneEach(Commanded(kind, refs), kind, refs)
<1> DEFINE c == Commanded(kind, refs)
           Cmd(ref) == [kind |-> kind, ref |-> ref, dead |-> FALSE]
           S == {Cmd(ref) : ref \in refs}
           n == Cardinality(S)
<1>1. IsFiniteSet(S)
  <2> DEFINE f == [ref \in refs |-> Cmd(ref)]
  <2>1. f \in Surjection(refs, S)
    BY DEF Surjection
  <2> QED BY <2>1, RefsFinite, FS_Surjection
<1>2. n \in Nat /\ ExistsBijection(1..n, S)
  BY <1>1, FS_CardinalityType
<1>3. c \in [1..n -> S] /\ IsInjective(c)
  <2>1. \E f \in [1..n -> S] : IsInjective(f)
    BY <1>2 DEF ExistsBijection, Bijection, Injection
  <2>2. c = CHOOSE f \in [1..n -> S] : IsInjective(f)
    BY DEF Commanded, SetToSeq
  <2> QED BY <2>1, <2>2
<1> HIDE DEF c
<1>4. c \in Surjection(1..n, S)
  <2>1. c \in Injection(1..n, S)
    BY <1>3 DEF Injection
  <2>2. Cardinality(1..n) = n
    BY <1>2, FS_Interval
  <2> QED BY <1>1, <2>1, <2>2, FS_Injection
<1>5. S \subseteq Commands
  <2> SUFFICES ASSUME NEW ref \in refs PROVE Cmd(ref) \in Commands
    OBVIOUS
  <2>1. ref \in Refs
    OBVIOUS
  <2> QED BY <2>1 DEF Commands
<1>6. DOMAIN c = 1..n /\ \A i \in 1..n : c[i] \in S
  BY <1>3
<1>7. c \in Seq(Commands)
  <2>1. c \in [1..n -> Commands]
    BY <1>3, <1>5
  <2> HIDE DEF n
  <2> QED BY <1>2, <2>1
<1>8. ASSUME NEW i \in DOMAIN c
      PROVE  \E ref \in refs : c[i] = Cmd(ref)
  BY <1>6
<1>9. ASSUME NEW i \in DOMAIN c, NEW j \in DOMAIN c, c[i].ref = c[j].ref
      PROVE  i = j
  <2>1. PICK a \in refs : c[i] = Cmd(a)
    BY <1>8
  <2>2. PICK b \in refs : c[j] = Cmd(b)
    BY <1>8
  <2>3. a = b
    BY <1>9, <2>1, <2>2
  <2>4. c[i] = c[j]
    BY <2>1, <2>2, <2>3
  <2> QED BY <1>3, <2>4 DEF IsInjective
<1>10. ASSUME NEW ref \in refs PROVE \E i \in DOMAIN c : c[i].ref = ref
  <2>1. Cmd(ref) \in S
    OBVIOUS
  <2>2. Cmd(ref).ref = ref
    OBVIOUS
  <2> HIDE DEF S, n, Cmd
  <2>3. PICK i \in 1..n : c[i] = Cmd(ref)
    BY <1>4, <2>1 DEF Surjection
  <2> QED BY <1>6, <2>2, <2>3
<1>11. \A i \in DOMAIN c : /\ c[i].kind = kind /\ ~ c[i].dead
                            /\ c[i].ref \in refs
  BY <1>8
<1> HIDE DEF S
<1> QED BY <1>7, <1>9, <1>10, <1>11 DEF OneEach, c

(* The commands of two sequences, one after the other. *)
LEMMA ConcatFacts ==
    ASSUME NEW s \in Seq(Commands), NEW t \in Seq(Commands)
    PROVE  /\ s \o t \in Seq(Commands)
           /\ Len(s) \in Nat /\ Len(t) \in Nat
           /\ DOMAIN s = 1..Len(s) /\ DOMAIN t = 1..Len(t)
           /\ DOMAIN (s \o t) = 1..(Len(s) + Len(t))
           /\ \A i \in DOMAIN s : (s \o t)[i] = s[i]
           /\ \A i \in DOMAIN t : (s \o t)[Len(s) + i] = t[i]
           /\ \A i \in DOMAIN (s \o t) :
                 \/ i \in DOMAIN s
                 \/ i - Len(s) \in DOMAIN t /\ (s \o t)[i] = t[i - Len(s)]
OBVIOUS

(* Commands of that kind follow those of s. *)
Followed(w, s, kind) ==
    /\ \A i \in DOMAIN s : i \in DOMAIN w /\ w[i].kind = s[i].kind
    /\ \A i \in DOMAIN w \ DOMAIN s : /\ w[i].kind = kind
                                       /\ \A j \in DOMAIN s : j < i

(* w is s with commands of that kind added. *)
Extended(w, s, kind, refs) ==
    /\ w \in Seq(Commands) /\ Followed(w, s, kind)
    /\ refs = {} => w = s
    /\ LiveSets(w) = LiveSets(s) \cup (IF kind = "set" THEN refs ELSE {})
    /\ Removals(w) = Removals(s) \cup (IF kind = "remove" THEN refs ELSE {})
    /\ Doomed(w) = Doomed(s) \cup (IF kind = "remove" THEN refs ELSE {})
    /\ Lost(w) = Lost(s)
    /\ SetOnce(s) /\ (kind = "set" => refs \cap LiveSets(s) = {})
          => SetOnce(w)

LEMMA CommandsSent ==
    ASSUME NEW s \in Seq(Commands),
           NEW kind \in {"set", "remove"}, NEW refs \in SUBSET Refs
    PROVE  Extended(s \o Commanded(kind, refs), s, kind, refs)
<1> DEFINE c == Commanded(kind, refs)
           w == s \o c
<1>0. OneEach(c, kind, refs)
  BY CommandedFacts
<1> HIDE DEF c
<1>1. /\ c \in Seq(Commands)
      /\ \A i \in DOMAIN c : /\ c[i].kind = kind /\ ~ c[i].dead
                             /\ c[i].ref \in refs
      /\ \A i, j \in DOMAIN c : c[i].ref = c[j].ref => i = j
      /\ \A ref \in refs : \E i \in DOMAIN c : c[i].ref = ref
  BY <1>0 DEF OneEach
<1>2. w = s \o c
  OBVIOUS
<1> HIDE DEF w
<1>3. /\ w \in Seq(Commands)
      /\ Len(s) \in Nat /\ Len(c) \in Nat
      /\ DOMAIN s = 1..Len(s) /\ DOMAIN c = 1..Len(c)
      /\ DOMAIN w = 1..(Len(s) + Len(c))
      /\ \A i \in DOMAIN s : w[i] = s[i]
      /\ \A i \in DOMAIN c : w[Len(s) + i] = c[i]
      /\ \A i \in DOMAIN w :
            \/ i \in DOMAIN s
            \/ i - Len(s) \in DOMAIN c /\ w[i] = c[i - Len(s)]
  BY <1>1, <1>2, ConcatFacts
<1>4. \A i \in DOMAIN s : i \in DOMAIN w
  BY <1>3
<1>5. \A i \in DOMAIN c : Len(s) + i \in DOMAIN w
  BY <1>3
<1>6. LiveSets(w) = LiveSets(s) \cup (IF kind = "set" THEN refs ELSE {})
  <2>1. ASSUME NEW ref \in LiveSets(w)
        PROVE  ref \in LiveSets(s) \/ (kind = "set" /\ ref \in refs)
    BY <1>1, <1>3 DEF LiveSets
  <2>2. ASSUME NEW ref \in LiveSets(s) PROVE ref \in LiveSets(w)
    BY <1>3, <1>4 DEF LiveSets
  <2>3. ASSUME kind = "set", NEW ref \in refs PROVE ref \in LiveSets(w)
    <3>1. PICK i \in DOMAIN c : c[i].ref = ref
      BY <1>1, <2>3
    <3>2. /\ Len(s) + i \in DOMAIN w /\ w[Len(s) + i].kind = "set"
          /\ ~ w[Len(s) + i].dead /\ w[Len(s) + i].ref = ref
      BY <1>1, <1>3, <1>5, <2>3, <3>1
    <3> QED BY <3>2 DEF LiveSets
  <2> QED BY <2>1, <2>2, <2>3
<1>7. Removals(w) = Removals(s) \cup (IF kind = "remove" THEN refs ELSE {})
  <2>1. ASSUME NEW ref \in Removals(w)
        PROVE  ref \in Removals(s) \/ (kind = "remove" /\ ref \in refs)
    BY <1>1, <1>3 DEF Removals
  <2>2. ASSUME NEW ref \in Removals(s) PROVE ref \in Removals(w)
    BY <1>3, <1>4 DEF Removals
  <2>3. ASSUME kind = "remove", NEW ref \in refs PROVE ref \in Removals(w)
    <3>1. PICK i \in DOMAIN c : c[i].ref = ref
      BY <1>1, <2>3
    <3>2. /\ Len(s) + i \in DOMAIN w /\ w[Len(s) + i].kind = "remove"
          /\ w[Len(s) + i].ref = ref
      BY <1>1, <1>3, <1>5, <2>3, <3>1
    <3> QED BY <3>2 DEF Removals
  <2> QED BY <2>1, <2>2, <2>3
<1>a. Doomed(w) = Doomed(s) \cup (IF kind = "remove" THEN refs ELSE {})
  <2>1. ASSUME NEW ref \in Doomed(w)
        PROVE  ref \in Doomed(s) \/ (kind = "remove" /\ ref \in refs)
    BY <1>1, <1>3 DEF Doomed
  <2>2. ASSUME NEW ref \in Doomed(s) PROVE ref \in Doomed(w)
    BY <1>3, <1>4 DEF Doomed
  <2>3. Removals(w) \subseteq Doomed(w)
    BY DEF Removals, Doomed
  <2> QED BY <1>7, <2>1, <2>2, <2>3
<1>b. Followed(w, s, kind)
  BY <1>1, <1>3, <1>4 DEF Followed
<1>d. Lost(w) = Lost(s)
  <2>1. ASSUME NEW ref \in Lost(w) PROVE ref \in Lost(s)
    <3>1. PICK i \in DOMAIN w : w[i].kind = "lost" /\ w[i].ref = ref
      BY DEF Lost
    <3>2. i \in DOMAIN s
      BY <1>1, <1>3, <3>1
    <3> QED BY <1>3, <3>1, <3>2 DEF Lost
  <2>2. ASSUME NEW ref \in Lost(s) PROVE ref \in Lost(w)
    BY <1>3, <1>4 DEF Lost
  <2> QED BY <2>1, <2>2
<1>c. refs = {} => w = s
  <2> SUFFICES ASSUME refs = {} PROVE w = s
    OBVIOUS
  <2>1. DOMAIN c = {}
    BY <1>1
  <2>2. c = << >>
    BY <1>1, <2>1
  <2> QED BY <1>2, <2>2
<1>8. ASSUME SetOnce(s), kind = "set" => refs \cap LiveSets(s) = {}
      PROVE  SetOnce(w)
  <2> SUFFICES ASSUME NEW i \in DOMAIN w, NEW j \in DOMAIN w,
                      w[i].kind = "set", ~ w[i].dead,
                      w[j].kind = "set", ~ w[j].dead, w[i].ref = w[j].ref
               PROVE  i = j
    BY DEF SetOnce
  <2>1. CASE i \in DOMAIN s /\ j \in DOMAIN s
    BY <1>3, <1>8, <2>1 DEF SetOnce
  <2>2. ASSUME NEW k \in DOMAIN s, NEW m \in DOMAIN w \ DOMAIN s,
               w[k].kind = "set", ~ w[k].dead, w[m].kind = "set",
               w[k].ref = w[m].ref
        PROVE  FALSE
    <3>1. w[k].ref \in LiveSets(s)
      BY <1>3, <2>2 DEF LiveSets
    <3>2. m - Len(s) \in DOMAIN c /\ w[m] = c[m - Len(s)]
      BY <1>3
    <3>3. kind = "set" /\ w[m].ref \in refs
      BY <1>1, <2>2, <3>2
    <3> QED BY <1>8, <2>2, <3>1, <3>3
  <2>3. CASE i \notin DOMAIN s /\ j \notin DOMAIN s
    <3>1. /\ i - Len(s) \in DOMAIN c /\ w[i] = c[i - Len(s)]
          /\ j - Len(s) \in DOMAIN c /\ w[j] = c[j - Len(s)]
      BY <1>3, <2>3
    <3>2. i - Len(s) = j - Len(s)
      BY <1>1, <3>1
    <3> QED BY <1>3, <3>2
  <2> QED BY <2>1, <2>2, <2>3
<1>9. Extended(w, s, kind, refs)
  BY <1>3, <1>6, <1>7, <1>8, <1>a, <1>b, <1>c, <1>d DEF Extended
<1> QED BY <1>2, <1>9 DEF c

(* removeCdpBreakpoint(): w is s with the references removed. *)
Reduced(w, s, refs) ==
    /\ w \in Seq(Commands) /\ Followed(w, s, "remove")
    /\ refs = {} => w = s
    /\ Doomed(w) \subseteq Doomed(s) \cup refs
    /\ LiveSets(w) = LiveSets(s) \ (refs \cap pending)
    /\ Removals(w) = Removals(s) \cup (refs \cap applied)
    /\ Lost(w) = Lost(s)
    /\ SetOnce(s) => SetOnce(w)

LEMMA ReferencesRemoved ==
    ASSUME NEW s \in Seq(Commands), NEW refs \in SUBSET Refs
    PROVE  Reduced(Removed(refs, s), s, refs)
<1> DEFINE w == Removed(refs, s)
           d == [i \in DOMAIN s |->
                    IF s[i].kind = "set" /\ s[i].ref \in refs \cap pending
                    THEN [s[i] EXCEPT !.dead = TRUE] ELSE s[i]]
<1>1. w = d \o Commanded("remove", refs \cap applied)
  BY DEF Removed
<1>2. /\ DOMAIN d = DOMAIN s
      /\ \A i \in DOMAIN s :
            /\ d[i].kind = s[i].kind /\ d[i].ref = s[i].ref
            /\ d[i].dead = (s[i].dead \/ (/\ s[i].kind = "set"
                                          /\ s[i].ref \in refs \cap pending))
            /\ d[i] \in Commands
  <2> SUFFICES ASSUME NEW i \in DOMAIN s
               PROVE  /\ d[i].kind = s[i].kind /\ d[i].ref = s[i].ref
                      /\ d[i].dead = (s[i].dead \/
                            (/\ s[i].kind = "set"
                             /\ s[i].ref \in refs \cap pending))
                      /\ d[i] \in Commands
    OBVIOUS
  <2>1. s[i] \in Commands
    OBVIOUS
  <2>2. CASE s[i] = ProfilerCommand
    <3>1. s[i].kind = "profile" /\ s[i].dead = FALSE
      BY <2>2 DEF ProfilerCommand
    <3>2. d[i] = s[i]
      BY <3>1
    <3> HIDE DEF d
    <3> QED BY <2>1, <3>1, <3>2
  <2>3. CASE s[i] \in [kind : {"set", "lost", "remove"}, ref : Refs,
                        dead : BOOLEAN]
    BY <2>3 DEF Commands
  <2> QED BY <2>1, <2>2, <2>3 DEF Commands
<1>3. d \in Seq(Commands)
  <2>1. DOMAIN s = 1..Len(s) /\ Len(s) \in Nat
    OBVIOUS
  <2>2. d \in [1..Len(s) -> Commands]
    BY <1>2, <2>1
  <2> QED BY <2>1, <2>2
<1>d. refs = {} => d = s
  OBVIOUS
<1> HIDE DEF d
<1>4. LiveSets(d) = LiveSets(s) \ (refs \cap pending)
  <2>1. ASSUME NEW ref \in LiveSets(d)
        PROVE  ref \in LiveSets(s) \ (refs \cap pending)
    BY <1>2 DEF LiveSets
  <2>2. ASSUME NEW ref \in LiveSets(s) \ (refs \cap pending)
        PROVE  ref \in LiveSets(d)
    BY <1>2 DEF LiveSets
  <2> QED BY <2>1, <2>2
<1>5. Removals(d) = Removals(s)
  BY <1>2 DEF Removals
<1>6. SetOnce(s) => SetOnce(d)
  BY <1>2 DEF SetOnce
<1>e. Lost(d) = Lost(s)
  BY <1>2 DEF Lost
<1>7. Extended(w, d, "remove", refs \cap applied)
  <2>1. refs \cap applied \in SUBSET Refs
    OBVIOUS
  <2> QED BY <1>1, <1>3, <2>1, CommandsSent
<1> HIDE DEF w
<1>a. Doomed(d) \subseteq Doomed(s) \cup refs
  <2> SUFFICES ASSUME NEW i \in DOMAIN d,
                      d[i].kind = "remove" \/ d[i].dead
               PROVE  d[i].ref \in Doomed(s) \cup refs
    BY DEF Doomed
  <2>1. s[i].kind = "remove" \/ s[i].dead \/ s[i].ref \in refs
    BY <1>2
  <2> QED BY <1>2, <2>1 DEF Doomed
<1>b. Followed(w, s, "remove")
  BY <1>2, <1>7 DEF Extended, Followed
<1>c. refs = {} => w = s
  <2> SUFFICES ASSUME refs = {} PROVE w = s
    OBVIOUS
  <2>1. w = d
    BY <1>7 DEF Extended
  <2>2. d = s
    BY <1>d
  <2> QED BY <2>1, <2>2
<1>8. Reduced(w, s, refs)
  BY <1>4, <1>5, <1>6, <1>7, <1>a, <1>b, <1>c, <1>e DEF Extended, Reduced
<1> QED BY <1>8 DEF w

(* Of s, the command h is answered, and t is left. *)
Shortened(t, h, s) ==
    /\ t \in Seq(Commands) /\ h \in Commands
    /\ 1 \in DOMAIN s /\ h = s[1] /\ Len(s) = Len(t) + 1
    /\ \A i \in DOMAIN t : i + 1 \in DOMAIN s /\ t[i] = s[i + 1]
    /\ LiveSets(s) = LiveSets(t) \cup
          (IF h.kind = "set" /\ ~ h.dead THEN {h.ref} ELSE {})
    /\ Removals(s) = Removals(t) \cup
          (IF h.kind = "remove" THEN {h.ref} ELSE {})
    /\ Doomed(s) = Doomed(t) \cup
          (IF h.kind = "remove" \/ h.dead THEN {h.ref} ELSE {})
    /\ Lost(s) = Lost(t) \cup (IF h.kind = "lost" THEN {h.ref} ELSE {})
    /\ SetOnce(s) =>
          /\ SetOnce(t)
          /\ h.kind = "set" /\ ~ h.dead => h.ref \notin LiveSets(t)

LEMMA CommandAnswered ==
    ASSUME NEW s \in Seq(Commands), s # << >>
    PROVE  Shortened(Tail(s), Head(s), s)
<1>1. /\ Tail(s) \in Seq(Commands) /\ Head(s) \in Commands
      /\ Len(s) \in Nat \ {0} /\ Len(Tail(s)) = Len(s) - 1
      /\ DOMAIN s = 1..Len(s) /\ DOMAIN Tail(s) = 1..(Len(s) - 1)
      /\ Head(s) = s[1]
      /\ \A i \in 1..(Len(s) - 1) : Tail(s)[i] = s[i + 1]
  OBVIOUS
<1> DEFINE t == Tail(s)
           h == Head(s)
<1> HIDE DEF t, h
<1>2. /\ DOMAIN s = 1..Len(s) /\ DOMAIN t = 1..(Len(s) - 1)
      /\ Len(s) \in Nat \ {0} /\ h = s[1]
      /\ \A i \in DOMAIN t : i + 1 \in DOMAIN s /\ t[i] = s[i + 1]
      /\ \A i \in DOMAIN s : i = 1 \/ (i - 1 \in DOMAIN t
                                       /\ s[i] = t[i - 1])
      /\ 1 \in DOMAIN s
  BY <1>1 DEF t, h
<1>3. LiveSets(s) = LiveSets(t) \cup
         (IF h.kind = "set" /\ ~ h.dead THEN {h.ref} ELSE {})
  <2>1. ASSUME NEW ref \in LiveSets(s)
        PROVE  \/ ref \in LiveSets(t)
               \/ h.kind = "set" /\ ~ h.dead /\ ref = h.ref
    BY <1>2 DEF LiveSets
  <2>2. ASSUME NEW ref \in LiveSets(t) PROVE ref \in LiveSets(s)
    BY <1>2 DEF LiveSets
  <2>3. ASSUME h.kind = "set" /\ ~ h.dead PROVE h.ref \in LiveSets(s)
    BY <1>2, <2>3 DEF LiveSets
  <2> QED BY <2>1, <2>2, <2>3
<1>4. Removals(s) = Removals(t) \cup
         (IF h.kind = "remove" THEN {h.ref} ELSE {})
  <2>1. ASSUME NEW ref \in Removals(s)
        PROVE  ref \in Removals(t) \/ (h.kind = "remove" /\ ref = h.ref)
    BY <1>2 DEF Removals
  <2>2. ASSUME NEW ref \in Removals(t) PROVE ref \in Removals(s)
    BY <1>2 DEF Removals
  <2>3. ASSUME h.kind = "remove" PROVE h.ref \in Removals(s)
    BY <1>2, <2>3 DEF Removals
  <2> QED BY <2>1, <2>2, <2>3
<1>a. Doomed(s) = Doomed(t) \cup
         (IF h.kind = "remove" \/ h.dead THEN {h.ref} ELSE {})
  <2>1. ASSUME NEW ref \in Doomed(s)
        PROVE  \/ ref \in Doomed(t)
               \/ (h.kind = "remove" \/ h.dead) /\ ref = h.ref
    <3>1. PICK i \in DOMAIN s : /\ s[i].ref = ref
                                /\ s[i].kind = "remove" \/ s[i].dead
      BY DEF Doomed
    <3>2. CASE i = 1
      <4>1. s[i] = h
        BY <1>2, <3>2
      <4> QED BY <3>1, <4>1
    <3>3. CASE i - 1 \in DOMAIN t /\ s[i] = t[i - 1]
      BY <3>1, <3>3 DEF Doomed
    <3> QED BY <1>2, <3>2, <3>3
  <2>2. ASSUME NEW ref \in Doomed(t) PROVE ref \in Doomed(s)
    BY <1>2 DEF Doomed
  <2>3. ASSUME h.kind = "remove" \/ h.dead
        PROVE  h.ref \in Doomed(s)
    BY <1>2, <2>3 DEF Doomed
  <2> QED BY <2>1, <2>2, <2>3
<1>c. Lost(s) = Lost(t) \cup (IF h.kind = "lost" THEN {h.ref} ELSE {})
  <2>1. ASSUME NEW ref \in Lost(s)
        PROVE  ref \in Lost(t) \/ (h.kind = "lost" /\ ref = h.ref)
    BY <1>2 DEF Lost
  <2>2. ASSUME NEW ref \in Lost(t) PROVE ref \in Lost(s)
    BY <1>2 DEF Lost
  <2>3. ASSUME h.kind = "lost" PROVE h.ref \in Lost(s)
    BY <1>2, <2>3 DEF Lost
  <2> QED BY <2>1, <2>2, <2>3
<1>5. ASSUME SetOnce(s)
      PROVE  /\ SetOnce(t)
             /\ h.kind = "set" /\ ~ h.dead => h.ref \notin LiveSets(t)
  <2>1. SetOnce(t)
    <3> SUFFICES ASSUME NEW i \in DOMAIN t, NEW j \in DOMAIN t,
                        t[i].kind = "set", ~ t[i].dead,
                        t[j].kind = "set", ~ t[j].dead, t[i].ref = t[j].ref
                 PROVE  i = j
      BY DEF SetOnce
    <3>1. i + 1 = j + 1
      BY <1>2, <1>5 DEF SetOnce
    <3> QED BY <1>2, <3>1
  <2>2. ASSUME h.kind = "set", ~ h.dead, h.ref \in LiveSets(t) PROVE FALSE
    <3>1. PICK i \in DOMAIN t : /\ t[i].kind = "set" /\ ~ t[i].dead
                                /\ t[i].ref = h.ref
      BY <2>2 DEF LiveSets
    <3>2. i + 1 = 1
      BY <1>2, <1>5, <2>2, <3>1 DEF SetOnce
    <3> QED BY <1>2, <3>2
  <2> QED BY <2>1, <2>2
<1>6. t \in Seq(Commands) /\ h \in Commands
  BY <1>1 DEF t, h
<1>b. Len(s) = Len(t) + 1
  BY <1>1 DEF t
<1>7. Shortened(t, h, s)
  BY <1>2, <1>3, <1>4, <1>5, <1>6, <1>a, <1>b, <1>c DEF Shortened
<1> QED BY <1>7 DEF t, h

(* Of s, the commands whose references are set by the id of a script are   *)
(* lost.                                                                   *)
Forsaken(w, s) ==
    /\ w \in Seq(Commands) /\ DOMAIN w = DOMAIN s
    /\ \A i \in DOMAIN s :
          /\ \/ w[i].kind = s[i].kind
             \/ w[i].kind = "lost" /\ s[i].kind = "set"
          /\ w[i].ref = s[i].ref
    /\ LiveSets(s) = {} => w = s
    /\ LiveSets(w) = {ref \in LiveSets(s) : ref[2] \notin Scripts}
    /\ Lost(w) = Lost(s) \cup {ref \in LiveSets(s) : ref[2] \in Scripts}
    /\ Removals(w) = Removals(s) /\ Doomed(w) = Doomed(s)
    /\ SetOnce(s) => SetOnce(w)

LEMMA ReferencesDropped ==
    ASSUME NEW s \in Seq(Commands)
    PROVE  Forsaken(Dropped(s), s)
<1> DEFINE w == Dropped(s)
           Drop(i) == /\ s[i].kind = "set" /\ ~ s[i].dead
                      /\ s[i].ref[2] \in Scripts
<1>1. /\ DOMAIN w = DOMAIN s
      /\ \A i \in DOMAIN s :
            w[i] = IF Drop(i) THEN [s[i] EXCEPT !.kind = "lost"] ELSE s[i]
  BY DEF Dropped
<1> HIDE DEF w
<1>2. ASSUME NEW i \in DOMAIN s
      PROVE  /\ w[i].kind = IF Drop(i) THEN "lost" ELSE s[i].kind
             /\ w[i].ref = s[i].ref /\ w[i].dead = s[i].dead
             /\ w[i] \in Commands
  <2>1. s[i] \in Commands
    OBVIOUS
  <2>2. CASE ~ Drop(i)
    <3>1. w[i] = s[i]
      BY <1>1, <2>2
    <3> QED BY <2>1, <2>2, <3>1
  <2>3. CASE Drop(i)
    <3>1. w[i] = [s[i] EXCEPT !.kind = "lost"]
      BY <1>1, <2>3
    <3>2. s[i] \in [kind : {"set", "lost", "remove"}, ref : Refs,
                    dead : BOOLEAN]
      BY <2>1, <2>3 DEF Commands, ProfilerCommand
    <3> QED BY <2>3, <3>1, <3>2 DEF Commands
  <2> QED BY <2>2, <2>3
<1>3. w \in Seq(Commands)
  <2>1. DOMAIN s = 1..Len(s) /\ Len(s) \in Nat
    OBVIOUS
  <2>2. w = Dropped(s)
    BY DEF w
  <2>3. w = [i \in 1..Len(s) |-> w[i]]
    BY <2>1, <2>2 DEF Dropped
  <2> QED BY <1>1, <1>2, <2>1, <2>3
<1>4. LiveSets(s) = {} => w = s
  <2> SUFFICES ASSUME LiveSets(s) = {} PROVE w = s
    OBVIOUS
  <2>1. \A i \in DOMAIN s : ~ Drop(i)
    BY DEF LiveSets
  <2>2. \A i \in DOMAIN s : w[i] = s[i]
    BY <1>1, <2>1
  <2> QED BY <1>1, <1>3, <2>2
<1>5. LiveSets(w) = {ref \in LiveSets(s) : ref[2] \notin Scripts}
  BY <1>1, <1>2 DEF LiveSets
<1>6. Lost(w) = Lost(s) \cup {ref \in LiveSets(s) : ref[2] \in Scripts}
  <2>1. ASSUME NEW ref \in Lost(w)
        PROVE  \/ ref \in Lost(s)
               \/ ref \in LiveSets(s) /\ ref[2] \in Scripts
    BY <1>1, <1>2 DEF Lost, LiveSets
  <2>2. ASSUME NEW ref \in Lost(s) PROVE ref \in Lost(w)
    BY <1>1, <1>2 DEF Lost
  <2>3. ASSUME NEW ref \in LiveSets(s), ref[2] \in Scripts
        PROVE  ref \in Lost(w)
    BY <1>1, <1>2, <2>3 DEF Lost, LiveSets
  <2> QED BY <2>1, <2>2, <2>3
<1>7. Removals(w) = Removals(s)
  BY <1>1, <1>2 DEF Removals
<1>8. Doomed(w) = Doomed(s)
  BY <1>1, <1>2 DEF Doomed
<1>9. SetOnce(s) => SetOnce(w)
  BY <1>1, <1>2 DEF SetOnce
<1> HIDE DEF Drop
<1>10. \A i \in DOMAIN s :
          /\ \/ w[i].kind = s[i].kind
             \/ w[i].kind = "lost" /\ s[i].kind = "set"
          /\ w[i].ref = s[i].ref
  <2> SUFFICES ASSUME NEW i \in DOMAIN s
               PROVE  /\ \/ w[i].kind = s[i].kind
                         \/ w[i].kind = "lost" /\ s[i].kind = "set"
                      /\ w[i].ref = s[i].ref
    OBVIOUS
  <2>1. /\ w[i].kind = IF Drop(i) THEN "lost" ELSE s[i].kind
        /\ w[i].ref = s[i].ref
    BY <1>2
  <2>2. Drop(i) => s[i].kind = "set"
    BY DEF Drop
  <2> QED BY <2>1, <2>2
<1>11. Forsaken(w, s)
  BY <1>1, <1>3, <1>4, <1>5, <1>6, <1>7, <1>8, <1>9, <1>10 DEF Forsaken
<1> QED BY <1>11 DEF w

-----------------------------------------------------------------------------
(* What leaves parts of the invariant alone.                               *)

LEMMA CardinalityAdded ==
    ASSUME NEW A, NEW B, IsFiniteSet(A), IsFiniteSet(B), A \cap B = {}
    PROVE  Cardinality(A \cup B) = Cardinality(A) + Cardinality(B)
<1>1. Cardinality(A \cap B) = 0
  BY FS_EmptySet
<1>2. Cardinality(A) \in Nat /\ Cardinality(B) \in Nat
  BY FS_CardinalityType
<1>3. Cardinality(A \cup B)
         = Cardinality(A) + Cardinality(B) - Cardinality(A \cap B)
  BY FS_Union
<1> QED BY <1>1, <1>2, <1>3

LEMMA CardinalityLess ==
    ASSUME NEW A, NEW B, IsFiniteSet(A), B \subseteq A
    PROVE  Cardinality(A \ B) = Cardinality(A) - Cardinality(B)
<1>1. A \cap B = B
  OBVIOUS
<1> QED BY <1>1, FS_Difference

(* Steps of other actors than a request. *)
LEMMA RequestsKept ==
    ASSUME IInv, UNCHANGED <<requestVars, managerVars>>,
           filter' = "none" => enabled' = {}
    PROVE  RequestsOK' /\ CountOK' /\ HandlerOK'
<1>1. RequestsOK'
  BY DEF IInv, RequestsOK, requestVars, managerVars
<1>2. CountOK'
  BY DEF IInv, CountOK, Coming, requestVars, managerVars
<1>3. HandlerOK'
  BY DEF IInv, HandlerOK, requestVars, managerVars
<1> QED BY <1>1, <1>2, <1>3

(* Steps that are not the profiler's. *)
LEMMA ProfilerKept ==
    ASSUME IInv, UNCHANGED <<filter, profile>>,
           \A i \in DOMAIN wire' : wire'[i].kind = "profile" =>
              i \in DOMAIN wire /\ wire[i].kind = "profile"
    PROVE  ProfilerOK'
BY DEF IInv, ProfilerOK

(* Steps that send nothing and get no answer. *)
LEMMA RefsKept ==
    ASSUME IInv, enabled \subseteq enabled',
           UNCHANGED <<pending, applied, wire, v8, scriptVars>>
    PROVE  RefsOK'
BY DEF IInv, RefsOK, LiveSets, Lost, Removals, SetOnce, scriptVars

(* enable() of breakpoints. *)
LEMMA EnableKeeps ==
    ASSUME IInv, NEW bs \in SUBSET byDapId, Enable(bs),
           UNCHANGED <<v8, scriptVars>>
    PROVE  /\ enabled' \subseteq byDapId
           /\ placing' \subseteq
                 Breakpoints \X (Scripts \cup {"path", "scripts"})
           /\ UNCHANGED <<pending, applied, wire>>
           /\ RefsOK'
<1>1. /\ enabled' \subseteq byDapId /\ enabled \subseteq enabled'
      /\ UNCHANGED <<pending, applied, wire>>
  BY DEF IInv, TypeOK, Enable
<1>2. placing' \subseteq Breakpoints \X (Scripts \cup {"path", "scripts"})
  BY DEF IInv, TypeOK, Enable
<1> QED BY <1>1, <1>2, RefsKept

(* disable() of breakpoints. *)
LEMMA DisableKeeps ==
    ASSUME IInv, NEW bs, Disable(bs), UNCHANGED <<v8, scriptVars>>
    PROVE  /\ enabled' = enabled \ bs
           /\ pending' \subseteq pending /\ applied' \subseteq applied
           /\ placing' = placing
           /\ Reduced(wire', wire, RefsOf(bs))
           /\ RefsOK'
<1>1. Reduced(wire', wire, RefsOf(bs))
  <2>1. RefsOf(bs) \in SUBSET Refs
    BY DEF IInv, TypeOK, RefsOf
  <2>2. wire' = Removed(RefsOf(bs), wire)
    BY DEF Disable
  <2> QED BY <2>1, <2>2, ReferencesRemoved DEF IInv
<1>2. /\ enabled' = enabled \ bs /\ placing' = placing
      /\ pending' = pending \ RefsOf(bs)
      /\ applied' = applied \ RefsOf(bs)
  BY DEF Disable
<1>3. RefsOK'
  BY <1>1, <1>2 DEF IInv, RefsOK, Reduced, RefsOf, scriptVars
<1> QED BY <1>1, <1>2, <1>3

-----------------------------------------------------------------------------
(* Requests.                                                               *)

LEMMA ReceiveKeeps ==
    ASSUME IInv, NEW r \in Requests, NEW src \in Sources,
           NEW lines \in SUBSET Lines, Receive(r, src, lines)
    PROVE  IInv'
<1>0. PICK to \in {"predict", "entry"} :
         /\ pc' = [pc EXCEPT ![r] = to]
         /\ queue' = IF to = "entry" THEN Append(queue, r) ELSE queue
  BY DEF Receive
<1>a. pc[r] = "idle" /\ handler' = (handler \/ lines # {})
  BY DEF Receive
<1>b. args' = [args EXCEPT ![r] = [src |-> src, lines |-> lines]]
  BY DEF Receive
<1>c. /\ queue' \in Seq(Requests)
      /\ \A i \in DOMAIN queue' :
            \/ i \in DOMAIN queue /\ queue'[i] = queue[i]
            \/ i = Len(queue) + 1 /\ queue'[i] = r /\ to = "entry"
  BY <1>0 DEF IInv, TypeOK
<1>1. TypeOK' /\ (wire \in Seq(Commands))'
  <2>1. rushed' \in BOOLEAN
    BY DEF IInv, TypeOK, Receive
  <2> QED BY <1>0, <1>a, <1>b, <1>c, <2>1
          DEF IInv, TypeOK, Receive, filterVars, refVars, scriptVars
<1>2. RequestsOK'
  <2>1. \A i \in DOMAIN queue' : pc'[queue'[i]] = "entry"
    BY <1>0, <1>a, <1>c DEF IInv, TypeOK, RequestsOK
  <2>2. \A i, j \in DOMAIN queue' : queue'[i] = queue'[j] => i = j
    BY <1>a, <1>c DEF IInv, TypeOK, RequestsOK
  <2>3. \A b \in byDapId' : pc'[b[1]] \in {"unbind", "enable", "done"}
    BY <1>0, <1>a DEF IInv, TypeOK, RequestsOK, Receive
  <2> QED BY <2>1, <2>2, <2>3
          DEF IInv, RequestsOK, Receive, filterVars, refVars
<1>3. CountOK'
  <2>1. Coming' = Coming
    BY <1>0, <1>a DEF IInv, TypeOK, Coming, Receive
  <2> QED BY <2>1 DEF IInv, CountOK, Receive
<1>4. HandlerOK'
  <2>1. \A q \in Requests : q # r => pc'[q] = pc[q] /\ args'[q] = args[q]
    BY <1>0, <1>b DEF IInv, TypeOK
  <2>2. pc'[r] \in {"predict", "entry"} /\ args'[r].lines = lines
    BY <1>0, <1>b DEF IInv, TypeOK
  <2>3. byDapId' = byDapId
    BY DEF Receive
  <2> QED BY <1>a, <2>1, <2>2, <2>3 DEF IInv, HandlerOK
<1>5. RefsOK'
  BY RefsKept DEF Receive, refVars
<1>6. ProfilerOK'
  BY ProfilerKept DEF Receive, filterVars, refVars
<1> QED BY <1>1, <1>2, <1>3, <1>4, <1>5, <1>6 DEF IInv

LEMMA PredictedKeeps ==
    ASSUME IInv, NEW r \in Requests, Predicted(r)
    PROVE  IInv'
<1>1. TypeOK' /\ (wire \in Seq(Commands))'
  BY DEF IInv, TypeOK, Predicted, filterVars, managerVars, refVars, scriptVars
<1>2. RequestsOK'
  BY DEF IInv, TypeOK, RequestsOK, Predicted, filterVars, managerVars, refVars
<1>3. CountOK'
  <2>1. Coming' = Coming
    BY DEF IInv, TypeOK, Coming, Predicted
  <2> QED BY <2>1 DEF IInv, CountOK, Predicted, managerVars
<1>4. HandlerOK'
  BY DEF IInv, TypeOK, HandlerOK, Predicted, managerVars
<1>5. RefsOK'
  BY RefsKept DEF Predicted, refVars
<1>6. ProfilerOK'
  BY ProfilerKept DEF Predicted, filterVars, refVars
<1> QED BY <1>1, <1>2, <1>3, <1>4, <1>5, <1>6 DEF IInv

(* Merge() counts what it removes; what it adds is still to be counted.    *)
LEMMA MergeKeeps ==
    ASSUME IInv, NEW r \in Requests, Merge(r)
    PROVE  IInv'
<1> DEFINE src == args[r].src
           kept == {b \in byPath[src] : LineOf(b) \in args[r].lines}
           unbound == byPath[src] \ kept
           new == {<<r, l>> : l \in args[r].lines \ {LineOf(b) : b \in kept}}
<1>1. /\ ready /\ queue # << >> /\ r = Head(queue)
      /\ queue' = Tail(queue)
      /\ byPath' = [byPath EXCEPT ![src] = kept \cup new]
      /\ byDapId' = (byDapId \ unbound) \cup new
      /\ news' = [news EXCEPT ![r] = new]
      /\ total' = total - Cardinality(unbound)
      /\ unbindWait' = [unbindWait EXCEPT ![r] = RefsOf(unbound)]
      /\ Disable(unbound)
      /\ pc' = [pc EXCEPT ![r] = IF unbound = {} /\ new = {} THEN "done"
                                 ELSE "unbind"]
      /\ UNCHANGED <<ready, filterVars, args, enableWait, handler, rushed,
                     v8, scriptVars>>
  BY DEF Merge
<1>2. src \in Sources /\ kept \subseteq byPath[src]
  BY DEF IInv, TypeOK
<1>3. /\ new \subseteq Breakpoints
      /\ \A b \in new : b[1] = r
  BY DEF IInv, TypeOK, Breakpoints
<1>4. unbound \subseteq byDapId /\ kept \subseteq byDapId
  BY <1>2 DEF IInv, RequestsOK
<1>5. /\ queue \in Seq(Requests) /\ queue' \in Seq(Requests)
      /\ pc[r] = "entry"
      /\ \A i \in DOMAIN queue' : /\ i + 1 \in DOMAIN queue
                                  /\ queue'[i] = queue[i + 1]
                                  /\ queue'[i] # r
      /\ \A i, j \in DOMAIN queue' : queue'[i] = queue'[j] => i = j
  <2>1. /\ queue \in Seq(Requests) /\ queue # << >>
        /\ \A i, j \in DOMAIN queue : queue[i] = queue[j] => i = j
        /\ \A i \in DOMAIN queue : pc[queue[i]] = "entry"
    BY <1>1 DEF IInv, TypeOK, RequestsOK
  <2>2. /\ Len(queue) \in Nat \ {0} /\ DOMAIN queue = 1..Len(queue)
        /\ queue' \in Seq(Requests)
        /\ DOMAIN queue' = 1..(Len(queue) - 1)
        /\ \A i \in 1..(Len(queue) - 1) : queue'[i] = queue[i + 1]
        /\ r = queue[1]
    BY <1>1, <2>1
  <2>3. ASSUME NEW i \in DOMAIN queue'
        PROVE  /\ i + 1 \in DOMAIN queue /\ queue'[i] = queue[i + 1]
               /\ queue'[i] # r
    BY <2>1, <2>2
  <2>4. ASSUME NEW i \in DOMAIN queue', NEW j \in DOMAIN queue',
               queue'[i] = queue'[j]
        PROVE  i = j
    <3>1. i + 1 = j + 1
      BY <2>1, <2>3, <2>4
    <3> QED BY <2>2, <3>1
  <2> QED BY <2>1, <2>2, <2>3, <2>4
<1>6. new \cap byDapId = {}
  BY <1>3, <1>5 DEF IInv, RequestsOK
<1>7. /\ enabled' = enabled \ unbound
      /\ pending' \subseteq pending /\ applied' \subseteq applied
      /\ placing' = placing
      /\ wire' \in Seq(Commands) /\ Followed(wire', wire, "remove")
      /\ RefsOK'
  BY <1>1, DisableKeeps DEF Reduced
<1>8. RefsOf(unbound) \subseteq Refs
  BY DEF IInv, TypeOK, RefsOf
<1> HIDE DEF kept, new, unbound
<1>9. TypeOK'
  <2>1. /\ \A i \in DOMAIN wire' : wire'[i] \in Commands
        /\ pending' \subseteq Refs /\ applied' \subseteq Refs
        /\ pending' \cap applied' = {}
    BY <1>7 DEF IInv, TypeOK
  <2>2. total' \in Int
    <3>1. Cardinality(unbound) \in Nat
      BY <1>4, RefsFinite, FS_Subset, FS_CardinalityType DEF IInv, TypeOK
    <3> QED BY <1>1, <3>1 DEF IInv, TypeOK
  <2>3. /\ byPath' \in [Sources -> SUBSET Breakpoints]
        /\ byDapId' \subseteq Breakpoints /\ enabled' \subseteq byDapId'
        /\ news' \in [Requests -> SUBSET Breakpoints]
        /\ unbindWait' \in [Requests -> SUBSET Refs]
        /\ pc' \in [Requests -> {"idle", "predict", "entry", "unbind",
                                 "enable", "done"}]
    BY <1>1, <1>2, <1>3, <1>4, <1>7, <1>8 DEF IInv, TypeOK
  <2> QED BY <1>1, <1>5, <1>7, <2>1, <2>2, <2>3
          DEF IInv, TypeOK, filterVars, scriptVars
<1>10. RequestsOK'
  <2>1. /\ \A i \in DOMAIN queue' : pc'[queue'[i]] = "entry"
        /\ \A i, j \in DOMAIN queue' : queue'[i] = queue'[j] => i = j
    BY <1>1, <1>5 DEF IInv, TypeOK, RequestsOK
  <2>2. \A q \in Requests : \A b \in news'[q] : b[1] = q
    BY <1>1, <1>3 DEF IInv, TypeOK, RequestsOK
  <2>3. \A b \in byDapId' : pc'[b[1]] \in {"unbind", "enable", "done"}
    BY <1>1, <1>3 DEF IInv, TypeOK, RequestsOK
  <2>4. \A s \in Sources : byPath'[s] \subseteq byDapId'
    BY <1>1, <1>2, <1>4 DEF IInv, TypeOK, RequestsOK, unbound
  <2>5. \A s, t \in Sources : s # t => byPath'[s] \cap byPath'[t] = {}
    BY <1>1, <1>2, <1>6 DEF IInv, TypeOK, RequestsOK
  <2>6. filter' = "none" => enabled' = {}
    BY <1>1, <1>7 DEF IInv, RequestsOK, filterVars
  <2> QED BY <2>1, <2>2, <2>3, <2>4, <2>5, <2>6 DEF RequestsOK
<1>11. CountOK'
  <2>1. Coming' = Coming \cup new /\ Coming \cap new = {}
    BY <1>1, <1>3, <1>5 DEF IInv, TypeOK, Coming, Breakpoints
  <2>2. /\ IsFiniteSet(Coming) /\ IsFiniteSet(new) /\ IsFiniteSet(unbound)
        /\ IsFiniteSet(byDapId) /\ IsFiniteSet(byDapId \ unbound)
    BY <1>3, <1>4, RefsFinite, FS_Subset DEF IInv, TypeOK, Coming
  <2>3. Cardinality(Coming') = Cardinality(Coming) + Cardinality(new)
    BY <2>1, <2>2, CardinalityAdded
  <2>4. (byDapId \ unbound) \cap new = {}
    BY <1>6
  <2>5. Cardinality(byDapId \ unbound)
           = Cardinality(byDapId) - Cardinality(unbound)
    BY <1>4, <2>2, CardinalityLess
  <2>6. Cardinality(byDapId')
           = Cardinality(byDapId \ unbound) + Cardinality(new)
    BY <1>1, <2>2, <2>4, CardinalityAdded
  <2> QED BY <1>1, <2>2, <2>3, <2>5, <2>6, FS_CardinalityType
          DEF IInv, TypeOK, CountOK
<1>12. HandlerOK'
  <2> SUFFICES ASSUME \A q \in Requests : pc'[q] # "unbind"
               PROVE  /\ byDapId' # {} => handler'
                      /\ handler' =>
                            \/ byDapId' # {}
                            \/ \E q \in Requests :
                                  /\ pc'[q] \in {"predict", "entry"}
                                  /\ args'[q].lines # {}
    BY DEF HandlerOK
  <2>1. unbound = {} /\ new = {} /\ \A q \in Requests : pc[q] # "unbind"
    BY <1>1, <1>5 DEF IInv, TypeOK
  <2>2. byDapId' = byDapId /\ handler' = handler /\ args' = args
    BY <1>1, <2>1
  <2>3. args[r].lines # {} => byDapId # {}
    BY <1>4, <2>1 DEF new
  <2>4. byDapId # {} => handler
    BY <2>1 DEF IInv, HandlerOK
  <2>5. ASSUME handler, byDapId = {}
        PROVE  \E q \in Requests : /\ pc'[q] \in {"predict", "entry"}
                                   /\ args[q].lines # {}
    <3>1. PICK q \in Requests : /\ pc[q] \in {"predict", "entry"}
                                /\ args[q].lines # {}
      BY <2>1, <2>5 DEF IInv, HandlerOK
    <3>2. q # r
      BY <2>3, <2>5, <3>1
    <3> QED BY <1>1, <3>1, <3>2 DEF IInv, TypeOK
  <2> QED BY <2>2, <2>4, <2>5
<1>13. ProfilerOK'
  BY <1>1, <1>7, ProfilerKept DEF Followed, filterVars
<1> QED BY <1>7, <1>9, <1>10, <1>11, <1>12, <1>13 DEF IInv

LEMMA UnboundKeeps ==
    ASSUME IInv, NEW r \in Requests, Unbound(r)
    PROVE  IInv'
<1> DEFINE now == IF filter = "all" THEN news[r] \cap byPath[args[r].src]
                  ELSE {}
<1>1. /\ pc[r] = "unbind"
      /\ unbindWait' = [unbindWait EXCEPT ![r] = {}]
      /\ total' = total + Cardinality(news[r])
      /\ handler' = IF total' = 0 THEN FALSE ELSE handler \/ total' > 0
      /\ Enable(now)
      /\ enableWait' = [enableWait EXCEPT ![r] = now \ enabled]
      /\ pc' = [pc EXCEPT ![r] = "enable"]
      /\ UNCHANGED <<ready, filterVars, queue, args, news, rushed, byPath,
                     byDapId, v8, scriptVars>>
  BY DEF Unbound, Unbindable
<1>2. now \in SUBSET byDapId /\ (filter = "none" => now = {})
  BY DEF IInv, TypeOK, RequestsOK
<1> HIDE DEF now
<1>3. /\ enabled' \subseteq byDapId
      /\ placing' \subseteq Breakpoints \X (Scripts \cup {"path", "scripts"})
      /\ UNCHANGED <<pending, applied, wire>>
      /\ RefsOK'
  BY <1>1, <1>2, EnableKeeps
<1>4. /\ IsFiniteSet(news[r]) /\ IsFiniteSet(Coming) /\ IsFiniteSet(byDapId)
      /\ Cardinality(news[r]) \in Nat /\ Cardinality(Coming) \in Nat
      /\ Cardinality(byDapId) \in Nat
  BY RefsFinite, FS_Subset, FS_CardinalityType DEF IInv, TypeOK, Coming
<1>5. TypeOK' /\ (wire \in Seq(Commands))'
  <2>1. total' \in Int /\ handler' \in BOOLEAN
    <3>1. total' \in Int
      BY <1>1, <1>4 DEF IInv, TypeOK
    <3>2. handler' \in BOOLEAN
      BY <1>1 DEF IInv, TypeOK
    <3> QED BY <3>1, <3>2
  <2>2. /\ pc' \in [Requests -> {"idle", "predict", "entry", "unbind",
                                 "enable", "done"}]
        /\ unbindWait' \in [Requests -> SUBSET Refs]
        /\ enableWait' \in [Requests -> SUBSET Breakpoints]
    BY <1>1, <1>2 DEF IInv, TypeOK
  <2> QED BY <1>1, <1>3, <2>1, <2>2 DEF IInv, TypeOK, filterVars, scriptVars
<1>6. RequestsOK'
  BY <1>1, <1>2 DEF IInv, TypeOK, RequestsOK, Enable, filterVars
<1>7. CountOK'
  <2>1. news[r] \subseteq Coming /\ Coming' = Coming \ news[r]
    BY <1>1 DEF IInv, TypeOK, RequestsOK, Coming, Breakpoints
  <2>2. Cardinality(Coming') = Cardinality(Coming) - Cardinality(news[r])
    BY <1>4, <2>1, CardinalityLess
  <2> QED BY <1>1, <1>4, <2>2 DEF IInv, TypeOK, CountOK
<1>8. HandlerOK'
  <2> SUFFICES ASSUME \A q \in Requests : pc'[q] # "unbind"
               PROVE  byDapId' # {} <=> handler'
    BY DEF HandlerOK
  <2>1. Coming' = {}
    BY <1>5 DEF TypeOK, Coming, Breakpoints
  <2>2. total' = Cardinality(byDapId)
    BY <1>1, <1>4, <1>7, <2>1, FS_EmptySet DEF IInv, TypeOK, CountOK
  <2>3. Cardinality(byDapId) = 0 <=> byDapId = {}
    BY <1>4, FS_EmptySet
  <2>4. ASSUME total' = 0 PROVE ~ handler'
    BY <1>1, <2>4
  <2>5. ASSUME total' # 0, total' \in Nat PROVE handler'
    <3>1. total' > 0
      BY <2>5
    <3>2. handler' = (handler \/ total' > 0)
      BY <1>1, <2>5
    <3> QED BY <3>1, <3>2
  <2>6. byDapId' = byDapId
    BY <1>1
  <2> QED BY <1>4, <2>2, <2>3, <2>4, <2>5, <2>6
<1>9. ProfilerOK'
  BY <1>1, <1>3, ProfilerKept DEF filterVars
<1> QED BY <1>3, <1>5, <1>6, <1>7, <1>8, <1>9 DEF IInv

LEMMA ReplyKeeps ==
    ASSUME IInv, NEW r \in Requests, Reply(r)
    PROVE  IInv'
<1>1. TypeOK' /\ (wire \in Seq(Commands))'
  BY DEF IInv, TypeOK, Reply, filterVars, managerVars, refVars, scriptVars
<1>2. RequestsOK'
  BY DEF IInv, TypeOK, RequestsOK, Reply, filterVars, managerVars, refVars
<1>3. CountOK'
  <2>1. Coming' = Coming
    BY DEF IInv, TypeOK, Coming, Reply
  <2> QED BY <2>1 DEF IInv, CountOK, Reply, managerVars
<1>4. HandlerOK'
  BY DEF IInv, TypeOK, HandlerOK, Reply, managerVars
<1>5. RefsOK'
  BY RefsKept DEF Reply, refVars
<1>6. ProfilerOK'
  BY ProfilerKept DEF Reply, filterVars, refVars
<1> QED BY <1>1, <1>2, <1>3, <1>4, <1>5, <1>6 DEF IInv

-----------------------------------------------------------------------------
(* Placing a breakpoint.                                                   *)

LEMMA PlacesTyped ==
    ASSUME NEW b \in Breakpoints, NEW scripts \in SUBSET parsed,
           parsed \subseteq Scripts
    PROVE  /\ ScriptRefs(b, scripts) \in SUBSET Refs
           /\ \A ref \in ScriptRefs(b, scripts) :
                 ref[2] \in parsed \cup Lasting
BY ScriptsAssumption DEF ScriptRefs, Refs, Lasting

LEMMA PlacingKeeps ==
    ASSUME IInv, NEW refs \in SUBSET Refs,
           \A ref \in refs : ref[2] \in parsed \cup Lasting,
           wire' = wire \o Commanded("set", New(refs)),
           pending' = pending \cup New(refs), placing' \subseteq placing,
           UNCHANGED <<ready, filterVars, requestVars, managerVars, enabled,
                       applied, v8, scriptVars>>
    PROVE  IInv'
<1>1. /\ New(refs) \in SUBSET Refs
      /\ New(refs) \cap (pending \cup applied) = {}
  BY DEF New
<1>2. Extended(wire', wire, "set", New(refs))
  BY <1>1, CommandsSent DEF IInv
<1>3. TypeOK' /\ (wire \in Seq(Commands))'
  BY <1>1, <1>2 DEF IInv, TypeOK, Extended, filterVars, requestVars,
                    managerVars, scriptVars
<1>4. RequestsOK' /\ CountOK' /\ HandlerOK'
  BY RequestsKept DEF IInv, RequestsOK, filterVars
<1>5. RefsOK'
  <2>1. /\ New(refs) \subseteq refs /\ New(refs) \cap LiveSets(wire) = {}
        /\ \A ref \in New(refs) : ref[1] \in enabled
    BY <1>1 DEF IInv, RefsOK, New
  <2>3. SetOnce(wire') /\ LiveSets(wire') \subseteq pending \cup New(refs)
    BY <1>2, <2>1 DEF IInv, RefsOK, Extended
  <2>2. Removals(wire') = Removals(wire) /\ Lost(wire') = Lost(wire)
    BY <1>2 DEF Extended
  <2> QED BY <2>1, <2>2, <2>3 DEF IInv, RefsOK, scriptVars
<1>6. ProfilerOK'
  BY <1>2, ProfilerKept DEF Extended, Followed, filterVars
<1> QED BY <1>3, <1>4, <1>5, <1>6 DEF IInv

LEMMA PathSetKeeps ==
    ASSUME IInv, NEW b \in Breakpoints, PathSet(b)
    PROVE  IInv'
<1> DEFINE refs == IF \E s \in loaded :
                         /\ Place[s] = s /\ InPlace(b, s)
                         /\ <<b, s>> \in pending \cup applied
                   THEN {} ELSE {<<b, "path">>}
<1>1. /\ refs \in SUBSET Refs
      /\ \A ref \in refs : ref[2] \in parsed \cup Lasting
  BY DEF Refs, Lasting
<1>2. /\ placing' \subseteq placing
      /\ pending' = pending \cup New(refs)
      /\ wire' = wire \o Commanded("set", New(refs))
      /\ UNCHANGED <<ready, filterVars, requestVars, managerVars, enabled,
                     applied, v8, scriptVars>>
  BY DEF PathSet
<1> HIDE DEF refs
<1> QED BY <1>1, <1>2, PlacingKeeps

LEMMA ScriptsSetKeeps ==
    ASSUME IInv, NEW b \in Breakpoints, ScriptsSet(b)
    PROVE  IInv'
<1> DEFINE refs == ScriptRefs(b, {s \in loaded :
                                     ScriptSource[s] = SourceOf(b)})
<1>1. /\ refs \in SUBSET Refs
      /\ \A ref \in refs : ref[2] \in parsed \cup Lasting
  BY PlacesTyped DEF IInv, TypeOK
<1>2. /\ placing' \subseteq placing
      /\ pending' = pending \cup New(refs)
      /\ wire' = wire \o Commanded("set", New(refs))
      /\ UNCHANGED <<ready, filterVars, requestVars, managerVars, enabled,
                     applied, v8, scriptVars>>
  BY DEF ScriptsSet
<1> HIDE DEF refs
<1> QED BY <1>1, <1>2, PlacingKeeps

(* What is set in the script may replace what was set by path. *)
LEMMA UpdateForScriptKeeps ==
    ASSUME IInv, NEW b \in Breakpoints, NEW s \in Scripts,
           UpdateForScript(b, s)
    PROVE  IInv'
<1> DEFINE refs == ScriptRefs(b, loaded \cap {s})
           new == New(refs)
           old == IF s \in loaded \cap Overlaid /\ ~ InPlace(b, s)
                  THEN RefsOf({b}) \cap {<<b, "path">>} ELSE {}
           w == wire \o Commanded("set", new)
<1>1. /\ placing' \subseteq placing
      /\ pending' = (pending \cup new) \ old
      /\ applied' = applied \ old
      /\ wire' = Removed(old, w)
      /\ UNCHANGED <<ready, filterVars, requestVars, managerVars, enabled,
                     v8, scriptVars>>
  BY DEF UpdateForScript
<1>0. /\ refs \in SUBSET Refs
      /\ \A ref \in refs : ref[2] \in parsed \cup Lasting
  BY PlacesTyped DEF IInv, TypeOK
<1>9. old \in SUBSET Refs /\ old \subseteq pending \cup applied
  BY DEF Refs, RefsOf, Lasting
<1> HIDE DEF refs, old
<1>2. /\ new \in SUBSET Refs
      /\ new \cap (pending \cup applied) = {}
      /\ \A ref \in new : ref[1] \in enabled /\ ref[2] \in parsed \cup Lasting
  BY <1>0 DEF New
<1> HIDE DEF new, w
<1>3. Extended(w, wire, "set", new)
  BY <1>2, CommandsSent DEF IInv, w
<1>4. Reduced(wire', w, old)
  BY <1>1, <1>9, <1>3, ReferencesRemoved DEF Extended
<1>5. TypeOK' /\ (wire \in Seq(Commands))'
  BY <1>1, <1>2, <1>4 DEF IInv, TypeOK, Reduced, filterVars, requestVars,
                          managerVars, scriptVars
<1>6. RequestsOK' /\ CountOK' /\ HandlerOK'
  BY <1>1, RequestsKept DEF IInv, RequestsOK, filterVars
<1>7. RefsOK'
  <2>1. new \cap LiveSets(wire) = {} /\ LiveSets(wire) \subseteq pending
    BY <1>2 DEF IInv, RefsOK
  <2>2. /\ SetOnce(wire') /\ Lost(wire') = Lost(wire)
        /\ LiveSets(wire') = (LiveSets(wire) \cup new) \ (old \cap pending)
        /\ Removals(wire') = Removals(wire) \cup (old \cap applied)
    BY <1>3, <1>4, <2>1 DEF IInv, RefsOK, Extended, Reduced
  <2>3. LiveSets(wire') \subseteq pending'
    BY <1>1, <1>2, <1>9, <2>1, <2>2
  <2> QED BY <1>1, <1>2, <2>2, <2>3 DEF IInv, RefsOK, scriptVars
<1>8. ProfilerOK'
  BY <1>1, <1>3, <1>4, ProfilerKept DEF Extended, Reduced, Followed, filterVars
<1> QED BY <1>5, <1>6, <1>7, <1>8 DEF IInv

-----------------------------------------------------------------------------
(* Filters, V8 and its events.                                             *)

LEMMA FilterNoneKeeps ==
    ASSUME IInv, FilterNone
    PROVE  IInv'
<1>1. Disable(byDapId) /\ UNCHANGED <<v8, scriptVars>>
  BY DEF FilterNone
<1>2. /\ enabled' = enabled \ byDapId
      /\ pending' \subseteq pending /\ applied' \subseteq applied
      /\ placing' = placing
      /\ wire' \in Seq(Commands) /\ Followed(wire', wire, "remove")
      /\ RefsOK'
  BY <1>1, DisableKeeps DEF Reduced
<1>3. enabled' = {}
  BY <1>2 DEF IInv, TypeOK
<1>4. TypeOK'
  BY <1>2, <1>3, BoundsAssumption
  DEF IInv, TypeOK, FilterNone, Filters, requestVars, managerVars,
      scriptVars
<1>5. RequestsOK' /\ CountOK' /\ HandlerOK'
  BY <1>3, RequestsKept DEF FilterNone
<1>6. ProfilerOK'
  BY <1>2 DEF IInv, ProfilerOK, FilterNone, Followed
<1> QED BY <1>2, <1>4, <1>5, <1>6 DEF IInv

LEMMA ProfilerAskedKeeps ==
    ASSUME IInv, ProfilerAsked
    PROVE  IInv'
<1>1. /\ wire' = Append(wire, ProfilerCommand)
      /\ UNCHANGED <<ready, filterVars, requestVars, managerVars, enabled,
                     placing, pending, applied, v8, scriptVars>>
  BY DEF ProfilerAsked
<1>2. ProfilerCommand \in Commands /\ ProfilerCommand.kind = "profile"
  BY DEF Commands, ProfilerCommand
<1> HIDE DEF ProfilerCommand
<1>3. /\ wire' \in Seq(Commands)
      /\ DOMAIN wire' = DOMAIN wire \cup {Len(wire) + 1}
      /\ \A i \in DOMAIN wire : wire'[i] = wire[i]
      /\ wire'[Len(wire) + 1].kind = "profile"
  BY <1>1, <1>2 DEF IInv
<1>4. TypeOK'
  BY <1>1, <1>3 DEF IInv, TypeOK, filterVars, requestVars, managerVars,
                    scriptVars
<1>5. RequestsOK' /\ CountOK' /\ HandlerOK'
  BY <1>1, RequestsKept DEF IInv, RequestsOK, filterVars
<1>6. /\ LiveSets(wire') = LiveSets(wire)
      /\ Removals(wire') = Removals(wire) /\ Lost(wire') = Lost(wire)
      /\ SetOnce(wire) => SetOnce(wire')
  BY <1>3 DEF LiveSets, Lost, Removals, SetOnce
<1>7. RefsOK'
  BY <1>1, <1>6 DEF IInv, RefsOK, scriptVars
<1>8. ProfilerOK'
  BY <1>1, <1>3 DEF ProfilerAsked, ProfilerOK, filterVars
<1> QED BY <1>3, <1>4, <1>5, <1>7, <1>8 DEF IInv

LEMMA ProfilerAnsweredKeeps ==
    ASSUME IInv, ProfilerAnswered
    PROVE  IInv'
<1>1. /\ wire # << >> /\ Head(wire).kind = "profile"
      /\ wire' = Tail(wire) /\ profile' = profile + 1
      /\ UNCHANGED <<ready, filter, filterWait, filters, requestVars,
                     managerVars, enabled, placing, pending, applied, v8,
                     scriptVars>>
  BY DEF ProfilerAnswered
<1>2. Shortened(Tail(wire), Head(wire), wire)
  BY <1>1, CommandAnswered DEF IInv
<1>3. profile < 2 /\ profile \in 0..2
  BY <1>1, <1>2 DEF IInv, TypeOK, ProfilerOK, Shortened
<1>4. profile' \in 0..2
  BY <1>1, <1>3
<1>5. TypeOK' /\ (wire \in Seq(Commands))'
  BY <1>1, <1>2, <1>4 DEF IInv, TypeOK, Shortened, requestVars, managerVars,
                          scriptVars
<1>6. RequestsOK' /\ CountOK' /\ HandlerOK'
  BY <1>1, RequestsKept DEF IInv, RequestsOK
<1>7. ProfilerOK'
  <2>1. \A i \in DOMAIN Tail(wire) : Tail(wire)[i].kind # "profile"
    BY <1>1, <1>2 DEF IInv, ProfilerOK, Shortened
  <2> QED BY <1>1, <2>1 DEF ProfilerOK
<1>8. RefsOK'
  <2>1. /\ SetOnce(wire') /\ LiveSets(wire') = LiveSets(wire)
        /\ Removals(wire') = Removals(wire) /\ Lost(wire') = Lost(wire)
    BY <1>1, <1>2 DEF IInv, RefsOK, Shortened
  <2> QED BY <1>1, <2>1 DEF IInv, RefsOK, scriptVars
<1> QED BY <1>5, <1>6, <1>7, <1>8 DEF IInv

LEMMA FilterAllKeeps ==
    ASSUME IInv, FilterAll
    PROVE  IInv'
<1>1. Enable(byDapId) /\ UNCHANGED <<v8, scriptVars>>
  BY DEF FilterAll
<1>2. /\ enabled' \subseteq byDapId
      /\ placing' \subseteq Breakpoints \X (Scripts \cup {"path", "scripts"})
      /\ UNCHANGED <<pending, applied, wire>>
      /\ RefsOK'
  BY <1>1, EnableKeeps
<1>3. TypeOK' /\ (wire \in Seq(Commands))'
  BY <1>2, BoundsAssumption
  DEF IInv, TypeOK, FilterAll, Filters, requestVars, managerVars,
      scriptVars
<1>4. RequestsOK' /\ CountOK' /\ HandlerOK'
  BY RequestsKept DEF FilterAll
<1>5. ProfilerOK'
  BY <1>2 DEF IInv, ProfilerOK, FilterAll
<1> QED BY <1>2, <1>3, <1>4, <1>5 DEF IInv

LEMMA DebuggerReadyKeeps ==
    ASSUME IInv, DebuggerReady
    PROVE  IInv'
<1>1. TypeOK' /\ (wire \in Seq(Commands))'
  BY DEF IInv, TypeOK, DebuggerReady, filterVars, requestVars, managerVars,
         refVars, scriptVars
<1>2. RequestsOK' /\ CountOK' /\ HandlerOK'
  BY RequestsKept DEF IInv, RequestsOK, DebuggerReady, filterVars, refVars
<1>3. RefsOK'
  <2>1. /\ enabled \subseteq enabled'
        /\ UNCHANGED <<pending, applied, wire, v8, scriptVars>>
    BY DEF DebuggerReady, refVars
  <2> QED BY <2>1, RefsKept
<1>4. ProfilerOK'
  BY ProfilerKept DEF DebuggerReady, filterVars, refVars
<1> QED BY <1>1, <1>2, <1>3, <1>4 DEF IInv

(* If V8 accepts it, the reference is known, or was dropped. *)
LEMMA SetAnsweredKeeps ==
    ASSUME IInv, SetAnswered
    PROVE  IInv'
<1> DEFINE m == Head(wire)
           t == Tail(wire)
           known == Recorded(m)
           back == IF m.dead THEN {m.ref} ELSE {}
<1>1. /\ ~ Busy /\ wire # << >> /\ m.kind \in {"set", "lost"}
      /\ \/ /\ Accepts(m.ref)
            /\ v8' = v8 \cup {m.ref}
            /\ pending' = pending \ known
            /\ applied' = applied \cup known
            /\ wire' = t \o Commanded("remove", back)
         \/ /\ wire' = t
            /\ UNCHANGED <<v8, pending, applied>>
      /\ UNCHANGED <<ready, filterVars, requestVars, managerVars, enabled,
                     placing, scriptVars>>
  BY DEF SetAnswered
<1>2. Shortened(t, m, wire)
  BY <1>1, CommandAnswered DEF IInv
<1>0. /\ known \subseteq pending
      /\ known \subseteq {m.ref}
      /\ m.kind = "set" /\ ~ m.dead /\ m.ref \in pending => m.ref \in known
      /\ m.kind = "lost" \/ m.dead => known = {}
  BY <1>1 DEF Recorded
<1> HIDE DEF m, t, known
<1>3. m.ref \in Refs /\ m.dead \in BOOLEAN
  BY <1>1, <1>2 DEF Shortened, Commands, ProfilerCommand
<1>4. ASSUME wire' = t \o Commanded("remove", back)
      PROVE  Extended(wire', t, "remove", back)
  <2>1. back \in SUBSET Refs
    BY <1>3
  <2> HIDE DEF back
  <2> QED BY <1>2, <1>4, <2>1, CommandsSent DEF Shortened
<1>5. (wire \in Seq(Commands))'
  BY <1>1, <1>2, <1>4 DEF Shortened, Extended
<1>6. TypeOK'
  BY <1>0, <1>1, <1>3, <1>5
  DEF IInv, TypeOK, filterVars, requestVars, managerVars, scriptVars
<1>7. RequestsOK' /\ CountOK' /\ HandlerOK'
  BY <1>1, RequestsKept DEF IInv, RequestsOK, filterVars
<1>8. RefsOK'
  <2>1. /\ SetOnce(t) /\ LiveSets(t) \subseteq LiveSets(wire)
        /\ Removals(t) = Removals(wire) /\ Lost(t) \subseteq Lost(wire)
        /\ m.kind = "set" /\ ~ m.dead =>
              m.ref \in LiveSets(wire) /\ m.ref \notin LiveSets(t)
        /\ m.kind = "lost" => m.ref \in Lost(wire)
    BY <1>1, <1>2 DEF IInv, RefsOK, Shortened
  <2>0. UNCHANGED <<enabled, alive, parsed, forgotten>>
    BY <1>1 DEF scriptVars
  <2>2. ASSUME /\ Accepts(m.ref)
               /\ v8' = v8 \cup {m.ref}
               /\ pending' = pending \ known
               /\ applied' = applied \cup known
               /\ wire' = t \o Commanded("remove", back)
        PROVE  RefsOK'
    <3>1. /\ LiveSets(wire') = LiveSets(t) /\ Lost(wire') = Lost(t)
          /\ Removals(wire') = Removals(t) \cup back
          /\ SetOnce(wire')
      BY <1>4, <2>1, <2>2 DEF Extended
    <3>2. m.ref \in known \cup forgotten \cup back
      <4>1. CASE m.dead
        BY <4>1
      <4>2. CASE m.kind = "set" /\ ~ m.dead
        BY <1>0, <2>1, <4>2 DEF IInv, RefsOK
      <4>3. CASE m.kind = "lost"
        <5>1. m.ref \in forgotten \/ m.ref[2] \in parsed \ alive
          BY <2>1, <4>3 DEF IInv, RefsOK
        <5>2. m.ref[2] \in alive \cup Lasting
          BY <2>2 DEF Accepts
        <5>3. Lasting \cap Scripts = {}
          BY ScriptsAssumption DEF Lasting
        <5> QED BY <5>1, <5>2, <5>3 DEF IInv, TypeOK
      <4> QED BY <1>1, <4>1, <4>2, <4>3
    <3>3. \A ref \in v8' : ref \in applied' \cup forgotten \cup Removals(wire')
      <4>1. \A ref \in v8 : ref \in applied \cup forgotten \cup Removals(wire)
        BY DEF IInv, RefsOK
      <4> QED BY <2>1, <2>2, <3>1, <3>2, <4>1
    <3>4. \A ref \in v8' : ref[2] \in alive \cup Lasting
      BY <2>2 DEF IInv, RefsOK, Accepts
    <3>5. LiveSets(wire') \subseteq pending'
      <4>1. LiveSets(t) \subseteq pending
        BY <2>1 DEF IInv, RefsOK
      <4>2. known \cap LiveSets(t) = {}
        BY <1>0, <1>1, <2>1
      <4> QED BY <2>2, <3>1, <4>1, <4>2
    <3>6. \A ref \in pending' \cup applied' :
             ref[1] \in enabled /\ ref[2] \in parsed \cup Lasting
      BY <1>0, <2>2 DEF IInv, RefsOK
    <3>7. \A ref \in Lost(wire') :
             ref \in forgotten \/ ref[2] \in parsed \ alive
      BY <2>1, <3>1 DEF IInv, RefsOK
    <3> QED BY <2>0, <3>1, <3>3, <3>4, <3>5, <3>6, <3>7 DEF RefsOK
  <2>3. ASSUME wire' = t, UNCHANGED <<v8, pending, applied>>
        PROVE  RefsOK'
    BY <2>0, <2>1, <2>3 DEF IInv, RefsOK
  <2> QED BY <1>1, <2>2, <2>3
<1>9. ProfilerOK'
  <2>1. \A i \in DOMAIN wire' : wire'[i].kind = "profile" =>
           i \in DOMAIN t /\ t[i].kind = "profile"
    BY <1>1, <1>4 DEF Extended, Followed
  <2>2. \A i \in DOMAIN t : i \in Int /\ i + 1 \in DOMAIN wire
                          /\ t[i] = wire[i + 1]
    BY <1>2 DEF Shortened
  <2>3. UNCHANGED <<filter, profile>>
    BY <1>1 DEF filterVars
  <2>4. \A i \in DOMAIN wire' : wire'[i].kind = "profile" =>
           i \in Int /\ i + 1 \in DOMAIN wire /\ wire[i + 1].kind = "profile"
    BY <2>1, <2>2
  <2> QED BY <2>3, <2>4 DEF IInv, ProfilerOK
<1> QED BY <1>5, <1>6, <1>7, <1>8, <1>9 DEF IInv

LEMMA RemoveAnsweredKeeps ==
    ASSUME IInv, RemoveAnswered
    PROVE  IInv'
<1> DEFINE m == Head(wire)
           t == Tail(wire)
<1>1. /\ ~ Busy /\ wire # << >> /\ m.kind = "remove"
      /\ v8' = {ref \in v8 : Location(ref) # Location(m.ref)}
      /\ wire' = t
      /\ UNCHANGED <<ready, filterVars, requestVars, managerVars, enabled,
                     placing, pending, applied, scriptVars>>
  BY DEF RemoveAnswered
<1>2. Shortened(t, m, wire)
  BY <1>1, CommandAnswered DEF IInv
<1> HIDE DEF m, t
<1>3. TypeOK' /\ (wire \in Seq(Commands))'
  BY <1>1, <1>2 DEF IInv, TypeOK, Shortened, filterVars, requestVars,
                    managerVars, scriptVars
<1>4. RequestsOK' /\ CountOK' /\ HandlerOK'
  BY <1>1, RequestsKept DEF IInv, RequestsOK, filterVars
<1>5. RefsOK'
  <2>1. /\ SetOnce(wire') /\ LiveSets(wire') = LiveSets(wire)
        /\ Removals(wire) = Removals(wire') \cup {m.ref}
        /\ Lost(wire') = Lost(wire)
    BY <1>1, <1>2 DEF IInv, RefsOK, Shortened
  <2>2. \A ref \in v8' : ref \in v8 /\ ref # m.ref
    BY <1>1
  <2> QED BY <1>1, <2>1, <2>2 DEF IInv, RefsOK, scriptVars
<1>6. ProfilerOK'
  <2>1. \A i \in DOMAIN t : i \in Int /\ i + 1 \in DOMAIN wire
                          /\ t[i] = wire[i + 1]
    BY <1>2 DEF Shortened
  <2> QED BY <1>1, <2>1 DEF IInv, ProfilerOK, filterVars
<1> QED BY <1>3, <1>4, <1>5, <1>6 DEF IInv

LEMMA ScriptParsedKeeps ==
    ASSUME IInv, NEW s \in Scripts, ScriptParsed(s)
    PROVE  IInv'
<1>1. TypeOK' /\ (wire \in Seq(Commands))'
  BY ScriptsAssumption
  DEF IInv, TypeOK, ScriptParsed, filterVars, requestVars, managerVars
<1>2. RequestsOK' /\ CountOK' /\ HandlerOK'
  BY RequestsKept DEF IInv, RequestsOK, ScriptParsed, filterVars
<1>3. RefsOK'
  BY DEF IInv, RefsOK, ScriptParsed
<1>4. ProfilerOK'
  BY ProfilerKept DEF ScriptParsed, filterVars
<1> QED BY <1>1, <1>2, <1>3, <1>4 DEF IInv

LEMMA ContextsClearedKeeps ==
    ASSUME IInv, ContextsCleared
    PROVE  IInv'
<1>1. TypeOK' /\ (wire \in Seq(Commands))'
  BY BoundsAssumption
  DEF IInv, TypeOK, ContextsCleared, filterVars, requestVars, managerVars,
      refVars
<1>2. RequestsOK' /\ CountOK' /\ HandlerOK'
  BY RequestsKept DEF IInv, RequestsOK, ContextsCleared, filterVars, refVars
<1>3. RefsOK'
  <2>1. UNCHANGED <<enabled, pending, applied, wire, parsed, forgotten>>
    BY DEF ContextsCleared, refVars
  <2>2. alive' = {} /\ v8' = {ref \in v8 : ref[2] \in Lasting}
    BY DEF ContextsCleared
  <2> QED BY <2>1, <2>2 DEF IInv, RefsOK
<1>4. ProfilerOK'
  BY ProfilerKept DEF ContextsCleared, filterVars, refVars
<1> QED BY <1>1, <1>2, <1>3, <1>4 DEF IInv

(* What V8 still has and is dropped was set in a script that is alive.    *)
LEMMA ContextWasClearedKeeps ==
    ASSUME IInv, ContextWasCleared
    PROVE  IInv'
<1>1. Forsaken(wire', wire)
  BY ReferencesDropped DEF IInv, ContextWasCleared
<1>2. TypeOK' /\ (wire \in Seq(Commands))'
  <2>1. \A i \in DOMAIN wire' : wire'[i] \in Commands
    BY <1>1 DEF Forsaken
  <2> QED BY <1>1, <2>1 DEF IInv, TypeOK, Forsaken, ContextWasCleared,
                            filterVars, requestVars, managerVars
<1>3. RequestsOK' /\ CountOK' /\ HandlerOK'
  BY RequestsKept DEF IInv, RequestsOK, ContextWasCleared, filterVars
<1>4. RefsOK'
  <2> DEFINE dropped == {ref \in pending \cup applied : ref[2] \in alive}
  <2>1. /\ UNCHANGED <<enabled, v8, alive, parsed>>
        /\ pending' = {ref \in pending : ref[2] \in Lasting}
        /\ applied' = {ref \in applied : ref[2] \in Lasting}
        /\ forgotten' = forgotten \cup dropped
    BY DEF ContextWasCleared
  <2>2. \A ref \in v8 : ref \in applied' \cup forgotten' \cup Removals(wire')
    BY <1>1, <2>1 DEF IInv, RefsOK, Forsaken
  <2>3. \A ref \in pending' \cup applied' :
           ref[1] \in enabled /\ ref[2] \in parsed \cup Lasting
    BY <2>1 DEF IInv, RefsOK
  <2>4. LiveSets(wire') \subseteq pending'
    BY <1>1, <2>1 DEF IInv, RefsOK, TypeOK, Forsaken
  <2>5. \A ref \in Lost(wire') :
           ref \in forgotten' \/ ref[2] \in parsed \ alive
    <3> SUFFICES ASSUME NEW ref \in Lost(wire')
                 PROVE  ref \in forgotten' \/ ref[2] \in parsed \ alive
      OBVIOUS
    <3>1. CASE ref \in Lost(wire)
      BY <2>1, <3>1 DEF IInv, RefsOK
    <3>2. CASE ref \in LiveSets(wire) /\ ref[2] \in Scripts
      <4>1. ref \in pending /\ ref[2] \in parsed
        BY <3>2, ScriptsAssumption DEF IInv, RefsOK, Lasting
      <4> QED BY <2>1, <4>1
    <3> QED BY <1>1, <3>1, <3>2 DEF Forsaken
  <2>6. SetOnce(wire') /\ \A ref \in v8 : ref[2] \in alive \cup Lasting
    BY <1>1 DEF IInv, RefsOK, Forsaken
  <2> QED BY <2>1, <2>2, <2>3, <2>4, <2>5, <2>6 DEF RefsOK
<1>5. ProfilerOK'
  <2>1. \A i \in DOMAIN wire' : wire'[i].kind = "profile" =>
           i \in DOMAIN wire /\ wire[i].kind = "profile"
    BY <1>1 DEF Forsaken
  <2> QED BY <2>1, ProfilerKept DEF ContextWasCleared, filterVars
<1> QED BY <1>2, <1>3, <1>4, <1>5 DEF IInv

-----------------------------------------------------------------------------
(* The invariant.                                                          *)

LEMMA InitInvariant ==
    ASSUME Init
    PROVE  IInv
<1>1. TypeOK /\ wire \in Seq(Commands)
  <2>1. (CHOOSE s \in Sources : TRUE) \in Sources
    BY FiniteAssumption
  <2>2. args \in [Requests -> [src : Sources, lines : SUBSET Lines]]
    BY <2>1 DEF Init
  <2>3. 0 \in 0..MaxFilters /\ 0 \in 0..MaxClears
    BY BoundsAssumption
  <2>4. wire \in Seq(Commands) /\ queue \in Seq(Requests)
    BY DEF Init
  <2>5. /\ byPath \in [Sources -> SUBSET Breakpoints]
        /\ enableWait \in [Requests -> SUBSET Breakpoints]
        /\ unbindWait \in [Requests -> SUBSET Refs]
        /\ news \in [Requests -> SUBSET Breakpoints]
    BY DEF Init
  <2>6. wire = << >>
    BY DEF Init
  <2>7. \A i \in DOMAIN wire : wire[i] \in Commands
    BY <2>6
  <2>8. /\ ready \in BOOLEAN /\ handler \in BOOLEAN /\ cleared \in BOOLEAN
        /\ filter \in {"all", "none"} /\ filterWait \subseteq Breakpoints
        /\ pc \in [Requests -> {"idle", "predict", "entry", "unbind",
                                "enable", "done"}]
    BY DEF Init
  <2>9. /\ byDapId \subseteq Breakpoints /\ total \in Int
        /\ enabled \subseteq byDapId
        /\ placing \subseteq Breakpoints \X (Scripts \cup {"path", "scripts"})
        /\ pending \subseteq Refs /\ applied \subseteq Refs
        /\ pending \cap applied = {} /\ v8 \subseteq Refs
        /\ forgotten \subseteq Refs
    BY DEF Init
  <2>10. /\ alive \subseteq loaded /\ loaded \subseteq parsed
         /\ parsed \subseteq Scripts /\ rushed \in BOOLEAN
         /\ filters \in 0..MaxFilters /\ clears \in 0..MaxClears
    BY <2>3 DEF Init
  <2>11. profile = 0
    BY DEF Init
  <2>12. profile \in 0..2
    BY <2>11
  <2> QED BY <2>2, <2>4, <2>5, <2>7, <2>8, <2>9, <2>10, <2>12 DEF TypeOK
<1>2. RequestsOK
  BY <1>1 DEF Init, TypeOK, RequestsOK
<1>3. CountOK
  <2>1. Coming = {}
    BY DEF Init, Coming, Breakpoints
  <2> QED BY <2>1, FS_EmptySet DEF Init, CountOK
<1>4. HandlerOK
  BY DEF Init, HandlerOK
<1>5. RefsOK
  BY DEF Init, RefsOK, LiveSets, Lost, Removals, SetOnce
<1>6. ProfilerOK
  BY DEF Init, ProfilerOK
<1> QED BY <1>1, <1>2, <1>3, <1>4, <1>5, <1>6 DEF IInv

LEMMA NextInvariant ==
    ASSUME IInv, [Next]_vars
    PROVE  IInv'
<1>1. ASSUME NEW r \in Requests, NEW src \in Sources,
             NEW lines \in Asked, Receive(r, src, lines)
      PROVE  IInv'
  BY <1>1, AskedAssumption, ReceiveKeeps
<1>2. ASSUME NEW r \in Requests, Handling(r) PROVE IInv'
  BY <1>2, PredictedKeeps, MergeKeeps, UnboundKeeps, ReplyKeeps DEF Handling
<1>3. ASSUME NEW b \in Breakpoints, Placing(b) PROVE IInv'
  BY <1>3, PathSetKeeps, ScriptsSetKeeps, UpdateForScriptKeeps DEF Placing
<1>4. CASE FilterNone \/ ProfilerAsked \/ FilterAll
  BY <1>4, FilterNoneKeeps, ProfilerAskedKeeps, FilterAllKeeps
<1>5. CASE Answering
  BY <1>5, DebuggerReadyKeeps, SetAnsweredKeeps, RemoveAnsweredKeeps,
     ProfilerAnsweredKeeps
  DEF Answering
<1>6. ASSUME NEW s \in Scripts, ScriptParsed(s) PROVE IInv'
  BY <1>6, ScriptParsedKeeps
<1>7. CASE ContextsCleared \/ ContextWasCleared
  BY <1>7, ContextsClearedKeeps, ContextWasClearedKeeps
<1>8. CASE UNCHANGED vars
  <2>1. TypeOK' /\ (wire \in Seq(Commands))'
    BY <1>8 DEF IInv, TypeOK, vars, filterVars, requestVars, managerVars,
                refVars, scriptVars
  <2>2. RequestsOK' /\ CountOK' /\ HandlerOK'
    BY <1>8, RequestsKept DEF IInv, RequestsOK, vars, filterVars, refVars
  <2>3. RefsOK'
    <3>1. /\ enabled \subseteq enabled'
          /\ UNCHANGED <<pending, applied, wire, v8, scriptVars>>
      BY <1>8 DEF vars, refVars
    <3> QED BY <3>1, RefsKept
  <2>4. ProfilerOK'
    BY <1>8, ProfilerKept DEF vars, filterVars, refVars
  <2> QED BY <2>1, <2>2, <2>3, <2>4 DEF IInv
<1> QED BY <1>1, <1>2, <1>3, <1>4, <1>5, <1>6, <1>7, <1>8 DEF Next

(* The strengthening of the invariants below, as an invariant. *)
THEOREM Invariant == Spec => []IInv
BY InitInvariant, NextInvariant, PTL DEF Spec

(* Every variable of the BreakpointManager and of V8 has its type; among   *)
(* them, that only breakpoints of the manager are enabled and that no      *)
(* reference is both Pending and Applied.                                  *)
THEOREM TypeCorrect == Spec => []TypeOK
<1>1. IInv => TypeOK
  BY DEF IInv
<1> QED BY <1>1, Invariant, PTL

(* _totalBreakpointsCount and the source map handler agree with the        *)
(* breakpoints there are whenever no request is between its two counts.    *)
THEOREM HandlerIsRight == Spec => []HandlerMatches
<1>1. ASSUME IInv PROVE HandlerMatches
  <2> SUFFICES ASSUME \A r \in Requests : pc[r] \in {"idle", "enable", "done"}
               PROVE  /\ total = Cardinality(byDapId)
                      /\ handler <=> byDapId # {}
    BY DEF HandlerMatches
  <2>1. Coming = {}
    BY DEF Coming, Breakpoints
  <2>2. IsFiniteSet(byDapId)
    BY <1>1, RefsFinite, FS_Subset DEF IInv, TypeOK
  <2>3. total = Cardinality(byDapId)
    BY <1>1, <2>1, <2>2, FS_EmptySet, FS_CardinalityType
    DEF IInv, TypeOK, CountOK
  <2>4. handler <=> byDapId # {}
    BY <1>1 DEF IInv, HandlerOK
  <2> QED BY <2>3, <2>4
<1> QED BY <1>1, Invariant, PTL

(* No breakpoint is leaked, but for those that were dropped when the       *)
(* contexts were cleared.                                                  *)
THEOREM NoneIsLeaked == Spec => []NoOrphan
<1>1. ASSUME IInv PROVE NoOrphan
  <2> SUFFICES ASSUME wire = << >>, NEW ref \in v8 \ forgotten
               PROVE  ref[1] \in enabled /\ ref \in applied
    BY DEF NoOrphan, Quiet
  <2>1. Removals(wire) = {}
    BY DEF Removals
  <2> QED BY <1>1, <2>1 DEF IInv, RefsOK
<1> QED BY <1>1, Invariant, PTL

(* The profiler silences every breakpoint, with the same exception: what   *)
(* V8 still has when the filter is applied is about to be removed.         *)
THEOREM ProfileIsSilent == Spec => []Silenced
<1>1. ASSUME IInv PROVE Silenced
  <2> SUFFICES ASSUME filter = "none", NEW ref \in v8 \ forgotten
               PROVE  \E i \in DOMAIN wire :
                         /\ wire[i].kind = "remove"
                         /\ Location(wire[i].ref) = Location(ref)
    BY DEF Silenced
  <2>1. ref \notin applied
    BY <1>1 DEF IInv, RequestsOK, RefsOK
  <2>2. ref \in Removals(wire)
    BY <1>1, <2>1 DEF IInv, RefsOK
  <2> QED BY <2>2 DEF Removals
<1> QED BY <1>1, Invariant, PTL
-----------------------------------------------------------------------------
(* That the breakpoints asked for last are set: where a breakpoint ought   *)
(* to be, it is being placed, or V8 has its reference or is about to.      *)

Active(r) == pc[r] \notin {"idle", "done"}

(* A source that is not rushed has one request at a time, and what that    *)
(* removes is at no line that it keeps.                                    *)
SourcesOK ==
    /\ \A q, r \in Requests : q < r /\ pc[r] # "idle" => pc[q] # "idle"
    /\ \A b \in byDapId : /\ b \in news[b[1]] /\ b \in byPath[SourceOf(b)]
                          /\ LineOf(b) \in args[b[1]].lines
    /\ \A src \in Sources : \A b, c \in byPath[src] :
          SourceOf(b) = src /\ (LineOf(b) = LineOf(c) => b = c)
    /\ \A r \in Requests : \A ref \in unbindWait[r] :
          pc[r] = "unbind" /\ pc[ref[1][1]] # "idle"
    /\ ~ rushed =>
          /\ \A q, r \in Requests :
                Active(q) /\ Active(r) /\ args[q].src = args[r].src => q = r
          /\ \A r \in Requests : \A ref \in unbindWait[r] :
                /\ SourceOf(ref[1]) = args[r].src
                /\ \A b \in byPath[args[r].src] : LineOf(b) # LineOf(ref[1])

(* Which breakpoints are enabled, and that they have the handler.          *)
EnabledOK ==
    /\ \A b \in enabled : pc[b[1]] # "unbind"
    /\ ~ rushed => /\ Coming \subseteq byDapId
                   /\ byDapId \ Coming # {} => handler
    /\ filter = "all" =>
          \A b \in byDapId : pc[b[1]] = "unbind" \/ b \in enabled

(* When the profiler has stopped, V8 has answered all that was sent before *)
(* it started, and the removals that followed.                             *)
DrainedOK ==
    /\ filter = "all" => profile = 0
    /\ \A i \in DOMAIN wire : wire[i].kind = "profile" =>
          /\ \A j \in DOMAIN wire : wire[j].kind \in {"set", "lost"} => j < i
          /\ profile = 1 => i = Len(wire)
    /\ profile = 1 => \A i \in DOMAIN wire : wire[i].kind \notin {"set", "lost"}
    /\ profile = 2 => wire = << >>

(* What the console delays is only to forget the scripts that are gone.    *)
ScriptsOK == ~ cleared => loaded = alive

(* References are of breakpoints and scripts that there have been.         *)
Mentioned == v8 \cup pending \cup applied \cup forgotten
               \cup LiveSets(wire) \cup Lost(wire) \cup Doomed(wire)

(* A breakpoint that a request asked for, in a script of its source. *)
OfRequest(ref) ==
    /\ ref[1] \in Breakpoints /\ pc[ref[1][1]] # "idle"
    /\ ref[2] \in Scripts => ScriptSource[ref[2]] = SourceOf(ref[1])

Sound(ref) ==
    /\ OfRequest(ref)
    /\ LineOf(ref[1]) \in args[ref[1][1]].lines
    /\ ref[2] \in parsed \cup Lasting

MentionedOK ==
    /\ \A ref \in Mentioned : Sound(ref)
    /\ \A where \in placing : OfRequest(where)
    /\ \A ref \in forgotten : ref[2] \in Scripts

ScriptsOf(src) == {s \in parsed : ScriptSource[s] = src}

(* What is set by path for b sets it in the scripts that overlay the       *)
(* source, too: none of them has its line elsewhere.                       *)
ByPath(b) == \A s \in ScriptsOf(SourceOf(b)) \cap Overlaid : InPlace(b, s)

(* What is removed is waited for, unless a script replaced it.             *)
RemovalsOK ==
    filter = "all" =>
        \A ref \in Doomed(wire) :
            \/ ref[2] = "path" /\ ~ ByPath(ref[1])
            \/ \E r \in Requests : ref \in unbindWait[r]

(* The reference is known to the debugger. *)
Noted(ref) == ref \in pending \cup applied

(* If it is, it is set or being set, or V8 has refused or removed it.      *)
Held(ref) ==
    \/ Contested(ref)
    \/ /\ ref \in pending => ref \in LiveSets(wire)
       /\ ref \in applied => ref \in v8

(* Whether the breakpoint b is placed in the script s, or about to be.     *)
PlacedIn(b, s) ==
    \/ {<<b, s>>, <<b, "scripts">>} \cap placing # {}
    \/ Contested(<<b, Place[s]>>) \/ Noted(<<b, Place[s]>>)
    \/ Place[s] \in Urls /\ InPlace(b, s) /\ Noted(<<b, "path">>)

(* And by path, as long as there was no script of its source.              *)
PlacedByPath(b) ==
    ScriptsOf(SourceOf(b)) = {} =>
        <<b, "path">> \in placing \/ Noted(<<b, "path">>)

(* What holds of each breakpoint that is asked for, and is enabled.        *)
BreakpointOK(b) ==
    /\ \A where \in alive \cup Lasting :
          (where = "path" => ByPath(b)) => Held(<<b, where>>)
    /\ \A s \in ScriptsOf(SourceOf(b)) \cap alive : PlacedIn(b, s)
    /\ PlacedByPath(b)

SetOK ==
    filter = "all" /\ ~ rushed =>
        \A src \in Sources : \A b \in byPath[src] \cap enabled :
            BreakpointOK(b)

SInv == /\ SourcesOK /\ EnabledOK /\ DrainedOK /\ ScriptsOK
        /\ MentionedOK /\ RemovalsOK /\ SetOK

-----------------------------------------------------------------------------
(* What a step keeps.                                                      *)

LEMMA SourcesKept ==
    ASSUME SourcesOK, UNCHANGED <<requestVars, managerVars>>
    PROVE  SourcesOK'
BY DEF SourcesOK, requestVars, managerVars, SourceOf, LineOf, Active

LEMMA EnabledKept ==
    ASSUME EnabledOK, UNCHANGED <<requestVars, managerVars, enabled, filter>>
    PROVE  EnabledOK'
BY DEF EnabledOK, requestVars, managerVars, Coming

(* While the filter lets all pass, no command of the profiler is on the    *)
(* wire; while it lets none pass, nothing but removals can be sent.        *)
LEMMA DrainedKept ==
    ASSUME IInv, IInv', DrainedOK, UNCHANGED <<filter, profile>>,
           filter = "none" => wire' = wire
    PROVE  DrainedOK'
<1>1. CASE filter = "all"
  <2>1. profile' = 0 /\ \A i \in DOMAIN wire' : wire'[i].kind # "profile"
    BY <1>1 DEF IInv, ProfilerOK, DrainedOK
  <2> QED BY <2>1 DEF DrainedOK
<1>2. CASE filter = "none"
  BY <1>2 DEF DrainedOK
<1> QED BY <1>1, <1>2 DEF IInv, TypeOK

LEMMA NothingKnown ==
    ASSUME IInv, filter = "none"
    PROVE  enabled = {} /\ pending = {} /\ applied = {} /\ LiveSets(wire) = {}
BY DEF IInv, RequestsOK, RefsOK

(* A breakpoint of the manager was created by a request that was merged.   *)
LEMMA Created ==
    ASSUME IInv, SourcesOK, NEW src \in Sources, NEW b \in byPath[src]
    PROVE  /\ b \in byDapId /\ b \in Breakpoints /\ b[1] \in Requests
           /\ b[2] \in Lines /\ b = <<b[1], b[2]>>
           /\ SourceOf(b) = src
           /\ pc[b[1]] \in {"unbind", "enable", "done"}
<1>1. b \in byDapId
  BY DEF IInv, RequestsOK
<1>2. b \in Breakpoints
  BY <1>1 DEF IInv, TypeOK
<1>3. b[1] \in Requests /\ b[2] \in Lines /\ b = <<b[1], b[2]>>
  BY <1>2 DEF Breakpoints
<1> QED BY <1>1, <1>2, <1>3 DEF IInv, RequestsOK, SourcesOK

LEMMA BreakpointsTyped ==
    /\ \A ref \in Refs : ref[1] \in Breakpoints
    /\ \A b \in Breakpoints : b[1] \in Requests
BY DEF Refs, Breakpoints

LEMMA LiveOrDoomed ==
    ASSUME NEW c
    PROVE  /\ Removals(c) \subseteq Doomed(c)
           /\ \A ref \in Doomed(c) : \E i \in DOMAIN c : c[i].ref = ref
BY DEF Removals, Doomed

(* What a request that has come asks for stays. *)
RequestsStay ==
    \A r \in Requests : pc[r] # "idle" => pc'[r] # "idle" /\ args'[r] = args[r]

LEMMA OfRequestKept ==
    ASSUME RequestsStay, NEW ref, OfRequest(ref)
    PROVE  /\ OfRequest(ref)'
           /\ SourceOf(ref[1])' = SourceOf(ref[1])
           /\ args'[ref[1][1]] = args[ref[1][1]]
<1>1. ref[1][1] \in Requests /\ pc[ref[1][1]] # "idle"
  BY DEF OfRequest, Breakpoints
<1>2. /\ pc'[ref[1][1]] # "idle" /\ args'[ref[1][1]] = args[ref[1][1]]
  BY <1>1 DEF RequestsStay
<1> QED BY <1>2 DEF OfRequest, SourceOf

LEMMA MentionedKept ==
    ASSUME RequestsStay, parsed \subseteq parsed',
           \A ref \in Mentioned' : Sound(ref),
           \A where \in placing' : OfRequest(where),
           \A ref \in forgotten' : ref[2] \in Scripts
    PROVE  MentionedOK'
<1>1. ASSUME NEW ref \in Mentioned' PROVE Sound(ref)'
  <2>1. Sound(ref)
    OBVIOUS
  <2>2. OfRequest(ref)' /\ args'[ref[1][1]] = args[ref[1][1]]
    BY <2>1, OfRequestKept DEF Sound
  <2> QED BY <2>1, <2>2 DEF Sound, LineOf
<1>2. \A where \in placing' : OfRequest(where)'
  BY OfRequestKept
<1> QED BY <1>1, <1>2 DEF MentionedOK

LEMMA RemovalsKept ==
    ASSUME MentionedOK, RemovalsOK, RequestsStay,
           UNCHANGED <<filter, unbindWait>>, parsed \subseteq parsed',
           Doomed(wire') \subseteq Doomed(wire)
    PROVE  RemovalsOK'
<1> SUFFICES ASSUME filter = "all", NEW ref \in Doomed(wire')
             PROVE  \/ ref[2] = "path" /\ ~ ByPath(ref[1])'
                    \/ \E r \in Requests : ref \in unbindWait[r]
  BY DEF RemovalsOK
<1>1. ref \in Mentioned
  BY DEF Mentioned
<1>2. SourceOf(ref[1])' = SourceOf(ref[1])
  BY <1>1, OfRequestKept DEF MentionedOK, Sound
<1>3. ByPath(ref[1])' => ByPath(ref[1])
  BY <1>2 DEF ByPath, ScriptsOf
<1> QED BY <1>3 DEF RemovalsOK

-----------------------------------------------------------------------------
(* Where breakpoints are.                                                  *)

LEMMA ContestedKept ==
    ASSUME MentionedOK, RequestsStay, forgotten \subseteq forgotten',
           NEW ref, SourceOf(ref[1])' = SourceOf(ref[1]), Contested(ref)
    PROVE  Contested(ref)'
<1>1. Location(ref)' = Location(ref)
  BY DEF Location, LineOf
<1>2. CASE \E other \in forgotten : Location(other) = Location(ref)
  <2>1. PICK other \in forgotten : Location(other) = Location(ref)
    BY <1>2
  <2>2. OfRequest(other)
    BY DEF MentionedOK, Mentioned, Sound
  <2>3. Location(other)' = Location(other)
    BY <2>2, OfRequestKept DEF Location
  <2> QED BY <1>1, <2>1, <2>3 DEF Contested
<1>3. ASSUME NEW r \in Requests, NEW l \in Lines,
             pc[r] # "idle", args[r].src = SourceOf(ref[1]),
             l \in args[r].lines \ {LineOf(ref[1])},
             Location(<<<<r, l>>, ref[2]>>) = Location(ref)
      PROVE  Contested(ref)'
  <2>1. pc'[r] # "idle" /\ args'[r] = args[r]
    BY <1>3 DEF RequestsStay
  <2>2. Location(<<<<r, l>>, ref[2]>>)' = Location(<<<<r, l>>, ref[2]>>)
    BY <2>1 DEF Location, SourceOf
  <2> QED BY <1>1, <1>3, <2>1, <2>2 DEF Contested, LineOf
<1> QED BY <1>2, <1>3 DEF Contested

(* Nothing else is where a breakpoint that is not contested is, but for    *)
(* the breakpoints of earlier requests at that line.                       *)
LEMMA SameLine ==
    ASSUME NEW other, Sound(other), NEW ref, ~ Contested(ref),
           Location(other) = Location(ref)
    PROVE  /\ SourceOf(other[1]) = SourceOf(ref[1])
           /\ LineOf(other[1]) = LineOf(ref[1]) /\ other[2] = ref[2]
<1>1. SourceOf(other[1]) = SourceOf(ref[1]) /\ other[2] = ref[2]
  BY DEF Location
<1>2. /\ other[1][1] \in Requests /\ other[1][2] \in Lines
      /\ pc[other[1][1]] # "idle"
      /\ other[1][2] \in args[other[1][1]].lines
  BY DEF Sound, OfRequest, Breakpoints, LineOf
<1>3. Location(<<<<other[1][1], other[1][2]>>, ref[2]>>) = Location(other)
  BY <1>1 DEF Location, SourceOf, LineOf
<1>4. LineOf(other[1]) = LineOf(ref[1])
  BY <1>1, <1>2, <1>3 DEF Contested, SourceOf, LineOf
<1> QED BY <1>1, <1>4

(* The scripts that overlay the source agree. *)
LEMMA InPlaceByPath ==
    ASSUME NEW b \in Breakpoints, NEW s \in ScriptsOf(SourceOf(b)),
           s \in Scripts, parsed \subseteq Scripts, InPlace(b, s)
    PROVE  ByPath(b)
BY SpotAssumption DEF ByPath, ScriptsOf, InPlace, Breakpoints, LineOf

(* By path the lines of a source are all at places of their own. *)
LEMMA PathNotContested ==
    ASSUME MentionedOK, NEW b
    PROVE  ~ Contested(<<b, "path">>)
<1>1. \A other \in forgotten : Location(other) # Location(<<b, "path">>)
  BY ScriptsAssumption DEF MentionedOK, Location
<1>2. ASSUME NEW r \in Requests, NEW l \in Lines, l # LineOf(b)
      PROVE  Location(<<<<r, l>>, "path">>) # Location(<<b, "path">>)
  BY <1>2 DEF Location, LineOf
<1> QED BY <1>1, <1>2 DEF Contested

(* A breakpoint may be set at where, if that is how it is to be set.       *)
At(b, where) ==
    where \in alive \cup Lasting /\ (where = "path" => ByPath(b))

LEMMA BreakpointKept ==
    ASSUME NEW b, BreakpointOK(b), alive \subseteq Scripts,
           alive' \subseteq alive, UNCHANGED parsed,
           SourceOf(b)' = SourceOf(b), placing \subseteq placing',
           \A where : At(b, where) /\ where \in alive' \cup Lasting
                      /\ Held(<<b, where>>) => Held(<<b, where>>)',
           \A where \in alive' \cup Lasting :
              Contested(<<b, where>>) \/ Noted(<<b, where>>) =>
              Contested(<<b, where>>)' \/ Noted(<<b, where>>)',
           Noted(<<b, "path">>) => Noted(<<b, "path">>)'
    PROVE  BreakpointOK(b)'
<1>1. ScriptsOf(SourceOf(b))' = ScriptsOf(SourceOf(b))
  BY DEF ScriptsOf
<1>2. ByPath(b)' = ByPath(b)
  BY <1>1 DEF ByPath, InPlace, LineOf
<1>3. ASSUME NEW where \in alive' \cup Lasting,
             where = "path" => ByPath(b)'
      PROVE  Held(<<b, where>>)'
  <2>1. At(b, where)
    BY <1>2, <1>3 DEF At
  <2>2. Held(<<b, where>>)
    BY <2>1 DEF BreakpointOK, At
  <2> QED BY <2>1, <2>2
<1>4. ASSUME NEW s \in ScriptsOf(SourceOf(b)) \cap alive'
      PROVE  PlacedIn(b, s)'
  <2>1. PlacedIn(b, s)
    BY DEF BreakpointOK
  <2>2. Place[s] \in alive' \cup Lasting
    BY ScriptsAssumption DEF Lasting
  <2>3. InPlace(b, s)' = InPlace(b, s)
    BY DEF InPlace, LineOf
  <2> QED BY <2>1, <2>2, <2>3 DEF PlacedIn
<1>5. PlacedByPath(b)'
  BY <1>1 DEF BreakpointOK, PlacedByPath
<1> QED BY <1>1, <1>3, <1>4, <1>5 DEF BreakpointOK

(* A step in which nothing happens to b and its references.                *)
LEMMA BreakpointStays ==
    ASSUME MentionedOK, RequestsStay, forgotten \subseteq forgotten',
           NEW b \in Breakpoints, pc[b[1]] # "idle", BreakpointOK(b),
           alive \subseteq Scripts, UNCHANGED <<parsed, alive>>,
           placing \subseteq placing',
           \A where :
              /\ <<b, where>> \in pending' <=> <<b, where>> \in pending
              /\ <<b, where>> \in applied' <=> <<b, where>> \in applied
              /\ <<b, where>> \in LiveSets(wire) =>
                    <<b, where>> \in LiveSets(wire')
              /\ <<b, where>> \in v8 => <<b, where>> \in v8'
    PROVE  BreakpointOK(b)'
<1>1. SourceOf(b)' = SourceOf(b)
  BY DEF RequestsStay, Breakpoints, SourceOf
<1>2. ASSUME NEW where, Contested(<<b, where>>)
      PROVE  Contested(<<b, where>>)'
  BY <1>1, <1>2, ContestedKept
<1>3. ASSUME NEW where, Noted(<<b, where>>) PROVE Noted(<<b, where>>)'
  BY <1>3 DEF Noted
<1>4. ASSUME NEW where, Held(<<b, where>>) PROVE Held(<<b, where>>)'
  BY <1>2, <1>4 DEF Held
<1> QED BY <1>1, <1>2, <1>3, <1>4, BreakpointKept

(* Breakpoints that are enabled are placed.                                *)
LEMMA EnableSets ==
    ASSUME IInv, SInv, NEW bs \in SUBSET byDapId, Enable(bs),
           UNCHANGED <<args, scriptVars>>
    PROVE  /\ \A where \in placing' : OfRequest(where)
           /\ \A src \in Sources : \A b \in (byPath[src] \cap bs) \ enabled :
                 BreakpointOK(b)'
<1>1. /\ placing' = placing \cup
            {<<b, IF Known(SourceOf(b)) THEN "scripts" ELSE "path">> :
                b \in bs \ enabled}
      /\ UNCHANGED <<pending, applied>>
  BY DEF Enable
<1>2. \A b \in bs : pc[b[1]] # "idle" /\ b \in Breakpoints
  BY DEF IInv, RequestsOK, TypeOK
<1>3. ASSUME NEW src \in Sources, NEW b \in (byPath[src] \cap bs) \ enabled
      PROVE  BreakpointOK(b)'
  <2>1. /\ SourceOf(b) = src /\ UNCHANGED <<alive, loaded, parsed>>
        /\ SourceOf(b)' = src
    BY Created DEF SInv, scriptVars, SourceOf
  <2>2. \A where : /\ <<b, where>> \notin pending \cup applied
                   /\ <<b, where>> \notin pending' \cup applied'
    BY <1>1 DEF IInv, RefsOK
  <2>3. \A where : Held(<<b, where>>)'
    BY <2>2 DEF Held
  <2>4. ASSUME NEW s \in ScriptsOf(src) \cap alive PROVE PlacedIn(b, s)'
    <3>1. Known(src)
      BY DEF Known, ScriptsOf, IInv, TypeOK
    <3> QED BY <1>1, <2>1, <3>1 DEF PlacedIn
  <2>5. PlacedByPath(b)'
    <3>1. ScriptsOf(src) = {} => ~ Known(src)
      BY DEF Known, ScriptsOf, IInv, TypeOK
    <3> QED BY <1>1, <2>1, <3>1 DEF PlacedByPath, ScriptsOf
  <2> QED BY <2>1, <2>3, <2>4, <2>5 DEF BreakpointOK, ScriptsOf
<1>4. ASSUME NEW where \in placing', where \notin placing
      PROVE  OfRequest(where)
  BY <1>1, <1>2, <1>4, ScriptsAssumption DEF OfRequest
<1> QED BY <1>3, <1>4 DEF SInv, MentionedOK

-----------------------------------------------------------------------------
(* Placing a breakpoint.                                                   *)

(* b is set in the script s, or in all at once. *)
SetIn(b, s, refs) ==
    \/ <<b, Place[s]>> \in refs
    \/ Place[s] \in Urls /\ InPlace(b, s) /\ <<b, "path">> \in refs

(* Whoever was about to be placed by gone is in refs where it has to be.   *)
Covers(gone, refs) ==
    \A src \in Sources : \A b \in byPath[src] \cap enabled :
        /\ \A s \in ScriptsOf(src) \cap alive :
              gone \in {<<b, s>>, <<b, "scripts">>} => SetIn(b, s, refs)
        /\ ScriptsOf(src) = {} /\ gone = <<b, "path">> => gone \in refs

(* The places that gone was for are found: new are set, old are removed.   *)
LEMMA PlacedSets ==
    ASSUME IInv, IInv', SInv,
           NEW gone, NEW new, NEW old,
           placing' = placing \ {gone},
           pending' = (pending \cup new) \ old, applied' = applied \ old,
           LiveSets(wire') = (LiveSets(wire) \cup new) \ (old \cap pending),
           Doomed(wire') \subseteq Doomed(wire) \cup old,
           Lost(wire') = Lost(wire),
           filter = "none" => wire' = wire,
           new \cap (pending \cup applied) = {},
           \A ref \in new : Sound(ref),
           old \subseteq pending \cup applied,
           \A ref \in old : ref[2] = "path" /\ ~ ByPath(ref[1]),
           Covers(gone, new \cup pending \cup applied),
           UNCHANGED <<ready, filterVars, requestVars, managerVars, enabled,
                       v8, scriptVars>>
    PROVE  SInv'
<1>0. /\ UNCHANGED <<filter, profile, args, pc, rushed, unbindWait, byPath,
                     byDapId, enabled, v8, parsed, alive, forgotten>>
      /\ \A src : ScriptsOf(src)' = ScriptsOf(src)
      /\ \A b : SourceOf(b)' = SourceOf(b) /\ ByPath(b)' = ByPath(b)
      /\ \A ref : Contested(ref)' = Contested(ref)
      /\ alive \subseteq Scripts /\ parsed \subseteq Scripts
      /\ RequestsStay
  <2>1. UNCHANGED <<filter, profile, args, pc, rushed, unbindWait, byPath,
                    byDapId, enabled, v8, parsed, alive, forgotten>>
    BY DEF filterVars, requestVars, managerVars, scriptVars
  <2>2. \A src : ScriptsOf(src)' = ScriptsOf(src)
    BY <2>1 DEF ScriptsOf
  <2>3. \A b : SourceOf(b)' = SourceOf(b) /\ ByPath(b)' = ByPath(b)
    BY <2>1, <2>2 DEF SourceOf, ByPath, InPlace, LineOf
  <2>4. \A ref : Contested(ref)' = Contested(ref)
    BY <2>1 DEF Contested, Location, SourceOf, LineOf
  <2> QED BY <2>1, <2>2, <2>3, <2>4 DEF RequestsStay, IInv, TypeOK
<1>1. SourcesOK'
  BY SourcesKept DEF SInv
<1>2. EnabledOK'
  BY <1>0, EnabledKept DEF SInv
<1>3. DrainedOK'
  BY <1>0, DrainedKept DEF SInv
<1>4. MentionedOK'
  <2>1. \A ref \in Mentioned' : ref \in Mentioned \cup new
    BY <1>0 DEF Mentioned
  <2>2. \A ref \in Mentioned' : Sound(ref)
    BY <2>1 DEF SInv, MentionedOK
  <2> QED BY <1>0, <2>2, MentionedKept DEF SInv, MentionedOK
<1>5. RemovalsOK'
  BY <1>0 DEF SInv, RemovalsOK
<1>6. ScriptsOK'
  BY DEF SInv, ScriptsOK, scriptVars
<1>7. ASSUME filter = "all", ~ rushed, NEW src \in Sources,
             NEW b \in byPath[src] \cap enabled
      PROVE  BreakpointOK(b)'
  <2>1. BreakpointOK(b) /\ SourceOf(b) = src /\ b \in Breakpoints
    BY <1>7, Created DEF SInv, SetOK
  <2>2. ASSUME NEW where \in alive \cup Lasting, where = "path" => ByPath(b)
        PROVE  Held(<<b, where>>)'
    <3>1. Held(<<b, where>>)
      BY <2>1, <2>2 DEF BreakpointOK
    <3>2. <<b, where>> \notin old
      BY <2>2
    <3> QED BY <1>0, <3>1, <3>2 DEF Held
  <2>3. ASSUME NEW s \in ScriptsOf(src) \cap alive
        PROVE  PlacedIn(b, s)'
    <3>1. PlacedIn(b, s) /\ s \in Scripts
      BY <1>0, <2>1 DEF BreakpointOK
    <3>2. Place[s] # "path"
      BY <3>1, ScriptsAssumption
    <3>3. InPlace(b, s) => <<b, "path">> \notin old
      BY <1>0, <2>1, <3>1, InPlaceByPath
    <3>4. CASE {<<b, s>>, <<b, "scripts">>} \cap placing' # {}
      BY <3>4 DEF PlacedIn
    <3>5. CASE gone \in {<<b, s>>, <<b, "scripts">>}
      <4>1. SetIn(b, s, new \cup pending \cup applied)
        BY <3>5 DEF Covers
      <4> QED BY <3>2, <3>3, <4>1 DEF SetIn, PlacedIn, Noted, InPlace, LineOf
    <3>6. CASE /\ {<<b, s>>, <<b, "scripts">>} \cap placing' = {}
               /\ gone \notin {<<b, s>>, <<b, "scripts">>}
      BY <1>0, <3>1, <3>2, <3>3, <3>6 DEF PlacedIn, Noted, InPlace, LineOf
    <3> QED BY <3>4, <3>5, <3>6
  <2>4. PlacedByPath(b)'
    <3> SUFFICES ASSUME ScriptsOf(src) = {}
                 PROVE  <<b, "path">> \in placing' \/ Noted(<<b, "path">>)'
      BY <1>0, <2>1 DEF PlacedByPath
    <3>1. <<b, "path">> \notin old
      BY <2>1 DEF ByPath
    <3>2. <<b, "path">> \in placing \/ Noted(<<b, "path">>)
      BY <2>1 DEF BreakpointOK, PlacedByPath
    <3>3. gone = <<b, "path">> => gone \in new \cup pending \cup applied
      BY DEF Covers
    <3> QED BY <3>1, <3>2, <3>3 DEF Noted
  <2> QED BY <1>0, <2>1, <2>2, <2>3, <2>4 DEF BreakpointOK
<1>8. SetOK'
  BY <1>0, <1>7 DEF SetOK
<1> QED BY <1>1, <1>2, <1>3, <1>4, <1>5, <1>6, <1>8 DEF SInv

(* A reference of an enabled breakpoint in a script of its source.         *)
LEMMA NewSound ==
    ASSUME IInv, SInv, NEW ref, ref[1] \in enabled,
           ref[2] \in parsed \cup Lasting,
           ref[2] \in Scripts => ScriptSource[ref[2]] = SourceOf(ref[1])
    PROVE  Sound(ref)
<1>1. ref[1] \in byDapId /\ ref[1] \in Breakpoints
  BY DEF IInv, TypeOK
<1>2. pc[ref[1][1]] # "idle"
  BY <1>1 DEF IInv, RequestsOK
<1>3. LineOf(ref[1]) \in args[ref[1][1]].lines
  BY <1>1 DEF SInv, SourcesOK
<1> QED BY <1>1, <1>2, <1>3 DEF Sound, OfRequest

(* What is sent when refs are to be set. *)
LEMMA NewSent ==
    ASSUME IInv, NEW refs \in SUBSET Refs,
           wire' = wire \o Commanded("set", New(refs))
    PROVE  /\ LiveSets(wire') = LiveSets(wire) \cup New(refs)
           /\ Doomed(wire') = Doomed(wire) /\ Lost(wire') = Lost(wire)
           /\ filter = "none" => wire' = wire
           /\ New(refs) \in SUBSET refs
           /\ New(refs) \cap (pending \cup applied) = {}
           /\ \A ref \in New(refs) : ref[1] \in enabled
           /\ \A ref \in refs : ref[1] \in enabled =>
                                   ref \in New(refs) \cup pending \cup applied
<1>1. New(refs) \in SUBSET Refs
  BY DEF New
<1>2. Extended(wire', wire, "set", New(refs))
  BY <1>1, CommandsSent DEF IInv
<1>3. filter = "none" => New(refs) = {}
  BY NothingKnown DEF New
<1> QED BY <1>2, <1>3 DEF Extended, New

(* Nothing is removed. *)
LEMMA PlacedNew ==
    ASSUME IInv, IInv', SInv, NEW gone, NEW refs \in SUBSET Refs,
           placing' = placing \ {gone},
           pending' = pending \cup New(refs),
           wire' = wire \o Commanded("set", New(refs)),
           \A ref \in refs :
              /\ ref[2] \in parsed \cup Lasting
              /\ ref[2] \in Scripts => ScriptSource[ref[2]] = SourceOf(ref[1]),
           Covers(gone, New(refs) \cup pending \cup applied),
           UNCHANGED <<ready, filterVars, requestVars, managerVars, enabled,
                       applied, v8, scriptVars>>
    PROVE  SInv'
<1>1. /\ LiveSets(wire') = LiveSets(wire) \cup New(refs)
      /\ Doomed(wire') = Doomed(wire) /\ Lost(wire') = Lost(wire)
      /\ filter = "none" => wire' = wire
      /\ New(refs) \in SUBSET refs
      /\ New(refs) \cap (pending \cup applied) = {}
      /\ \A ref \in New(refs) : ref[1] \in enabled
  BY NewSent
<1>2. \A ref \in New(refs) : Sound(ref)
  BY <1>1, NewSound
<1> DEFINE new == New(refs)
           old == {}
<1>3. /\ pending' = (pending \cup new) \ old /\ applied' = applied \ old
      /\ LiveSets(wire') = (LiveSets(wire) \cup new) \ (old \cap pending)
      /\ Doomed(wire') \subseteq Doomed(wire) \cup old
      /\ old \subseteq pending \cup applied
      /\ \A ref \in old : ref[2] = "path" /\ ~ ByPath(ref[1])
  BY <1>1
<1> QED BY <1>1, <1>2, <1>3, PlacedSets

(* What is set where the scripts are is in the scripts of the source. *)
LEMMA ScriptRefsPlaced ==
    ASSUME NEW b \in Breakpoints, NEW scripts \in SUBSET parsed,
           parsed \subseteq Scripts,
           \A s \in scripts : ScriptSource[s] = SourceOf(b)
    PROVE  /\ ScriptRefs(b, scripts) \in SUBSET Refs
           /\ \A ref \in ScriptRefs(b, scripts) :
              /\ ref[1] = b
              /\ ref[2] \in parsed \cup Lasting
              /\ ref[2] \in Scripts => ScriptSource[ref[2]] = SourceOf(ref[1])
           /\ \A s \in scripts :
                 \/ <<b, Place[s]>> \in ScriptRefs(b, scripts)
                 \/ Place[s] \in Urls /\ InPlace(b, s) /\ Noted(<<b, "path">>)
<1>1. \A s \in scripts : Place[s] \in Scripts => Place[s] = s
  BY ScriptsAssumption
<1> QED BY <1>1, PlacesTyped DEF ScriptRefs, Noted

LEMMA PathSetSets ==
    ASSUME IInv, IInv', SInv,
           NEW b \in Breakpoints, PathSet(b)
    PROVE  SInv'
<1> DEFINE taken == \E s \in loaded : /\ Place[s] = s /\ InPlace(b, s)
                                      /\ <<b, s>> \in pending \cup applied
           refs == IF taken THEN {} ELSE {<<b, "path">>}
<1>1. /\ refs \in SUBSET Refs
      /\ \A ref \in refs : ref[2] = "path"
  BY DEF Refs, Lasting
<1>2. /\ placing' = placing \ {<<b, "path">>}
      /\ pending' = pending \cup New(refs)
      /\ wire' = wire \o Commanded("set", New(refs))
      /\ UNCHANGED <<ready, filterVars, requestVars, managerVars, enabled,
                     applied, v8, scriptVars>>
  BY DEF PathSet
<1>3. ASSUME ScriptsOf(SourceOf(b)) = {} PROVE ~ taken
  <2> SUFFICES ASSUME NEW s \in loaded, <<b, s>> \in pending \cup applied
               PROVE  FALSE
    OBVIOUS
  <2>1. Sound(<<b, s>>)
    BY DEF SInv, MentionedOK, Mentioned
  <2>2. s \in parsed /\ s \in Scripts
    BY DEF IInv, TypeOK
  <2> QED BY <1>3, <2>1, <2>2 DEF Sound, OfRequest, ScriptsOf
<1>4. ~ taken => <<b, "path">> \in refs
  OBVIOUS
<1> HIDE DEF refs, taken
<1>5. Covers(<<b, "path">>, New(refs) \cup pending \cup applied)
  <2> SUFFICES ASSUME NEW src \in Sources, NEW c \in byPath[src] \cap enabled
               PROVE  /\ \A s \in ScriptsOf(src) \cap alive :
                            <<b, "path">> \notin {<<c, s>>, <<c, "scripts">>}
                      /\ ScriptsOf(src) = {} /\ <<b, "path">> = <<c, "path">>
                         => <<b, "path">> \in New(refs) \cup pending
                                                        \cup applied
    BY DEF Covers
  <2>1. \A s \in ScriptsOf(src) \cap alive : s # "path"
    BY ScriptsAssumption DEF IInv, TypeOK
  <2>2. ASSUME ScriptsOf(src) = {}, b = c
        PROVE  <<b, "path">> \in New(refs) \cup pending \cup applied
    <3>1. SourceOf(b) = src
      BY <2>2, Created DEF SInv
    <3>2. <<b, "path">> \in refs
      BY <1>3, <1>4, <2>2, <3>1
    <3> QED BY <1>1, <1>2, <2>2, <3>2, NewSent
  <2> QED BY <2>1, <2>2
<1>6. \A ref \in refs :
         /\ ref[2] \in parsed \cup Lasting
         /\ ref[2] \in Scripts => ScriptSource[ref[2]] = SourceOf(ref[1])
  BY <1>1, ScriptsAssumption DEF Lasting
<1> QED BY <1>1, <1>2, <1>5, <1>6, PlacedNew

LEMMA ScriptsSetSets ==
    ASSUME IInv, IInv', SInv,
           NEW b \in Breakpoints, ScriptsSet(b)
    PROVE  SInv'
<1> DEFINE scripts == {s \in loaded : ScriptSource[s] = SourceOf(b)}
           refs == ScriptRefs(b, scripts)
<1>1. /\ placing' = placing \ {<<b, "scripts">>}
      /\ pending' = pending \cup New(refs)
      /\ wire' = wire \o Commanded("set", New(refs))
      /\ UNCHANGED <<ready, filterVars, requestVars, managerVars, enabled,
                     applied, v8, scriptVars>>
  BY DEF ScriptsSet
<1>2. /\ scripts \in SUBSET parsed /\ parsed \subseteq Scripts
      /\ alive \subseteq loaded /\ "scripts" \notin Scripts
      /\ \A s \in scripts : ScriptSource[s] = SourceOf(b)
      /\ \A s \in loaded : ScriptSource[s] = SourceOf(b) => s \in scripts
  BY ScriptsAssumption DEF IInv, TypeOK
<1> HIDE DEF scripts
<1>3. /\ refs \in SUBSET Refs
      /\ \A ref \in refs :
            /\ ref[1] = b
            /\ ref[2] \in parsed \cup Lasting
            /\ ref[2] \in Scripts => ScriptSource[ref[2]] = SourceOf(ref[1])
      /\ \A s \in scripts :
            \/ <<b, Place[s]>> \in refs
            \/ Place[s] \in Urls /\ InPlace(b, s) /\ Noted(<<b, "path">>)
  BY <1>2, ScriptRefsPlaced
<1> HIDE DEF refs
<1>4. ASSUME b \in enabled, NEW s \in scripts
      PROVE  SetIn(b, s, New(refs) \cup pending \cup applied)
  <2>1. <<b, Place[s]>> \in refs =>
           <<b, Place[s]>> \in New(refs) \cup pending \cup applied
    BY <1>1, <1>3, <1>4, NewSent
  <2> QED BY <1>3, <2>1 DEF SetIn, Noted
<1>5. Covers(<<b, "scripts">>, New(refs) \cup pending \cup applied)
  <2> SUFFICES ASSUME NEW src \in Sources, NEW c \in byPath[src] \cap enabled
               PROVE  /\ \A s \in ScriptsOf(src) \cap alive :
                            <<b, "scripts">> \in {<<c, s>>, <<c, "scripts">>}
                            => SetIn(c, s, New(refs) \cup pending
                                                     \cup applied)
                      /\ <<b, "scripts">> # <<c, "path">>
    BY DEF Covers
  <2> SUFFICES ASSUME NEW s \in ScriptsOf(src) \cap alive,
                      <<b, "scripts">> \in {<<c, s>>, <<c, "scripts">>}
               PROVE  SetIn(c, s, New(refs) \cup pending \cup applied)
    OBVIOUS
  <2>1. c = b
    OBVIOUS
  <2>2. SourceOf(b) = src
    BY <2>1, Created DEF SInv
  <2>3. s \in scripts
    BY <1>2, <2>2 DEF ScriptsOf
  <2> QED BY <1>4, <2>1, <2>3
<1> QED BY <1>1, <1>3, <1>5, PlacedNew

(* What was set by path is removed once a script of the source has the     *)
(* line elsewhere.                                                         *)
LEMMA UpdateForScriptSets ==
    ASSUME IInv, IInv', SInv,
           NEW b \in Breakpoints, NEW s \in Scripts, UpdateForScript(b, s)
    PROVE  SInv'
<1> DEFINE refs == ScriptRefs(b, loaded \cap {s})
           new == New(refs)
           old == IF s \in loaded \cap Overlaid /\ ~ InPlace(b, s)
                  THEN RefsOf({b}) \cap {<<b, "path">>} ELSE {}
           w == wire \o Commanded("set", new)
<1>1. /\ <<b, s>> \in placing
      /\ placing' = placing \ {<<b, s>>}
      /\ pending' = (pending \cup new) \ old
      /\ applied' = applied \ old
      /\ wire' = Removed(old, w)
      /\ UNCHANGED <<ready, filterVars, requestVars, managerVars, enabled,
                     v8, scriptVars>>
  BY DEF UpdateForScript
<1>2. /\ ScriptSource[s] = SourceOf(b)
      /\ loaded \subseteq parsed /\ parsed \subseteq Scripts
      /\ alive \subseteq loaded
  BY <1>1 DEF SInv, MentionedOK, OfRequest, IInv, TypeOK
<1>3. /\ refs \in SUBSET Refs
      /\ \A ref \in refs :
            /\ ref[1] = b
            /\ ref[2] \in parsed \cup Lasting
            /\ ref[2] \in Scripts => ScriptSource[ref[2]] = SourceOf(ref[1])
      /\ \A t \in loaded \cap {s} :
            \/ <<b, Place[t]>> \in refs
            \/ Place[t] \in Urls /\ InPlace(b, t) /\ Noted(<<b, "path">>)
  BY <1>2, ScriptRefsPlaced
<1>4. /\ old \in SUBSET Refs /\ old \subseteq pending \cup applied
      /\ filter = "none" => old = {}
      /\ \A ref \in old : ref[1] = b /\ ref[2] = "path"
  <2>1. /\ old \subseteq pending \cup applied
        /\ \A ref \in old : ref \in {<<b, "path">>}
    BY DEF RefsOf
  <2>2. pending \cup applied \subseteq Refs
    BY DEF IInv, TypeOK
  <2> HIDE DEF old
  <2> QED BY <2>1, <2>2, NothingKnown
<1>5. \A ref \in old : ref[2] = "path" /\ ~ ByPath(ref[1])
  BY <1>2, <1>4 DEF ByPath, ScriptsOf
<1> HIDE DEF refs, old
<1>6. /\ new \in SUBSET Refs /\ new \subseteq refs
      /\ new \cap (pending \cup applied) = {}
      /\ \A ref \in new : ref[1] \in enabled
      /\ filter = "none" => new = {}
      /\ \A ref \in refs : ref[1] \in enabled =>
                              ref \in new \cup pending \cup applied
  BY <1>3, NothingKnown DEF New
<1>7. Covers(<<b, s>>, new \cup pending \cup applied)
  <2> SUFFICES ASSUME NEW src \in Sources, NEW c \in byPath[src] \cap enabled
               PROVE  /\ \A t \in ScriptsOf(src) \cap alive :
                            <<b, s>> \in {<<c, t>>, <<c, "scripts">>}
                            => SetIn(c, t, new \cup pending \cup applied)
                      /\ <<b, s>> # <<c, "path">>
    BY DEF Covers
  <2>1. s # "path" /\ s # "scripts"
    BY ScriptsAssumption
  <2> SUFFICES ASSUME NEW t \in ScriptsOf(src) \cap alive,
                      <<b, s>> \in {<<c, t>>, <<c, "scripts">>}
               PROVE  SetIn(c, t, new \cup pending \cup applied)
    BY <2>1
  <2>2. c = b /\ t = s /\ s \in loaded
    BY <1>2, <2>1
  <2>3. \/ <<b, Place[s]>> \in refs
        \/ Place[s] \in Urls /\ InPlace(b, s) /\ Noted(<<b, "path">>)
    BY <1>3, <2>2
  <2> QED BY <1>3, <1>6, <2>2, <2>3 DEF SetIn, Noted
<1>8. \A ref \in new : Sound(ref)
  BY <1>3, <1>6, NewSound
<1> HIDE DEF new, w
<1>9. Extended(w, wire, "set", new)
  BY <1>6, CommandsSent DEF IInv, w
<1>10. Reduced(wire', w, old)
  BY <1>1, <1>4, <1>9, ReferencesRemoved DEF Extended
<1>11. /\ LiveSets(wire') = (LiveSets(wire) \cup new) \ (old \cap pending)
       /\ Doomed(wire') \subseteq Doomed(wire) \cup old
       /\ Lost(wire') = Lost(wire)
       /\ filter = "none" => wire' = wire
  BY <1>4, <1>6, <1>9, <1>10 DEF Extended, Reduced
<1> QED BY <1>1, <1>4, <1>5, <1>6, <1>7, <1>8, <1>11, PlacedSets

-----------------------------------------------------------------------------
(* The filter.                                                             *)

LEMMA FilterNoneSets ==
    ASSUME IInv, IInv', SInv, FilterNone
    PROVE  SInv'
<1>1. /\ filter = "all" /\ filter' = "none" /\ UNCHANGED profile
      /\ Disable(byDapId)
      /\ UNCHANGED <<ready, requestVars, managerVars, v8, scriptVars>>
  BY DEF FilterNone
<1>2. /\ enabled' \subseteq enabled /\ placing' = placing
      /\ pending' \subseteq pending /\ applied' \subseteq applied
      /\ Reduced(wire', wire, RefsOf(byDapId))
  BY <1>1, DisableKeeps
<1>3. SourcesOK'
  BY <1>1, SourcesKept DEF SInv
<1>4. EnabledOK'
  BY <1>1, <1>2 DEF SInv, EnabledOK, Coming, requestVars, managerVars
<1>5. DrainedOK'
  <2>1. profile' = 0
    BY <1>1 DEF SInv, DrainedOK
  <2>2. \A i \in DOMAIN wire' : wire'[i].kind # "profile"
    BY <1>1, <1>2 DEF IInv, ProfilerOK, Reduced, Followed
  <2> QED BY <1>1, <2>1, <2>2 DEF DrainedOK
<1>6. MentionedOK'
  <2>1. Mentioned' \subseteq Mentioned
    <3>1. /\ LiveSets(wire') \subseteq LiveSets(wire)
          /\ Lost(wire') = Lost(wire)
          /\ Doomed(wire') \subseteq Doomed(wire) \cup pending \cup applied
      BY <1>2 DEF Reduced, RefsOf
    <3> QED BY <1>1, <1>2, <3>1 DEF Mentioned, scriptVars
  <2>2. RequestsStay /\ UNCHANGED <<parsed, forgotten>>
    BY <1>1 DEF RequestsStay, requestVars, scriptVars
  <2> QED BY <1>2, <2>1, <2>2, MentionedKept DEF SInv, MentionedOK
<1>7. RemovalsOK' /\ SetOK' /\ ScriptsOK'
  BY <1>1 DEF RemovalsOK, SetOK, SInv, ScriptsOK, scriptVars
<1> QED BY <1>3, <1>4, <1>5, <1>6, <1>7 DEF SInv

LEMMA ProfilerAskedSets ==
    ASSUME IInv, IInv', SInv, ProfilerAsked
    PROVE  SInv'
<1>1. /\ filter = "none" /\ profile < 2
      /\ \A i \in DOMAIN wire : wire[i].kind # "profile"
      /\ wire' = Append(wire, ProfilerCommand)
      /\ UNCHANGED <<ready, filterVars, requestVars, managerVars, enabled,
                     placing, pending, applied, v8, scriptVars>>
  BY DEF ProfilerAsked
<1>2. ProfilerCommand.kind = "profile" /\ ~ ProfilerCommand.dead
  BY DEF ProfilerCommand
<1> HIDE DEF ProfilerCommand
<1>3. /\ Len(wire) \in Nat /\ DOMAIN wire = 1..Len(wire)
      /\ Len(wire') = Len(wire) + 1 /\ DOMAIN wire' = 1..(Len(wire) + 1)
      /\ \A i \in DOMAIN wire : wire'[i] = wire[i]
      /\ wire'[Len(wire) + 1].kind = "profile"
      /\ ~ wire'[Len(wire) + 1].dead
  BY <1>1, <1>2 DEF IInv
<1>4. SourcesOK' /\ EnabledOK'
  BY <1>1, SourcesKept, EnabledKept DEF SInv, filterVars
<1>5. DrainedOK'
  <2>1. profile' = profile /\ filter' = "none" /\ profile' \in {0, 1}
    BY <1>1 DEF filterVars, IInv, TypeOK
  <2>2. \A i \in DOMAIN wire' : wire'[i].kind = "profile" => i = Len(wire) + 1
    BY <1>1, <1>3
  <2>3. \A i \in DOMAIN wire' : wire'[i].kind \in {"set", "lost"} =>
           /\ i \in DOMAIN wire /\ i < Len(wire) + 1
           /\ wire[i].kind \in {"set", "lost"}
    BY <1>3
  <2> QED BY <1>3, <2>1, <2>2, <2>3 DEF SInv, DrainedOK
<1>6. MentionedOK'
  <2>1. /\ LiveSets(wire') = LiveSets(wire) /\ Doomed(wire') = Doomed(wire)
        /\ Lost(wire') = Lost(wire)
    BY <1>3 DEF LiveSets, Doomed, Lost
  <2>2. Mentioned' = Mentioned
    BY <1>1, <2>1 DEF Mentioned, scriptVars
  <2>3. RequestsStay /\ UNCHANGED <<parsed, forgotten, placing>>
    BY <1>1 DEF RequestsStay, requestVars, scriptVars
  <2> QED BY <2>2, <2>3, MentionedKept DEF SInv, MentionedOK
<1>7. RemovalsOK' /\ SetOK' /\ ScriptsOK'
  BY <1>1 DEF RemovalsOK, SetOK, filterVars, SInv, ScriptsOK, scriptVars
<1> QED BY <1>4, <1>5, <1>6, <1>7 DEF SInv

LEMMA ProfilerAnsweredSets ==
    ASSUME IInv, IInv', SInv, ProfilerAnswered
    PROVE  SInv'
<1> DEFINE h == Head(wire)
           t == Tail(wire)
<1>1. /\ wire # << >> /\ h.kind = "profile"
      /\ wire' = t /\ profile' = profile + 1
      /\ UNCHANGED <<ready, filter, filterWait, filters, requestVars,
                     managerVars, enabled, placing, pending, applied, v8,
                     scriptVars>>
  BY DEF ProfilerAnswered
<1>2. Shortened(t, h, wire)
  BY <1>1, CommandAnswered DEF IInv
<1> HIDE DEF h, t
<1>3. filter = "none" /\ profile \in {0, 1}
  <2>1. filter = "none" /\ profile < 2
    BY <1>1, <1>2 DEF IInv, ProfilerOK, Shortened
  <2>2. profile \in 0..2
    BY DEF IInv, TypeOK
  <2> QED BY <2>1, <2>2
<1>4. SourcesOK' /\ EnabledOK'
  BY <1>1, SourcesKept, EnabledKept DEF SInv
<1>5. DrainedOK'
  <2>1. 1 \in DOMAIN wire /\ wire[1].kind = "profile"
    BY <1>1, <1>2 DEF Shortened
  <2>2. \A j \in DOMAIN wire :
           /\ wire[j].kind = "profile" => j = 1
           /\ wire[j].kind \in {"set", "lost"} => j < 1
    BY <2>1 DEF IInv, ProfilerOK, SInv, DrainedOK
  <2>3. ASSUME NEW i \in DOMAIN t
        PROVE  t[i].kind # "profile" /\ t[i].kind \notin {"set", "lost"}
    <3>1. /\ i \in Nat \ {0} /\ i + 1 \in DOMAIN wire /\ t[i] = wire[i + 1]
      BY <1>2 DEF Shortened
    <3>2. i + 1 # 1 /\ ~ (i + 1 < 1)
      BY <3>1
    <3> QED BY <2>2, <3>1, <3>2
  <2>4. ASSUME profile = 1 PROVE t = << >>
    <3>1. Len(wire) = 1
      BY <2>1, <2>4 DEF SInv, DrainedOK
    <3>2. t \in Seq(Commands) /\ Len(t) + 1 = 1
      BY <1>2, <3>1 DEF Shortened
    <3>3. Len(t) = 0
      BY <3>2
    <3> QED BY <3>2, <3>3
  <2> QED BY <1>1, <1>3, <2>3, <2>4 DEF DrainedOK
<1>6. MentionedOK'
  <2>1. /\ LiveSets(t) \subseteq LiveSets(wire)
        /\ Doomed(t) \subseteq Doomed(wire) /\ Lost(t) \subseteq Lost(wire)
    BY <1>2 DEF Shortened
  <2>2. Mentioned' \subseteq Mentioned
    BY <1>1, <2>1 DEF Mentioned, scriptVars
  <2>3. RequestsStay /\ UNCHANGED <<parsed, forgotten, placing>>
    BY <1>1 DEF RequestsStay, requestVars, scriptVars
  <2> QED BY <2>2, <2>3, MentionedKept DEF SInv, MentionedOK
<1>7. RemovalsOK' /\ SetOK' /\ ScriptsOK'
  BY <1>1, <1>3 DEF RemovalsOK, SetOK, SInv, ScriptsOK, scriptVars
<1> QED BY <1>4, <1>5, <1>6, <1>7 DEF SInv

(* All are enabled again: nothing is on the wire, so that no request waits *)
(* for a removal.                                                          *)
LEMMA FilterAllSets ==
    ASSUME IInv, IInv', SInv, FilterAll
    PROVE  SInv'
<1>1. /\ ~ Busy /\ filter = "none" /\ profile = 2
      /\ filter' = "all" /\ profile' = 0
      /\ Enable(byDapId)
      /\ UNCHANGED <<ready, requestVars, managerVars, v8, scriptVars>>
  BY DEF FilterAll, Filters
<1>2. /\ wire = << >> /\ UNCHANGED <<wire, pending, applied>>
      /\ UNCHANGED <<args, byPath>>
  BY <1>1 DEF SInv, DrainedOK, Enable, requestVars, managerVars
<1>3. /\ enabled = {} /\ pending = {} /\ applied = {}
      /\ enabled' = byDapId
  BY <1>1, NothingKnown DEF Enable
<1>4. SourcesOK' /\ ScriptsOK'
  BY <1>1, SourcesKept DEF SInv, ScriptsOK, scriptVars
<1>5. EnabledOK'
  <2>1. \A r \in Requests : pc[r] # "unbind"
    BY <1>1, <1>2 DEF Busy, Unbindable, OnWire
  <2>2. \A b \in byDapId : b[1] \in Requests
    BY DEF IInv, TypeOK, Breakpoints
  <2> QED BY <1>1, <1>3, <2>1, <2>2
          DEF SInv, EnabledOK, Coming, requestVars, managerVars
<1>6. DrainedOK'
  BY <1>1, <1>2 DEF DrainedOK
<1>7. /\ \A where \in placing' : OfRequest(where)
      /\ \A src \in Sources : \A b \in (byPath[src] \cap byDapId) \ enabled :
            BreakpointOK(b)'
  BY <1>1, <1>2, EnableSets
<1>8. MentionedOK'
  <2>1. Mentioned' = Mentioned
    BY <1>1, <1>2 DEF Mentioned, scriptVars
  <2>2. RequestsStay /\ UNCHANGED <<parsed, forgotten>>
    BY <1>1 DEF RequestsStay, requestVars, scriptVars
  <2> QED BY <1>7, <2>1, <2>2, MentionedKept DEF SInv, MentionedOK
<1>9. RemovalsOK'
  BY <1>2 DEF RemovalsOK, Doomed
<1>10. SetOK'
  BY <1>2, <1>3, <1>7 DEF SetOK
<1> QED BY <1>4, <1>5, <1>6, <1>8, <1>9, <1>10 DEF SInv

-----------------------------------------------------------------------------
(* V8.                                                                     *)

(* Nothing happens. *)
LEMMA NothingSets ==
    ASSUME IInv, IInv', SInv,
           UNCHANGED <<filterVars, requestVars, managerVars, refVars, v8,
                       scriptVars>>
    PROVE  SInv'
<1>1. SourcesOK' /\ EnabledOK' /\ DrainedOK'
  BY SourcesKept, EnabledKept, DrainedKept DEF SInv, filterVars, refVars
<1>2. /\ RequestsStay
      /\ UNCHANGED <<filter, rushed, pc, args, byPath, unbindWait, enabled,
                     placing, pending, applied, wire, v8, forgotten, alive,
                     loaded, parsed, cleared>>
  BY DEF RequestsStay, filterVars, requestVars, managerVars, refVars,
         scriptVars
<1>3. MentionedOK' /\ RemovalsOK' /\ ScriptsOK'
  <2>1. Mentioned' = Mentioned
    BY <1>2 DEF Mentioned
  <2> QED BY <1>2, <2>1, MentionedKept, RemovalsKept
          DEF SInv, MentionedOK, ScriptsOK
<1>4. ASSUME filter = "all", ~ rushed, NEW src \in Sources,
             NEW b \in byPath[src] \cap enabled
      PROVE  BreakpointOK(b)'
  <2>1. /\ b \in Breakpoints /\ pc[b[1]] # "idle" /\ BreakpointOK(b)
        /\ alive \subseteq Scripts
    BY <1>4, Created DEF SInv, SetOK, IInv, TypeOK
  <2> QED BY <1>2, <2>1, BreakpointStays DEF SInv
<1>5. SetOK'
  BY <1>2, <1>4 DEF SetOK
<1> QED BY <1>1, <1>3, <1>5 DEF SInv

LEMMA DebuggerReadySets ==
    ASSUME IInv, IInv', SInv, DebuggerReady
    PROVE  SInv'
BY NothingSets DEF DebuggerReady

(* What is removed at a line of a source that is not rushed is at no line  *)
(* of its breakpoints.                                                     *)
LEMMA RemovedElsewhere ==
    ASSUME IInv, SInv, filter = "all", ~ rushed,
           NEW ref \in Doomed(wire), NEW src \in Sources, NEW b \in byPath[src],
           NEW where, At(b, where), ~ Contested(<<b, where>>),
           Location(ref) = Location(<<b, where>>)
    PROVE  FALSE
<1>1. SourceOf(b) = src
  BY Created DEF SInv
<1>2. Sound(ref)
  BY DEF SInv, MentionedOK, Mentioned
<1>3. SourceOf(ref[1]) = src /\ LineOf(ref[1]) = LineOf(b) /\ ref[2] = where
  BY <1>1, <1>2, SameLine
<1>4. where = "path" => ByPath(ref[1])
  BY <1>1, <1>3 DEF At, ByPath, InPlace
<1>5. PICK r \in Requests : ref \in unbindWait[r]
  BY <1>3, <1>4 DEF SInv, RemovalsOK
<1>6. args[r].src = src /\ \A c \in byPath[src] : LineOf(c) # LineOf(ref[1])
  BY <1>3, <1>5 DEF SInv, SourcesOK
<1> QED BY <1>3, <1>6

(* V8 has no other breakpoint at a place where one is being set.           *)
LEMMA SpotIsFree ==
    ASSUME IInv, SInv, filter = "all", ~ rushed,
           NEW src \in Sources, NEW b \in byPath[src],
           NEW where, At(b, where), ~ Contested(<<b, where>>),
           <<b, where>> \in pending
    PROVE  Accepts(<<b, where>>)
<1>1. ASSUME NEW other \in v8, Location(other) = Location(<<b, where>>)
      PROVE  FALSE
  <2>1. other \notin Removals(wire)
    BY <1>1, LiveOrDoomed, RemovedElsewhere
  <2>2. other \notin forgotten
    BY <1>1 DEF Contested
  <2>3. other \in applied /\ other[1] \in enabled
    BY <2>1, <2>2 DEF IInv, RefsOK
  <2>4. Sound(other)
    BY DEF SInv, MentionedOK, Mentioned
  <2>5. /\ SourceOf(other[1]) = SourceOf(b) /\ SourceOf(b) = src
        /\ LineOf(other[1]) = LineOf(b) /\ other[2] = where
    BY <1>1, <2>4, SameLine, Created DEF SInv
  <2>6. other[1] \in byPath[src]
    BY <2>3, <2>5 DEF IInv, TypeOK, SInv, SourcesOK
  <2>7. other[1] = b
    BY <2>5, <2>6 DEF SInv, SourcesOK
  <2>8. other = <<b, where>>
    <3>1. other \in Refs
      BY DEF IInv, TypeOK
    <3>2. other = <<other[1], other[2]>>
      BY <3>1 DEF Refs
    <3> QED BY <2>5, <2>7, <3>2
  <2> QED BY <2>3, <2>8 DEF IInv, TypeOK
<1> QED BY <1>1 DEF Accepts, At

LEMMA SetAnsweredSets ==
    ASSUME IInv, IInv', SInv, SetAnswered
    PROVE  SInv'
<1> DEFINE m == Head(wire)
           t == Tail(wire)
           known == Recorded(m)
           back == IF m.dead THEN {m.ref} ELSE {}
<1>1. /\ ~ Busy /\ wire # << >> /\ m.kind \in {"set", "lost"}
      /\ \/ /\ Accepts(m.ref)
            /\ v8' = v8 \cup {m.ref}
            /\ pending' = pending \ known
            /\ applied' = applied \cup known
            /\ wire' = t \o Commanded("remove", back)
         \/ /\ ~ Accepts(m.ref)
            /\ wire' = t
            /\ UNCHANGED <<v8, pending, applied>>
      /\ UNCHANGED <<ready, filterVars, requestVars, managerVars, enabled,
                     placing, scriptVars>>
  BY DEF SetAnswered
<1>2. Shortened(t, m, wire)
  BY <1>1, CommandAnswered DEF IInv
<1>a. /\ known \subseteq {m.ref} /\ known \subseteq pending
      /\ m.kind = "set" /\ ~ m.dead => known = {m.ref} \cap pending
  BY <1>1 DEF Recorded
<1> HIDE DEF m, t, known
<1>3. m.ref \in Refs /\ m.dead \in BOOLEAN
  BY <1>1, <1>2 DEF Shortened, Commands, ProfilerCommand
<1>4. ASSUME wire' = t \o Commanded("remove", back)
      PROVE  Extended(wire', t, "remove", back)
  <2>1. back \in SUBSET Refs
    BY <1>3
  <2> HIDE DEF back
  <2> QED BY <1>2, <1>4, <2>1, CommandsSent DEF Shortened
<1> DEFINE live == IF m.kind = "set" /\ ~ m.dead THEN {m.ref} ELSE {}
<1>5. /\ m.ref \in LiveSets(wire) \cup Doomed(wire) \cup Lost(wire)
      /\ m.dead => m.ref \in Doomed(wire)
      /\ LiveSets(wire) = LiveSets(t) \cup live
      /\ LiveSets(wire') = LiveSets(t) /\ LiveSets(t) \subseteq LiveSets(wire)
      /\ Doomed(wire') \subseteq Doomed(wire)
      /\ Lost(wire') \subseteq Lost(wire)
      /\ Followed(wire', t, "remove")
  <2>1. /\ LiveSets(wire) = LiveSets(t) \cup live
        /\ Doomed(wire) = Doomed(t) \cup back
        /\ Lost(wire) = Lost(t) \cup (IF m.kind = "lost" THEN {m.ref} ELSE {})
    BY <1>1, <1>2 DEF Shortened
  <2>2. CASE wire' = t \o Commanded("remove", back)
    BY <1>1, <1>3, <1>4, <2>1, <2>2 DEF Extended
  <2>3. CASE wire' = t
    BY <1>1, <1>3, <2>1, <2>3 DEF Followed
  <2> QED BY <1>1, <2>2, <2>3
<1>6. /\ UNCHANGED <<filter, profile, args, pc, rushed, unbindWait, byPath,
                     enabled, placing, loaded, parsed, alive, forgotten,
                     cleared>>
      /\ v8 \subseteq v8' /\ RequestsStay /\ alive \subseteq Scripts
  BY <1>1 DEF filterVars, requestVars, managerVars, scriptVars, RequestsStay,
              IInv, TypeOK
<1>7. SourcesOK' /\ EnabledOK' /\ ScriptsOK'
  BY <1>1, <1>6, SourcesKept, EnabledKept DEF SInv, ScriptsOK
<1>8. DrainedOK'
  <2>1. 1 \in DOMAIN wire /\ wire[1].kind \in {"set", "lost"}
    BY <1>1, <1>2 DEF Shortened
  <2>2. profile = 0
    <3>1. profile # 1 /\ profile # 2
      BY <1>1, <2>1 DEF SInv, DrainedOK
    <3> QED BY <3>1 DEF IInv, TypeOK
  <2>3. ASSUME NEW i \in DOMAIN wire', wire'[i].kind = "profile",
               NEW j \in DOMAIN wire', wire'[j].kind \in {"set", "lost"}
        PROVE  j < i
    <3>1. /\ i \in DOMAIN t /\ t[i].kind = "profile"
          /\ j \in DOMAIN t /\ t[j].kind \in {"set", "lost"}
      BY <1>5, <2>3 DEF Followed
    <3>2. /\ i \in Nat /\ i + 1 \in DOMAIN wire /\ t[i] = wire[i + 1]
          /\ j \in Nat /\ j + 1 \in DOMAIN wire /\ t[j] = wire[j + 1]
      BY <1>2, <3>1 DEF Shortened
    <3>3. j + 1 < i + 1
      BY <3>1, <3>2 DEF SInv, DrainedOK
    <3> QED BY <3>2, <3>3
  <2> QED BY <1>6, <2>2, <2>3 DEF DrainedOK
<1>9. MentionedOK'
  <2>1. Mentioned' \subseteq Mentioned
    BY <1>1, <1>a, <1>5, <1>6 DEF Mentioned
  <2> QED BY <1>6, <2>1, MentionedKept DEF SInv, MentionedOK
<1>10. RemovalsOK'
  BY <1>5, <1>6, RemovalsKept DEF SInv
<1>11. ASSUME filter = "all", ~ rushed, NEW src \in Sources,
              NEW b \in byPath[src] \cap enabled
       PROVE  BreakpointOK(b)'
  <2>1. BreakpointOK(b) /\ b \in Breakpoints
    BY <1>11, Created DEF SInv, SetOK
  <2>2. SourceOf(b)' = SourceOf(b)
    BY <1>6 DEF SourceOf
  <2>3. \A where : Noted(<<b, where>>) => Noted(<<b, where>>)'
    BY <1>1, <1>a DEF Noted
  <2>4. ASSUME NEW where, Contested(<<b, where>>)
        PROVE  Contested(<<b, where>>)'
    BY <1>6, <2>2, <2>4, ContestedKept DEF SInv
  <2>5. ASSUME NEW where, At(b, where), Held(<<b, where>>),
               ~ Contested(<<b, where>>)
        PROVE  Held(<<b, where>>)'
    <3>1. <<b, where>> \in applied' => <<b, where>> \in v8'
      BY <1>1, <1>a, <1>6, <2>5 DEF Held
    <3>2. ASSUME <<b, where>> \in pending'
          PROVE  <<b, where>> \in LiveSets(wire')
      <4>1. <<b, where>> \in pending /\ <<b, where>> \in LiveSets(wire)
        BY <1>1, <2>5, <3>2 DEF Held
      <4>2. Accepts(<<b, where>>)
        BY <1>11, <2>5, <4>1, SpotIsFree
      <4>3. <<b, where>> \notin live
        BY <1>1, <1>a, <3>2, <4>1, <4>2
      <4> QED BY <1>5, <4>1, <4>3
    <3> QED BY <3>1, <3>2 DEF Held
  <2>6. ASSUME NEW where, At(b, where), Held(<<b, where>>)
        PROVE  Held(<<b, where>>)'
    BY <2>4, <2>5, <2>6 DEF Held
  <2> QED BY <1>6, <2>1, <2>2, <2>3, <2>4, <2>6, BreakpointKept
<1>12. SetOK'
  BY <1>6, <1>11 DEF SetOK
<1> QED BY <1>7, <1>8, <1>9, <1>10, <1>12 DEF SInv

LEMMA RemoveAnsweredSets ==
    ASSUME IInv, IInv', SInv, RemoveAnswered
    PROVE  SInv'
<1> DEFINE m == Head(wire)
           t == Tail(wire)
<1>1. /\ wire # << >> /\ m.kind = "remove"
      /\ v8' = {ref \in v8 : Location(ref) # Location(m.ref)}
      /\ wire' = t
      /\ UNCHANGED <<ready, filterVars, requestVars, managerVars, enabled,
                     placing, pending, applied, scriptVars>>
  BY DEF RemoveAnswered
<1>2. Shortened(t, m, wire)
  BY <1>1, CommandAnswered DEF IInv
<1> HIDE DEF m, t
<1>3. /\ m.ref \in Doomed(wire)
      /\ LiveSets(t) = LiveSets(wire) /\ Doomed(t) \subseteq Doomed(wire)
      /\ Lost(t) \subseteq Lost(wire)
  BY <1>1, <1>2 DEF Shortened
<1>4. /\ UNCHANGED <<filter, profile, args, pc, rushed, unbindWait, byPath,
                     enabled, placing, pending, applied, loaded, parsed, alive,
                     forgotten, cleared>>
      /\ v8' \subseteq v8 /\ RequestsStay /\ alive \subseteq Scripts
  BY <1>1 DEF filterVars, requestVars, managerVars, scriptVars, RequestsStay,
              IInv, TypeOK
<1>5. SourcesOK' /\ EnabledOK' /\ ScriptsOK'
  BY <1>1, <1>4, SourcesKept, EnabledKept DEF SInv, ScriptsOK
<1>6. DrainedOK'
  <2>1. /\ 1 \in DOMAIN wire /\ wire # << >>
        /\ Len(wire') \in Nat /\ Len(wire) = Len(wire') + 1
        /\ \A i \in DOMAIN wire' : /\ i \in Nat /\ i + 1 \in DOMAIN wire
                                   /\ wire'[i] = wire[i + 1]
    BY <1>1, <1>2 DEF Shortened
  <2>2. profile # 2
    BY <2>1 DEF SInv, DrainedOK
  <2>3. ASSUME NEW i \in DOMAIN wire', wire'[i].kind = "profile"
        PROVE  /\ \A j \in DOMAIN wire' :
                     wire'[j].kind \in {"set", "lost"} => j < i
               /\ profile = 1 => i = Len(wire')
    <3>1. /\ \A j \in DOMAIN wire :
                wire[j].kind \in {"set", "lost"} => j < i + 1
          /\ profile = 1 => i + 1 = Len(wire)
      BY <2>1, <2>3 DEF SInv, DrainedOK
    <3> QED BY <2>1, <3>1
  <2>4. profile = 1 =>
           \A i \in DOMAIN wire' : wire'[i].kind \notin {"set", "lost"}
    BY <2>1 DEF SInv, DrainedOK
  <2> QED BY <1>4, <2>2, <2>3, <2>4 DEF SInv, DrainedOK
<1>7. MentionedOK'
  <2>1. Mentioned' \subseteq Mentioned
    BY <1>1, <1>3, <1>4 DEF Mentioned
  <2> QED BY <1>4, <2>1, MentionedKept DEF SInv, MentionedOK
<1>8. RemovalsOK'
  BY <1>1, <1>3, <1>4, RemovalsKept DEF SInv
<1>9. ASSUME filter = "all", ~ rushed, NEW src \in Sources,
             NEW b \in byPath[src] \cap enabled
      PROVE  BreakpointOK(b)'
  <2>1. BreakpointOK(b) /\ b \in Breakpoints
    BY <1>9, Created DEF SInv, SetOK
  <2>2. SourceOf(b)' = SourceOf(b)
    BY <1>4 DEF SourceOf
  <2>3. \A where : Noted(<<b, where>>) => Noted(<<b, where>>)'
    BY <1>1 DEF Noted
  <2>4. ASSUME NEW where, Contested(<<b, where>>)
        PROVE  Contested(<<b, where>>)'
    BY <1>4, <2>2, <2>4, ContestedKept DEF SInv
  <2>5. ASSUME NEW where, At(b, where), Held(<<b, where>>),
               ~ Contested(<<b, where>>)
        PROVE  Held(<<b, where>>)'
    <3>1. Location(m.ref) # Location(<<b, where>>)
      BY <1>3, <1>9, <2>5, RemovedElsewhere
    <3> QED BY <1>1, <1>3, <1>4, <2>5, <3>1 DEF Held
  <2>6. ASSUME NEW where, At(b, where), Held(<<b, where>>)
        PROVE  Held(<<b, where>>)'
    BY <2>4, <2>5, <2>6 DEF Held
  <2> QED BY <1>4, <2>1, <2>2, <2>3, <2>4, <2>6, BreakpointKept
<1>10. SetOK'
  BY <1>4, <1>9 DEF SetOK
<1> QED BY <1>5, <1>6, <1>7, <1>8, <1>10 DEF SInv

(* The handler is there, so that a new script gets the breakpoints of its  *)
(* source.                                                                 *)
LEMMA ScriptParsedSets ==
    ASSUME IInv, IInv', SInv,
           NEW new \in Scripts, ScriptParsed(new)
    PROVE  SInv'
<1>1. /\ new \notin parsed
      /\ parsed' = parsed \cup {new} /\ alive' = alive \cup {new}
      /\ loaded' = loaded \cup {new}
      /\ placing' = placing \cup
            {<<b, new>> : b \in IF handler THEN byPath[ScriptSource[new]]
                                ELSE {}}
      /\ UNCHANGED <<ready, filterVars, requestVars, managerVars, enabled,
                     pending, applied, wire, v8, forgotten, cleared>>
  BY DEF ScriptParsed
<1>2. /\ UNCHANGED <<filter, profile, args, pc, rushed, unbindWait, byPath>>
      /\ RequestsStay /\ parsed \subseteq Scripts
      /\ new \notin Lasting
  <2>1. UNCHANGED <<filter, profile, args, pc, rushed, unbindWait, byPath>>
    BY <1>1 DEF filterVars, requestVars, managerVars
  <2> QED BY <2>1, ScriptsAssumption
          DEF RequestsStay, Lasting, IInv, TypeOK
<1>3. SourcesOK' /\ EnabledOK' /\ DrainedOK' /\ ScriptsOK'
  BY <1>1, <1>2, SourcesKept, EnabledKept, DrainedKept DEF SInv, ScriptsOK
<1>4. \A ref \in Mentioned : ref[2] # new
  BY <1>1, <1>2 DEF SInv, MentionedOK, Sound
<1>5. MentionedOK'
  <2>1. ASSUME NEW b \in byPath[ScriptSource[new]]
        PROVE  OfRequest(<<b, new>>)
    <3>1. ScriptSource[new] \in Sources
      BY ScriptsAssumption
    <3>2. /\ b \in Breakpoints /\ SourceOf(b) = ScriptSource[new]
          /\ pc[b[1]] # "idle"
      BY <3>1, Created DEF SInv
    <3> QED BY <3>2 DEF OfRequest
  <2>2. \A where \in placing' : OfRequest(where)
    BY <1>1, <2>1 DEF SInv, MentionedOK
  <2>3. Mentioned' = Mentioned
    BY <1>1 DEF Mentioned
  <2> QED BY <1>1, <1>2, <2>2, <2>3, MentionedKept DEF SInv, MentionedOK
<1>6. RemovalsOK'
  BY <1>1, <1>2, RemovalsKept DEF SInv
<1>7. ASSUME filter = "all", ~ rushed, NEW src \in Sources,
             NEW b \in byPath[src] \cap enabled
      PROVE  BreakpointOK(b)'
  <2>1. /\ BreakpointOK(b) /\ b \in Breakpoints /\ SourceOf(b) = src
        /\ b \in byDapId
    BY <1>7, Created DEF SInv, SetOK
  <2>2. /\ SourceOf(b)' = src
        /\ ScriptsOf(src)' = ScriptsOf(src) \cup
              (IF ScriptSource[new] = src THEN {new} ELSE {})
    BY <1>1, <1>2, <2>1 DEF SourceOf, ScriptsOf
  <2>3. ByPath(b)' => ByPath(b)
    BY <2>1, <2>2 DEF ByPath, InPlace, LineOf
  <2>4. \A where : Noted(<<b, where>>)' = Noted(<<b, where>>)
    BY <1>1 DEF Noted
  <2>5. ASSUME NEW where, Contested(<<b, where>>)
        PROVE  Contested(<<b, where>>)'
    BY <1>1, <1>2, <2>1, <2>2, <2>5, ContestedKept DEF SInv
  <2>6. ASSUME NEW where \in alive' \cup Lasting, where = "path" => ByPath(b)'
        PROVE  Held(<<b, where>>)'
    <3>1. CASE where = new
      <4>1. <<b, new>> \notin pending \cup applied
        BY <1>4 DEF Mentioned
      <4> QED BY <1>1, <3>1, <4>1 DEF Held
    <3>2. CASE where # new
      <4>1. Held(<<b, where>>)
        BY <1>1, <2>1, <2>3, <2>6, <3>2 DEF BreakpointOK
      <4> QED BY <1>1, <2>5, <4>1 DEF Held
    <3> QED BY <3>1, <3>2
  <2>7. ASSUME NEW s \in (ScriptsOf(src) \cap alive)'
        PROVE  PlacedIn(b, s)'
    <3>1. CASE s = new
      <4>1. ScriptSource[new] = src
        BY <1>1, <2>2, <2>7, <3>1 DEF ScriptsOf
      <4>2. b \notin Coming
        BY DEF Coming, SInv, EnabledOK
      <4>3. handler
        BY <1>7, <2>1, <4>2 DEF SInv, EnabledOK
      <4>4. <<b, new>> \in placing'
        BY <1>1, <4>1, <4>3
      <4> QED BY <3>1, <4>4 DEF PlacedIn
    <3>2. CASE s # new
      <4>1. PlacedIn(b, s)
        BY <1>1, <2>1, <2>2, <2>7, <3>2 DEF BreakpointOK
      <4> QED BY <1>1, <2>4, <2>5, <4>1 DEF PlacedIn, InPlace, LineOf
    <3> QED BY <3>1, <3>2
  <2>8. PlacedByPath(b)'
    BY <1>1, <2>1, <2>2, <2>4 DEF PlacedByPath, BreakpointOK
  <2> QED BY <2>2, <2>6, <2>7, <2>8 DEF BreakpointOK
<1>8. SetOK'
  BY <1>1, <1>2, <1>7 DEF SetOK
<1> QED BY <1>3, <1>5, <1>6, <1>8 DEF SInv

LEMMA ContextsClearedSets ==
    ASSUME IInv, IInv', SInv, ContextsCleared
    PROVE  SInv'
<1>1. /\ alive' = {} /\ cleared' = TRUE
      /\ v8' = {ref \in v8 : ref[2] \in Lasting}
      /\ UNCHANGED <<ready, filterVars, requestVars, managerVars, refVars,
                     forgotten, loaded, parsed>>
  BY DEF ContextsCleared
<1>2. /\ UNCHANGED <<filter, profile, args, pc, rushed, unbindWait, byPath,
                     enabled, placing, pending, applied, wire>>
      /\ RequestsStay /\ alive \subseteq Scripts
  BY <1>1 DEF filterVars, requestVars, managerVars, refVars, RequestsStay,
              IInv, TypeOK
<1>3. SourcesOK' /\ EnabledOK' /\ DrainedOK' /\ ScriptsOK'
  BY <1>1, <1>2, SourcesKept, EnabledKept, DrainedKept DEF SInv, ScriptsOK
<1>4. MentionedOK'
  <2>1. Mentioned' \subseteq Mentioned
    BY <1>1, <1>2 DEF Mentioned
  <2> QED BY <1>1, <1>2, <2>1, MentionedKept DEF SInv, MentionedOK
<1>5. RemovalsOK'
  BY <1>1, <1>2, RemovalsKept DEF SInv
<1>6. ASSUME filter = "all", ~ rushed, NEW src \in Sources,
             NEW b \in byPath[src] \cap enabled
      PROVE  BreakpointOK(b)'
  <2>1. BreakpointOK(b) /\ b \in Breakpoints
    BY <1>6, Created DEF SInv, SetOK
  <2>2. SourceOf(b)' = SourceOf(b)
    BY <1>2 DEF SourceOf
  <2>3. \A where : Noted(<<b, where>>) => Noted(<<b, where>>)'
    BY <1>2 DEF Noted
  <2>4. ASSUME NEW where, Contested(<<b, where>>)
        PROVE  Contested(<<b, where>>)'
    BY <1>1, <1>2, <2>2, <2>4, ContestedKept DEF SInv
  <2>5. ASSUME NEW where \in alive' \cup Lasting, Held(<<b, where>>)
        PROVE  Held(<<b, where>>)'
    BY <1>1, <1>2, <2>4, <2>5 DEF Held
  <2> QED BY <1>1, <1>2, <2>1, <2>2, <2>3, <2>4, <2>5, BreakpointKept
<1>7. SetOK'
  BY <1>1, <1>2, <1>6 DEF SetOK
<1> QED BY <1>3, <1>4, <1>5, <1>7 DEF SInv

(* What is dropped in the scripts of the next page is counted as forgotten.*)
LEMMA ContextWasClearedSets ==
    ASSUME IInv, IInv', SInv, ContextWasCleared
    PROVE  SInv'
<1>1. /\ loaded' = alive
      /\ pending' = {ref \in pending : ref[2] \in Lasting}
      /\ applied' = {ref \in applied : ref[2] \in Lasting}
      /\ wire' = Dropped(wire)
      /\ forgotten' = forgotten \cup
            {ref \in pending \cup applied : ref[2] \in alive}
      /\ UNCHANGED <<ready, filterVars, requestVars, managerVars, enabled,
                     placing, v8, alive, parsed, clears>>
  BY DEF ContextWasCleared
<1>2. /\ UNCHANGED <<filter, profile, args, pc, rushed, unbindWait, byPath>>
      /\ RequestsStay /\ alive \subseteq Scripts
      /\ Lasting \cap Scripts = {}
  <2>1. UNCHANGED <<filter, profile, args, pc, rushed, unbindWait, byPath>>
    BY <1>1 DEF filterVars, requestVars, managerVars
  <2> QED BY <2>1, ScriptsAssumption
          DEF RequestsStay, Lasting, IInv, TypeOK
<1>3. Forsaken(wire', wire)
  BY <1>1, ReferencesDropped DEF IInv
<1>4. SourcesOK' /\ EnabledOK' /\ ScriptsOK'
  BY <1>1, <1>2, SourcesKept, EnabledKept DEF SInv, ScriptsOK
<1>5. DrainedOK'
  <2>1. filter = "none" => wire' = wire
    BY <1>3, NothingKnown DEF Forsaken
  <2> QED BY <1>2, <2>1, DrainedKept DEF SInv
<1>6. MentionedOK'
  <2>1. Mentioned' \subseteq Mentioned
    BY <1>1, <1>3 DEF Mentioned, Forsaken
  <2>2. \A ref \in forgotten' : ref[2] \in Scripts
    BY <1>1, <1>2 DEF SInv, MentionedOK
  <2> QED BY <1>1, <1>2, <2>1, <2>2, MentionedKept DEF SInv, MentionedOK
<1>7. RemovalsOK'
  BY <1>1, <1>2, <1>3, RemovalsKept DEF SInv, Forsaken
<1>8. ASSUME filter = "all", ~ rushed, NEW src \in Sources,
             NEW b \in byPath[src] \cap enabled
      PROVE  BreakpointOK(b)'
  <2>1. BreakpointOK(b) /\ b \in Breakpoints
    BY <1>8, Created DEF SInv, SetOK
  <2>2. SourceOf(b)' = SourceOf(b)
    BY <1>2 DEF SourceOf
  <2>3. ASSUME NEW where, Contested(<<b, where>>)
        PROVE  Contested(<<b, where>>)'
    BY <1>1, <1>2, <2>2, <2>3, ContestedKept DEF SInv
  <2>4. \A where \in Lasting : Noted(<<b, where>>) => Noted(<<b, where>>)'
    BY <1>1 DEF Noted
  <2>5. ASSUME NEW where \in alive, Noted(<<b, where>>)
        PROVE  Contested(<<b, where>>)'
    <3>1. <<b, where>> \in forgotten'
      BY <1>1, <2>5 DEF Noted
    <3> QED BY <3>1 DEF Contested
  <2>6. ASSUME NEW where \in alive \cup Lasting, Held(<<b, where>>)
        PROVE  Held(<<b, where>>)'
    BY <1>1, <1>2, <1>3, <2>3, <2>6 DEF Held, Forsaken
  <2>7. Noted(<<b, "path">>) => Noted(<<b, "path">>)'
    BY <2>4 DEF Lasting
  <2> QED BY <1>1, <1>2, <2>1, <2>2, <2>3, <2>4, <2>5, <2>6, <2>7,
             BreakpointKept
<1>9. SetOK'
  BY <1>1, <1>2, <1>8 DEF SetOK
<1> QED BY <1>4, <1>5, <1>6, <1>7, <1>9 DEF SInv

-----------------------------------------------------------------------------
(* Requests.                                                               *)

LEMMA ReceiveSets ==
    ASSUME IInv, IInv', SInv,
           NEW r \in Requests, NEW src \in Sources, NEW lines \in SUBSET Lines,
           Receive(r, src, lines)
    PROVE  SInv'
<1>0. PICK to \in {"predict", "entry"} : pc' = [pc EXCEPT ![r] = to]
  BY DEF Receive
<1>1. /\ pc[r] = "idle" /\ \A q \in 1..(r - 1) : pc[q] # "idle"
      /\ args' = [args EXCEPT ![r] = [src |-> src, lines |-> lines]]
      /\ handler' = (handler \/ lines # {})
      /\ rushed' = (rushed \/ \E q \in 1..(r - 1) :
                                  args[q].src = src /\ pc[q] # "done")
      /\ UNCHANGED <<ready, filterVars, news, unbindWait, enableWait, byPath,
                     byDapId, total, refVars, v8, scriptVars>>
  BY DEF Receive
<1>2. /\ \A q \in Requests : q # r => pc'[q] = pc[q] /\ args'[q] = args[q]
      /\ pc'[r] = to /\ args'[r].src = src
      /\ \A q \in Requests : pc[q] # "idle" => q # r
  <2>1. /\ pc \in [Requests -> {"idle", "predict", "entry", "unbind",
                               "enable", "done"}]
        /\ args \in [Requests -> [src : Sources, lines : SUBSET Lines]]
    BY DEF IInv, TypeOK
  <2> QED BY <1>0, <1>1, <2>1
<1>3. /\ UNCHANGED <<filter, profile, news, unbindWait, byPath, byDapId,
                     enabled, placing, pending, applied, wire, v8, alive,
                     parsed>>
      /\ \A b \in Breakpoints :
            pc[b[1]] # "idle" => /\ SourceOf(b)' = SourceOf(b)
                                 /\ args'[b[1]] = args[b[1]]
                                 /\ pc'[b[1]] = pc[b[1]]
      /\ rushed => rushed'
      /\ RequestsStay
  <2>1. \A b \in Breakpoints : b[1] \in Requests
    BY DEF Breakpoints
  <2> QED BY <1>1, <1>2, <2>1
          DEF filterVars, refVars, scriptVars, SourceOf, RequestsStay
<1>4. /\ byDapId \subseteq Breakpoints /\ enabled \subseteq byDapId
      /\ \A b \in byDapId : pc[b[1]] # "idle"
      /\ \A at \in Sources : byPath[at] \subseteq byDapId
      /\ \A q \in Requests : \A ref \in unbindWait[q] :
            ref[1] \in Breakpoints /\ pc[ref[1][1]] # "idle"
  <2>1. byDapId \subseteq Breakpoints /\ enabled \subseteq byDapId
    BY DEF IInv, TypeOK
  <2>2. /\ \A b \in byDapId : pc[b[1]] # "idle"
        /\ \A at \in Sources : byPath[at] \subseteq byDapId
    BY DEF IInv, RequestsOK
  <2>3. \A q \in Requests : unbindWait[q] \subseteq Refs
    BY DEF IInv, TypeOK
  <2>4. \A q \in Requests : \A ref \in unbindWait[q] :
           ref[1] \in Breakpoints /\ pc[ref[1][1]] # "idle"
    BY <2>3 DEF SInv, SourcesOK, Refs
  <2> QED BY <2>1, <2>2, <2>4
<1>5. SourcesOK'
  <2>1. \A p, q \in Requests : p < q /\ pc'[q] # "idle" => pc'[p] # "idle"
    <3> SUFFICES ASSUME NEW p \in Requests, NEW q \in Requests, p < q,
                        pc'[q] # "idle", pc'[p] = "idle"
                 PROVE  FALSE
      OBVIOUS
    <3>1. p # r /\ pc[p] = "idle"
      BY <1>0, <1>2
    <3>2. q = r
      BY <1>2, <3>1 DEF SInv, SourcesOK
    <3>3. p \in 1..(r - 1)
      BY <3>2 DEF Requests
    <3> QED BY <1>1, <3>1, <3>3
  <2>2. /\ \A b \in byDapId : /\ b \in news[b[1]]
                              /\ b \in byPath[SourceOf(b)']
                              /\ LineOf(b) \in args'[b[1]].lines
        /\ \A at \in Sources : \A b, c \in byPath[at] :
              SourceOf(b)' = at /\ (LineOf(b) = LineOf(c) => b = c)
    BY <1>3, <1>4 DEF SInv, SourcesOK
  <2>3. \A q \in Requests : \A ref \in unbindWait[q] :
           q # r /\ pc'[q] = "unbind" /\ pc'[ref[1][1]] # "idle"
    BY <1>1, <1>2, <1>3, <1>4 DEF SInv, SourcesOK
  <2>4. ASSUME ~ rushed', NEW p \in Requests, NEW q \in Requests,
               Active(p)', Active(q)', args'[p].src = args'[q].src, p # q
        PROVE  FALSE
    <3>1. ASSUME NEW a \in Requests, a # r, Active(a), args[a].src = src
          PROVE  FALSE
      <4>1. r < a \/ a \in 1..(r - 1)
        BY <3>1 DEF Requests
      <4>2. CASE r < a
        BY <1>1, <3>1, <4>2 DEF SInv, SourcesOK, Active
      <4>3. CASE a \in 1..(r - 1)
        BY <1>1, <2>4, <3>1, <4>3 DEF Active
      <4> QED BY <4>1, <4>2, <4>3
    <3>2. CASE p = r
      BY <1>2, <2>4, <3>1, <3>2 DEF Active
    <3>3. CASE q = r
      BY <1>2, <2>4, <3>1, <3>3 DEF Active
    <3>4. CASE p # r /\ q # r
      BY <1>2, <1>3, <2>4, <3>4 DEF SInv, SourcesOK, Active
    <3> QED BY <3>2, <3>3, <3>4
  <2>5. ASSUME ~ rushed', NEW q \in Requests, NEW ref \in unbindWait[q]
        PROVE  /\ SourceOf(ref[1])' = args'[q].src
               /\ \A b \in byPath[args'[q].src] : LineOf(b) # LineOf(ref[1])
    BY <1>2, <1>3, <1>4, <2>3, <2>5 DEF SInv, SourcesOK
  <2> QED BY <1>3, <2>1, <2>2, <2>3, <2>4, <2>5 DEF SourcesOK, LineOf
<1>6. EnabledOK'
  <2>1. Coming' = Coming
    <3>1. \A b \in Breakpoints : b[1] \in Requests
      BY DEF Breakpoints
    <3> QED BY <1>0, <1>1, <1>2, <1>3, <3>1 DEF Coming
  <2> QED BY <1>1, <1>3, <1>4, <2>1 DEF SInv, EnabledOK
<1>7. DrainedOK'
  BY <1>3, DrainedKept DEF SInv
<1>8. MentionedOK' /\ ScriptsOK'
  <2>1. Mentioned' = Mentioned
    BY <1>1, <1>3 DEF Mentioned, scriptVars
  <2> QED BY <1>1, <1>3, <2>1, MentionedKept
          DEF SInv, MentionedOK, ScriptsOK, scriptVars
<1>9. RemovalsOK'
  BY <1>3, RemovalsKept DEF SInv
<1>10. ASSUME filter = "all", ~ rushed, NEW at \in Sources,
              NEW b \in byPath[at] \cap enabled
       PROVE  BreakpointOK(b)'
  <2>1. /\ b \in Breakpoints /\ pc[b[1]] # "idle" /\ BreakpointOK(b)
        /\ alive \subseteq Scripts
    BY <1>10, Created DEF SInv, SetOK, IInv, TypeOK
  <2> QED BY <1>1, <1>3, <2>1, BreakpointStays DEF SInv, scriptVars
<1>11. SetOK'
  BY <1>3, <1>10 DEF SetOK
<1> QED BY <1>5, <1>6, <1>7, <1>8, <1>9, <1>11 DEF SInv

(* A request goes on, and changes nothing else. *)
LEMMA MovedSets ==
    ASSUME IInv, IInv', SInv,
           NEW r \in Requests, NEW to \in {"entry", "done"},
           pc[r] \in {"predict", "enable"}, pc' = [pc EXCEPT ![r] = to],
           UNCHANGED <<filterVars, args, news, unbindWait, rushed, managerVars,
                       refVars, v8, scriptVars>>
    PROVE  SInv'
<1>1. /\ \A q \in Requests : q # r => pc'[q] = pc[q]
      /\ pc'[r] = to
  <2>1. pc \in [Requests -> {"idle", "predict", "entry", "unbind", "enable",
                             "done"}]
    BY DEF IInv, TypeOK
  <2> QED BY <2>1
<1>2. /\ UNCHANGED <<filter, profile, args, news, unbindWait, byPath, byDapId,
                     enabled, placing, pending, applied, wire, v8, alive,
                     parsed, rushed, handler>>
      /\ \A b : SourceOf(b)' = SourceOf(b)
  BY DEF filterVars, managerVars, refVars, scriptVars, SourceOf
<1>3. /\ \A q \in Requests : pc'[q] = "idle" <=> pc[q] = "idle"
      /\ \A q \in Requests : pc'[q] = "unbind" <=> pc[q] = "unbind"
      /\ \A q \in Requests : Active(q)' => Active(q)
  BY <1>1 DEF Active
<1>4. /\ byDapId \subseteq Breakpoints /\ enabled \subseteq byDapId
      /\ \A q \in Requests : \A ref \in unbindWait[q] : ref[1] \in Breakpoints
      /\ \A b \in Breakpoints : b[1] \in Requests
  BY BreakpointsTyped DEF IInv, TypeOK, Refs
<1>5. SourcesOK'
  <2>1. \A p, q \in Requests : p < q /\ pc'[q] # "idle" => pc'[p] # "idle"
    BY <1>3 DEF SInv, SourcesOK
  <2>2. \A q \in Requests : \A ref \in unbindWait[q] :
           pc'[q] = "unbind" /\ pc'[ref[1][1]] # "idle"
    BY <1>3, <1>4 DEF SInv, SourcesOK
  <2>3. ~ rushed => \A p, q \in Requests :
           Active(p)' /\ Active(q)' /\ args[p].src = args[q].src => p = q
    BY <1>3 DEF SInv, SourcesOK
  <2> QED BY <1>2, <2>1, <2>2, <2>3 DEF SInv, SourcesOK, LineOf
<1>6. EnabledOK'
  <2>1. Coming' = Coming
    BY <1>2, <1>3, <1>4 DEF Coming
  <2> QED BY <1>2, <1>3, <1>4, <2>1 DEF SInv, EnabledOK
<1>7. DrainedOK'
  BY <1>2, DrainedKept DEF SInv
<1>8. RequestsStay
  BY <1>2, <1>3 DEF RequestsStay
<1>9. MentionedOK' /\ ScriptsOK'
  <2>1. Mentioned' = Mentioned
    BY <1>2 DEF Mentioned, scriptVars
  <2> QED BY <1>2, <1>8, <2>1, MentionedKept
          DEF SInv, MentionedOK, ScriptsOK, scriptVars
<1>10. RemovalsOK'
  BY <1>2, <1>8, RemovalsKept DEF SInv
<1>11. ASSUME filter = "all", ~ rushed, NEW at \in Sources,
              NEW b \in byPath[at] \cap enabled
       PROVE  BreakpointOK(b)'
  <2>1. /\ b \in Breakpoints /\ pc[b[1]] # "idle" /\ BreakpointOK(b)
        /\ alive \subseteq Scripts
    BY <1>11, Created DEF SInv, SetOK, IInv, TypeOK
  <2> QED BY <1>2, <1>8, <2>1, BreakpointStays DEF SInv, scriptVars
<1>12. SetOK'
  BY <1>2, <1>11 DEF SetOK
<1> QED BY <1>5, <1>6, <1>7, <1>9, <1>10, <1>12 DEF SInv

LEMMA PredictedSets ==
    ASSUME IInv, IInv', SInv,
           NEW r \in Requests, Predicted(r)
    PROVE  SInv'
<1>1. /\ pc[r] = "predict" /\ pc' = [pc EXCEPT ![r] = "entry"]
      /\ UNCHANGED <<ready, filterVars, args, news, unbindWait, enableWait,
                     rushed, managerVars, refVars, v8, scriptVars>>
  BY DEF Predicted
<1> QED BY <1>1, MovedSets

LEMMA ReplySets ==
    ASSUME IInv, IInv', SInv,
           NEW r \in Requests, Reply(r)
    PROVE  SInv'
<1>1. /\ pc[r] = "enable" /\ pc' = [pc EXCEPT ![r] = "done"]
      /\ UNCHANGED <<ready, filterVars, queue, args, news, unbindWait, rushed,
                     managerVars, refVars, v8, scriptVars>>
  BY DEF Reply
<1> QED BY <1>1, MovedSets

(* What the request removes is disabled, and is not at a line it keeps;    *)
(* what it adds is enabled later.                                          *)
LEMMA MergeSets ==
    ASSUME IInv, IInv', SInv,
           NEW r \in Requests, Merge(r)
    PROVE  SInv'
<1> DEFINE src == args[r].src
           kept == {b \in byPath[src] : LineOf(b) \in args[r].lines}
           unbound == byPath[src] \ kept
           new == {<<r, l>> : l \in args[r].lines \ {LineOf(b) : b \in kept}}
<1>1. /\ queue # << >> /\ r = Head(queue)
      /\ byPath' = [byPath EXCEPT ![src] = kept \cup new]
      /\ byDapId' = (byDapId \ unbound) \cup new
      /\ news' = [news EXCEPT ![r] = new]
      /\ unbindWait' = [unbindWait EXCEPT ![r] = RefsOf(unbound)]
      /\ Disable(unbound)
      /\ pc' = [pc EXCEPT ![r] = IF unbound = {} /\ new = {} THEN "done"
                                 ELSE "unbind"]
      /\ UNCHANGED <<ready, filterVars, args, enableWait, handler, rushed,
                     v8, scriptVars>>
  BY DEF Merge
<1>a. /\ queue \in Seq(Requests)
      /\ \A i \in DOMAIN queue : pc[queue[i]] = "entry"
  BY DEF IInv, TypeOK, RequestsOK
<1>2. pc[r] = "entry"
  BY <1>1, <1>a
<1>3. /\ src \in Sources /\ kept \subseteq byPath[src]
      /\ unbound \subseteq byPath[src]
      /\ \A b \in kept : LineOf(b) \in args[r].lines
      /\ \A b \in unbound : LineOf(b) \notin args[r].lines
  BY DEF IInv, TypeOK
<1>4. \A b \in new : /\ b[1] = r /\ LineOf(b) \in args[r].lines
                     /\ \A c \in kept : LineOf(c) # LineOf(b)
                     /\ \A c \in new : LineOf(c) = LineOf(b) => c = b
                     /\ b \in Breakpoints
  <2>1. args[r].lines \subseteq Lines
    BY DEF IInv, TypeOK
  <2> QED BY <2>1 DEF LineOf, Breakpoints
<1> HIDE DEF kept, unbound, new
<1>5. /\ enabled' = enabled \ unbound /\ placing' = placing
      /\ pending' = pending \ RefsOf(unbound)
      /\ applied' = applied \ RefsOf(unbound)
      /\ Reduced(wire', wire, RefsOf(unbound))
  BY <1>1, DisableKeeps DEF Disable
<1>6. /\ \A q \in Requests : q # r => /\ pc'[q] = pc[q] /\ news'[q] = news[q]
                                      /\ unbindWait'[q] = unbindWait[q]
      /\ unbound \cup new # {} => pc'[r] = "unbind"
      /\ pc'[r] \in {"unbind", "done"}
      /\ news'[r] = new /\ unbindWait'[r] = RefsOf(unbound)
      /\ byPath'[src] = kept \cup new
      /\ \A at \in Sources : at # src => byPath'[at] = byPath[at]
  <2>1. /\ pc \in [Requests -> {"idle", "predict", "entry", "unbind",
                                "enable", "done"}]
        /\ news \in [Requests -> SUBSET Breakpoints]
        /\ unbindWait \in [Requests -> SUBSET Refs]
        /\ byPath \in [Sources -> SUBSET Breakpoints]
    BY DEF IInv, TypeOK
  <2> QED BY <1>1, <1>3, <2>1
<1>7. /\ UNCHANGED <<filter, profile, args, v8, alive, parsed, loaded,
                     forgotten, cleared, rushed, handler>>
      /\ \A b : SourceOf(b)' = SourceOf(b)
      /\ RequestsStay
  BY <1>1, <1>2, <1>6 DEF filterVars, scriptVars, SourceOf, RequestsStay
<1>8. /\ byDapId \subseteq Breakpoints /\ enabled \subseteq byDapId
      /\ \A at \in Sources : byPath[at] \subseteq byDapId
      /\ \A b \in byDapId : b[1] # r /\ b[1] \in Requests
      /\ \A b \in byPath[src] : b[1] # r /\ pc[b[1]] # "idle"
  <2>1. /\ byDapId \subseteq Breakpoints /\ enabled \subseteq byDapId
        /\ \A b \in byDapId : b[1] \in Requests
    BY BreakpointsTyped DEF IInv, TypeOK
  <2>2. /\ \A at \in Sources : byPath[at] \subseteq byDapId
        /\ \A b \in byDapId : pc[b[1]] \in {"unbind", "enable", "done"}
    BY DEF IInv, RequestsOK
  <2> QED BY <1>2, <1>3, <2>1, <2>2
<1>9. new \cap byDapId = {}
  BY <1>4, <1>8
<1>10. SourcesOK'
  <2>1. \A p, q \in Requests : p < q /\ pc'[q] # "idle" => pc'[p] # "idle"
    BY <1>2, <1>6 DEF SInv, SourcesOK
  <2>2. \A b \in byDapId' : /\ b \in news'[b[1]] /\ b \in byPath'[SourceOf(b)]
                            /\ LineOf(b) \in args[b[1]].lines
    <3>1. ASSUME NEW b \in byDapId \ unbound
          PROVE  /\ b \in news'[b[1]] /\ b \in byPath'[SourceOf(b)]
                 /\ LineOf(b) \in args[b[1]].lines
      <4>1. /\ b \in news[b[1]] /\ b \in byPath[SourceOf(b)]
            /\ LineOf(b) \in args[b[1]].lines
        BY DEF SInv, SourcesOK
      <4>2. SourceOf(b) \in Sources
        BY <1>8 DEF SourceOf, IInv, TypeOK
      <4>3. SourceOf(b) = src => b \in kept
        BY <4>1 DEF unbound
      <4> QED BY <1>6, <1>8, <4>1, <4>2, <4>3
    <3>2. ASSUME NEW b \in new
          PROVE  /\ b \in news'[b[1]] /\ b \in byPath'[SourceOf(b)]
                 /\ LineOf(b) \in args[b[1]].lines
      BY <1>4, <1>6 DEF SourceOf
    <3> QED BY <1>1, <3>1, <3>2
  <2>3. ASSUME NEW at \in Sources, NEW b \in byPath'[at], NEW c \in byPath'[at]
        PROVE  SourceOf(b) = at /\ (LineOf(b) = LineOf(c) => b = c)
    <3>1. CASE at # src
      BY <1>6, <3>1 DEF SInv, SourcesOK
    <3>2. CASE at = src
      <4>1. b \in kept \cup new /\ c \in kept \cup new
        BY <1>6, <3>2
      <4>2. SourceOf(b) = src
        BY <1>3, <1>4, <4>1 DEF SInv, SourcesOK, SourceOf
      <4>3. b \in kept /\ c \in kept => (LineOf(b) = LineOf(c) => b = c)
        BY <1>3 DEF SInv, SourcesOK
      <4> QED BY <1>4, <3>2, <4>1, <4>2, <4>3
    <3> QED BY <3>1, <3>2
  <2>4. ASSUME NEW q \in Requests, NEW ref \in unbindWait'[q]
        PROVE  pc'[q] = "unbind" /\ pc'[ref[1][1]] # "idle"
    <3>1. CASE q = r
      <4>1. ref[1] \in unbound
        BY <1>6, <2>4, <3>1 DEF RefsOf
      <4> QED BY <1>3, <1>6, <1>8, <3>1, <4>1
    <3>2. CASE q # r
      <4>1. ref[1][1] \in Requests
        BY <1>6, <2>4, <3>2, BreakpointsTyped DEF IInv, TypeOK, Refs
      <4> QED BY <1>2, <1>6, <2>4, <3>2, <4>1 DEF SInv, SourcesOK
    <3> QED BY <3>1, <3>2
  <2>5. ~ rushed => \A p, q \in Requests :
           Active(p)' /\ Active(q)' /\ args[p].src = args[q].src => p = q
    <3>1. \A q \in Requests : Active(q)' => Active(q)
      BY <1>2, <1>6 DEF Active
    <3> QED BY <3>1 DEF SInv, SourcesOK
  <2>6. ASSUME ~ rushed, NEW q \in Requests, NEW ref \in unbindWait'[q]
        PROVE  /\ SourceOf(ref[1]) = args[q].src
               /\ \A b \in byPath'[args[q].src] : LineOf(b) # LineOf(ref[1])
    <3>1. CASE q = r
      <4>1. ref[1] \in unbound
        BY <1>6, <2>6, <3>1 DEF RefsOf
      <4>2. SourceOf(ref[1]) = src
        BY <1>3, <4>1 DEF SInv, SourcesOK
      <4> QED BY <1>3, <1>4, <1>6, <3>1, <4>1, <4>2
    <3>2. CASE q # r
      <4>1. ref \in unbindWait[q] /\ pc[q] = "unbind"
        BY <1>6, <2>6, <3>2 DEF SInv, SourcesOK
      <4>2. args[q].src # src
        BY <1>2, <2>6, <3>2, <4>1 DEF SInv, SourcesOK, Active
      <4>3. args[q].src \in Sources
        BY DEF IInv, TypeOK
      <4> QED BY <1>6, <2>6, <4>1, <4>2, <4>3 DEF SInv, SourcesOK
    <3> QED BY <3>1, <3>2
  <2> QED BY <1>7, <2>1, <2>2, <2>3, <2>4, <2>5, <2>6 DEF SourcesOK, LineOf
<1>11. EnabledOK'
  <2>1. Coming' = Coming \cup new
    <3>1. \A b \in Breakpoints : b[1] \in Requests
      BY DEF Breakpoints
    <3>2. new # {} => pc'[r] = "unbind"
      BY <1>6
    <3>3. \A b \in Coming : b[1] # r
      BY <1>2 DEF Coming
    <3> QED BY <1>4, <1>6, <3>1, <3>2, <3>3 DEF Coming
  <2>2. \A b \in enabled' : pc'[b[1]] # "unbind"
    BY <1>5, <1>6, <1>8 DEF SInv, EnabledOK
  <2>3. ASSUME ~ rushed
        PROVE  /\ Coming' \subseteq byDapId'
               /\ byDapId' \ Coming' # {} => handler
    <3>1. Coming \subseteq byDapId /\ (byDapId \ Coming # {} => handler)
      BY <2>3 DEF SInv, EnabledOK
    <3>2. ASSUME NEW b \in Coming, b \in unbound PROVE FALSE
      <4>1. SourceOf(b) = src /\ b[1] # r /\ b[1] \in Requests
        BY <1>3, <1>8, <3>1, <3>2 DEF SInv, SourcesOK
      <4>2. Active(b[1]) /\ Active(r) /\ args[b[1]].src = src
        BY <1>2, <4>1 DEF Coming, Active, SourceOf
      <4> QED BY <2>3, <4>1, <4>2 DEF SInv, SourcesOK
    <3> QED BY <1>1, <2>1, <3>1, <3>2
  <2>4. ASSUME filter = "all", NEW b \in byDapId'
        PROVE  pc'[b[1]] = "unbind" \/ b \in enabled'
    <3>1. CASE b \in new
      BY <1>4, <1>6, <3>1
    <3>2. CASE b \in byDapId \ unbound
      BY <1>5, <1>6, <1>8, <2>4, <3>2 DEF SInv, EnabledOK
    <3> QED BY <1>1, <3>1, <3>2
  <2> QED BY <1>7, <2>2, <2>3, <2>4 DEF EnabledOK
<1>12. DrainedOK'
  <2>1. filter = "none" => RefsOf(unbound) = {}
    BY NothingKnown DEF RefsOf
  <2> QED BY <1>5, <1>7, <2>1, DrainedKept DEF SInv, Reduced
<1>13. MentionedOK' /\ ScriptsOK'
  <2>1. Mentioned' \subseteq Mentioned
    <3>1. RefsOf(unbound) \subseteq pending \cup applied
      BY DEF RefsOf
    <3> QED BY <1>5, <1>7, <3>1 DEF Mentioned, Reduced
  <2> QED BY <1>5, <1>7, <2>1, MentionedKept DEF SInv, MentionedOK, ScriptsOK
<1>14. RemovalsOK'
  <2> SUFFICES ASSUME filter = "all", NEW ref \in Doomed(wire')
               PROVE  \/ ref[2] = "path" /\ ~ ByPath(ref[1])'
                      \/ \E q \in Requests : ref \in unbindWait'[q]
    BY <1>7 DEF RemovalsOK
  <2>1. CASE ref \in RefsOf(unbound)
    BY <1>6, <2>1
  <2>2. ASSUME NEW q \in Requests, ref \in unbindWait[q]
        PROVE  ref \in unbindWait'[q]
    <3>1. q # r
      BY <1>2, <2>2 DEF SInv, SourcesOK
    <3> QED BY <1>6, <2>2, <3>1
  <2>3. CASE ref \in Doomed(wire)
    <3>1. ByPath(ref[1])' = ByPath(ref[1])
      BY <1>7 DEF ByPath, ScriptsOf, InPlace, LineOf
    <3> QED BY <2>2, <2>3, <3>1 DEF SInv, RemovalsOK
  <2> QED BY <1>5, <2>1, <2>3 DEF Reduced
<1>15. ASSUME filter = "all", ~ rushed, NEW at \in Sources,
              NEW b \in byPath'[at] \cap enabled'
       PROVE  BreakpointOK(b)'
  <2>1. b \in byPath[at] \cap enabled /\ b \notin unbound
    <3>1. b \in enabled /\ b \notin unbound /\ b \notin new
      BY <1>5, <1>8, <1>9
    <3> QED BY <1>3, <1>6, <3>1
  <2>2. /\ b \in Breakpoints /\ pc[b[1]] # "idle" /\ BreakpointOK(b)
        /\ alive \subseteq Scripts
    BY <1>15, <2>1, Created DEF SInv, SetOK, IInv, TypeOK
  <2>3. \A where : <<b, where>> \notin RefsOf(unbound)
    BY <2>1 DEF RefsOf
  <2>4. LiveSets(wire') = LiveSets(wire) \ (RefsOf(unbound) \cap pending)
    BY <1>5 DEF Reduced
  <2> QED BY <1>5, <1>7, <2>2, <2>3, <2>4, BreakpointStays DEF SInv
<1>16. SetOK'
  BY <1>7, <1>15 DEF SetOK
<1> QED BY <1>10, <1>11, <1>12, <1>13, <1>14, <1>16 DEF SInv

(* The count is that of the breakpoints but those that are to come, so     *)
(* that the handler is kept for them.                                      *)
LEMMA UnboundSets ==
    ASSUME IInv, IInv', SInv,
           NEW r \in Requests, Unbound(r)
    PROVE  SInv'
<1> DEFINE now == IF filter = "all" THEN news[r] \cap byPath[args[r].src]
                  ELSE {}
<1>1. /\ Unbindable(r)
      /\ unbindWait' = [unbindWait EXCEPT ![r] = {}]
      /\ total' = total + Cardinality(news[r])
      /\ handler' = IF total' = 0 THEN FALSE ELSE handler \/ total' > 0
      /\ Enable(now)
      /\ pc' = [pc EXCEPT ![r] = "enable"]
      /\ UNCHANGED <<ready, filterVars, queue, args, news, rushed, byPath,
                     byDapId, v8, scriptVars>>
  BY DEF Unbound
<1>2. /\ now \in SUBSET byDapId /\ now \subseteq news[r]
      /\ filter = "none" => now = {}
      /\ filter = "all" => now = news[r] \cap byPath[args[r].src]
  BY DEF IInv, TypeOK, RequestsOK
<1> HIDE DEF now
<1>3. /\ enabled' = enabled \cup now
      /\ UNCHANGED <<pending, applied, wire>>
      /\ \A where \in placing' : OfRequest(where)
      /\ \A src \in Sources : \A b \in (byPath[src] \cap now) \ enabled :
            BreakpointOK(b)'
      /\ placing \subseteq placing'
  BY <1>1, <1>2, EnableSets DEF Enable
<1>4. /\ pc[r] = "unbind" /\ pc'[r] = "enable" /\ unbindWait'[r] = {}
      /\ \A q \in Requests : q # r => /\ pc'[q] = pc[q]
                                      /\ unbindWait'[q] = unbindWait[q]
  <2>1. /\ pc \in [Requests -> {"idle", "predict", "entry", "unbind",
                                "enable", "done"}]
        /\ unbindWait \in [Requests -> SUBSET Refs]
    BY DEF IInv, TypeOK
  <2> QED BY <1>1, <2>1 DEF Unbindable
<1>5. /\ UNCHANGED <<filter, profile, args, news, byPath, byDapId, v8, alive,
                     loaded, parsed, forgotten, cleared, rushed>>
      /\ \A b : SourceOf(b)' = SourceOf(b)
      /\ RequestsStay
  BY <1>1, <1>4 DEF filterVars, scriptVars, SourceOf, RequestsStay
<1>6. /\ byDapId \subseteq Breakpoints /\ enabled \subseteq byDapId
      /\ \A b \in Breakpoints : b[1] \in Requests
      /\ \A b \in news[r] : b[1] = r
      /\ \A at \in Sources : byPath[at] \subseteq byDapId
  <2>1. byDapId \subseteq Breakpoints /\ enabled \subseteq byDapId
    BY DEF IInv, TypeOK
  <2> QED BY <2>1, BreakpointsTyped DEF IInv, RequestsOK
<1>7. /\ \A q \in Requests : pc[q] # "idle" <=> pc'[q] # "idle"
      /\ \A q \in Requests : Active(q)' => Active(q)
  BY <1>4 DEF Active
<1>8. SourcesOK'
  <2>1. \A p, q \in Requests : p < q /\ pc'[q] # "idle" => pc'[p] # "idle"
    BY <1>7 DEF SInv, SourcesOK
  <2>2. \A q \in Requests : \A ref \in unbindWait'[q] :
           /\ ref \in unbindWait[q]
           /\ pc'[q] = "unbind" /\ pc'[ref[1][1]] # "idle"
    <3>1. \A q \in Requests : \A ref \in unbindWait[q] :
             ref[1][1] \in Requests
      BY BreakpointsTyped DEF IInv, TypeOK, Refs
    <3> QED BY <1>4, <1>7, <3>1 DEF SInv, SourcesOK
  <2>3. ~ rushed => \A p, q \in Requests :
           Active(p)' /\ Active(q)' /\ args[p].src = args[q].src => p = q
    BY <1>7 DEF SInv, SourcesOK
  <2> QED BY <1>5, <2>1, <2>2, <2>3 DEF SInv, SourcesOK, LineOf
<1>9. EnabledOK'
  <2>1. Coming' = Coming \ news[r] /\ Coming' \subseteq Coming
    BY <1>4, <1>5, <1>6 DEF Coming
  <2>2. \A b \in enabled' : pc'[b[1]] # "unbind"
    <3>1. ASSUME NEW b \in enabled PROVE pc'[b[1]] # "unbind"
      BY <1>4, <1>6 DEF SInv, EnabledOK
    <3>2. ASSUME NEW b \in now PROVE pc'[b[1]] # "unbind"
      BY <1>2, <1>4, <1>6
    <3> QED BY <1>3, <3>1, <3>2
  <2>3. ASSUME ~ rushed
        PROVE  /\ Coming' \subseteq byDapId
               /\ byDapId \ Coming' # {} => handler'
    <3>1. Coming' \subseteq byDapId
      BY <2>1, <2>3 DEF SInv, EnabledOK
    <3>2. IsFiniteSet(byDapId) /\ IsFiniteSet(byDapId \ Coming')
      BY <1>6, RefsFinite, FS_Subset
    <3>3. Cardinality(byDapId \ Coming')
             = Cardinality(byDapId) - Cardinality(Coming')
      BY <3>1, <3>2, CardinalityLess
    <3>4. /\ Cardinality(byDapId) \in Nat
          /\ Cardinality(byDapId \ Coming') \in Nat
          /\ Cardinality(Coming') \in Nat
      BY <3>1, <3>2, FS_Subset, FS_CardinalityType
    <3>5. total' + Cardinality(Coming') = Cardinality(byDapId)
      BY <1>5 DEF IInv, CountOK
    <3>6. total' \in Int
      BY DEF IInv, TypeOK
    <3>7. total' = Cardinality(byDapId \ Coming')
      BY <3>3, <3>4, <3>5, <3>6
    <3>8. ASSUME byDapId \ Coming' # {} PROVE handler'
      <4>1. total' # 0 /\ total' > 0
        BY <3>2, <3>4, <3>7, <3>8, FS_EmptySet
      <4>2. handler' = (handler \/ total' > 0)
        BY <1>1, <4>1
      <4> QED BY <4>1, <4>2
    <3> QED BY <3>1, <3>8
  <2>4. ASSUME filter = "all", NEW b \in byDapId
        PROVE  pc'[b[1]] = "unbind" \/ b \in enabled'
    <3>1. b[1] \in Requests
      BY <1>6
    <3>2. CASE b[1] # r
      BY <1>3, <1>4, <2>4, <3>1, <3>2 DEF SInv, EnabledOK
    <3>3. CASE b[1] = r
      <4>1. b \in news[r] /\ b \in byPath[args[r].src]
        BY <3>3 DEF SInv, SourcesOK, SourceOf
      <4> QED BY <1>2, <1>3, <2>4, <4>1
    <3> QED BY <3>2, <3>3
  <2> QED BY <1>5, <2>2, <2>3, <2>4 DEF EnabledOK
<1>10. DrainedOK'
  BY <1>3, <1>5, DrainedKept DEF SInv
<1>11. MentionedOK' /\ ScriptsOK'
  <2>1. Mentioned' = Mentioned
    BY <1>3, <1>5 DEF Mentioned
  <2> QED BY <1>3, <1>5, <2>1, MentionedKept DEF SInv, MentionedOK, ScriptsOK
<1>12. RemovalsOK'
  <2> SUFFICES ASSUME filter = "all", NEW ref \in Doomed(wire)
               PROVE  \/ ref[2] = "path" /\ ~ ByPath(ref[1])'
                      \/ \E q \in Requests : ref \in unbindWait'[q]
    BY <1>3, <1>5 DEF RemovalsOK
  <2>1. ASSUME NEW q \in Requests, ref \in unbindWait[q]
        PROVE  ref \in unbindWait'[q]
    <3>1. q # r
      BY <1>1, <2>1, LiveOrDoomed DEF Unbindable, OnWire
    <3> QED BY <1>4, <2>1, <3>1
  <2>2. ByPath(ref[1])' = ByPath(ref[1])
    BY <1>5 DEF ByPath, ScriptsOf, InPlace, LineOf
  <2> QED BY <2>1, <2>2 DEF SInv, RemovalsOK
<1>13. ASSUME filter = "all", ~ rushed, NEW src \in Sources,
              NEW b \in byPath[src] \cap enabled'
       PROVE  BreakpointOK(b)'
  <2>1. CASE b \in enabled
    <3>1. /\ b \in Breakpoints /\ pc[b[1]] # "idle" /\ BreakpointOK(b)
          /\ alive \subseteq Scripts
      BY <1>13, <2>1, Created DEF SInv, SetOK, IInv, TypeOK
    <3> QED BY <1>3, <1>5, <3>1, BreakpointStays DEF SInv
  <2>2. CASE b \notin enabled
    <3>1. b \in (byPath[src] \cap now) \ enabled
      BY <1>3, <2>2
    <3> QED BY <1>3, <3>1
  <2> QED BY <2>1, <2>2
<1>14. SetOK'
  BY <1>5, <1>13 DEF SetOK
<1> QED BY <1>8, <1>9, <1>10, <1>11, <1>12, <1>14 DEF SInv

-----------------------------------------------------------------------------
LEMMA InitSets ==
    ASSUME Init
    PROVE  SInv
<1>1. /\ LiveSets(wire) = {} /\ Doomed(wire) = {} /\ Lost(wire) = {}
      /\ DOMAIN wire = {}
  BY DEF Init, LiveSets, Doomed, Lost
<1>2. Coming = {}
  BY DEF Init, Coming, Breakpoints
<1>3. SourcesOK
  BY DEF Init, SourcesOK, Active
<1>4. EnabledOK
  BY <1>2 DEF Init, EnabledOK
<1>5. DrainedOK /\ ScriptsOK
  BY <1>1 DEF Init, DrainedOK, ScriptsOK
<1>6. MentionedOK /\ RemovalsOK /\ SetOK
  BY <1>1 DEF Init, MentionedOK, Mentioned, RemovalsOK, SetOK
<1> QED BY <1>3, <1>4, <1>5, <1>6 DEF SInv

LEMMA NextSets ==
    ASSUME IInv, IInv', SInv, [Next]_vars
    PROVE  SInv'
<1>1. ASSUME NEW r \in Requests, NEW src \in Sources,
             NEW lines \in Asked, Receive(r, src, lines)
      PROVE  SInv'
  <2>1. lines \in SUBSET Lines
    BY AskedAssumption
  <2> QED BY <1>1, <2>1, ReceiveSets
<1>2. ASSUME NEW r \in Requests, Handling(r) PROVE SInv'
  BY <1>2, PredictedSets, MergeSets, UnboundSets, ReplySets DEF Handling
<1>3. ASSUME NEW b \in Breakpoints, Placing(b) PROVE SInv'
  BY <1>3, PathSetSets, ScriptsSetSets, UpdateForScriptSets DEF Placing
<1>4. CASE FilterNone \/ ProfilerAsked \/ FilterAll
  BY <1>4, FilterNoneSets, ProfilerAskedSets, FilterAllSets
<1>5. CASE Answering
  BY <1>5, DebuggerReadySets, SetAnsweredSets, RemoveAnsweredSets,
     ProfilerAnsweredSets
  DEF Answering
<1>6. ASSUME NEW s \in Scripts, ScriptParsed(s) PROVE SInv'
  BY <1>6, ScriptParsedSets
<1>7. CASE ContextsCleared \/ ContextWasCleared
  BY <1>7, ContextsClearedSets, ContextWasClearedSets
<1>8. CASE UNCHANGED vars
  BY <1>8, NothingSets DEF vars
<1> QED BY <1>1, <1>2, <1>3, <1>4, <1>5, <1>6, <1>7, <1>8 DEF Next

(* When nothing is under way and the profiler does not run, the            *)
(* breakpoints that the client asked for last are set in every script of   *)
(* their source, unless a source was sent a request before its last was    *)
(* answered; but for those that V8 may have refused for another line at    *)
(* the same position, or for one that was dropped when the contexts were   *)
(* cleared.                                                                *)
THEOREM CurrentIsSet == Spec => []CurrentSet
<1>1. Init => IInv /\ SInv
  BY InitInvariant, InitSets
<1>2. IInv /\ SInv /\ [Next]_vars => (IInv /\ SInv)'
  BY NextInvariant, NextSets
<1>3. ASSUME IInv, SInv PROVE CurrentSet
  <2> SUFFICES ASSUME Quiet, filter = "all", ~ rushed, NEW src \in Sources,
                      NEW b \in byPath[src]
               PROVE  Placed(b)
    BY DEF CurrentSet
  <2>1. /\ b \in byDapId /\ b \in Breakpoints /\ SourceOf(b) = src
        /\ b[1] \in Requests
    BY <1>3, Created DEF SInv
  <2>2. b \in enabled
    BY <1>3, <2>1 DEF SInv, EnabledOK, Quiet
  <2>3. /\ loaded = alive /\ LiveSets(wire) = {} /\ placing = {}
        /\ loaded \subseteq parsed /\ parsed \subseteq Scripts
    BY <1>3 DEF IInv, TypeOK, SInv, ScriptsOK, Quiet, LiveSets
  <2>4. BreakpointOK(b)
    BY <1>3, <2>2 DEF SInv, SetOK
  <2>5. ASSUME NEW where, At(b, where), Noted(<<b, where>>),
               ~ Contested(<<b, where>>)
        PROVE  Is(<<b, where>>)
    <3>1. Held(<<b, where>>)
      BY <2>4, <2>5 DEF BreakpointOK, At
    <3> QED BY <2>3, <2>5, <3>1 DEF Held, Noted, Is
  <2>6. ~ Contested(<<b, "path">>)
    BY <1>3, PathNotContested DEF SInv
  <2>7. ASSUME NEW s \in loaded, ScriptSource[s] = src
        PROVE  \/ Is(<<b, Place[s]>>)
               \/ Place[s] \in Urls /\ InPlace(b, s) /\ Is(<<b, "path">>)
               \/ Contested(<<b, Place[s]>>)
    <3>1. s \in ScriptsOf(src) \cap alive /\ s \in Scripts
      BY <2>3, <2>7 DEF ScriptsOf
    <3>2. \/ Contested(<<b, Place[s]>>) \/ Noted(<<b, Place[s]>>)
          \/ Place[s] \in Urls /\ InPlace(b, s) /\ Noted(<<b, "path">>)
      BY <2>1, <2>3, <2>4, <3>1 DEF BreakpointOK, PlacedIn
    <3>3. At(b, Place[s])
      BY <3>1, ScriptsAssumption DEF At, Lasting
    <3>4. InPlace(b, s) => At(b, "path")
      BY <2>1, <2>3, <3>1, InPlaceByPath DEF At, Lasting
    <3> QED BY <2>5, <2>6, <3>2, <3>3, <3>4
  <2>8. ASSUME \A s \in parsed : ScriptSource[s] # src
        PROVE  Is(<<b, "path">>)
    <3>1. ScriptsOf(src) = {}
      BY <2>8 DEF ScriptsOf
    <3>2. Noted(<<b, "path">>)
      BY <2>1, <2>3, <2>4, <3>1 DEF BreakpointOK, PlacedByPath
    <3>3. At(b, "path")
      BY <2>1, <3>1 DEF At, Lasting, ByPath
    <3> QED BY <2>5, <2>6, <3>2, <3>3
  <2> QED BY <2>1, <2>2, <2>7, <2>8 DEF Placed
<1> QED BY <1>1, <1>2, <1>3, PTL DEF Spec
=============================================================================
