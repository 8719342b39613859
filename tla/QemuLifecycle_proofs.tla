------------------------- MODULE QemuLifecycle_proofs -------------------------
(***************************************************************************)
(* What the commands of a QEMU machine keep, for any number of processes,   *)
(* commands, faults and reboots.                                            *)
(*                                                                         *)
(* That a stop signals nothing but the machine's QEMU when it had a start   *)
(* time to go by holds however commands overlap: start times are never      *)
(* given twice, and a number is not reused under a command that waits on it *)
(* or has just launched.  The rest holds while commands come one at a time, *)
(* and follows from where in its sequence of steps the command at work is:  *)
(* no QEMU is up before the steps that clear, finish, move, copy or remove, *)
(* the QEMU that is up is the one qemu.pid names, and what state.yaml says  *)
(* of it is true unless the command is about to record it.                  *)
(***************************************************************************)
EXTENDS QemuLifecycle, SequenceTheorems, TLAPS

Steps ==
  {"prepare", "launch", "launchOpen", "record", "provision", "configure", "look", "clear", "mounts",
   "halt", "acpi", "term", "kill", "finish", "slay", "moveDisk", "remove", "copy"}

\* What may follow a step.
following == [step \in Steps |->
  CASE step = "prepare" -> {"launch", "launchOpen", "look"}
    [] step \in {"launch", "launchOpen"} -> {"record"}
    [] step = "record" -> {"mounts", "provision", "configure"}
    [] step \in {"mounts", "provision"} -> {"provision", "configure"}
    [] step = "configure" -> {"halt"}
    [] step = "look" -> {"clear"}
    [] step = "clear" -> {"launch", "launchOpen"}
    [] step = "halt" -> {"acpi"}
    [] step = "acpi" -> {"term"}
    [] step = "term" -> {"kill"}
    [] step = "kill" -> {"finish"}
    [] step = "finish" -> {"look", "moveDisk", "remove", "copy"}
    [] step = "moveDisk" -> {"prepare"}
    [] OTHER -> {}]

\* The last step of a command.
Last == {"configure", "mounts", "finish", "slay", "remove", "copy"}

\* Steps of which each may follow the one before, with every start whole.
Part(t) ==
  /\ t \in Seq(Steps)
  /\ \A i \in 1 .. Len(t) - 1 : t[i + 1] \in following[t[i]]
  /\ \A i \in 1 .. Len(t) : t[i] = "look" => i + 4 <= Len(t) /\ t[i + 4] = "mounts"

Lineup(t) == Part(t) /\ (t # <<>> => t[Len(t)] \in Last)

KillIn(t) == \E i \in 1 .. Len(t) : t[i] = "kill"

\* A QEMU that is launched with the network open will be stopped.
OpenThenStop(t) ==
  \A i \in 1 .. Len(t) : t[i] = "launchOpen" => \E j \in i + 1 .. Len(t) : t[j] = "kill"

Front(t, steps) == t # <<>> /\ Head(t) \in steps

LEMMA FollowingIs ==
  /\ following["prepare"] = {"launch", "launchOpen", "look"}
  /\ following["launch"] = {"record"} /\ following["launchOpen"] = {"record"}
  /\ following["record"] = {"mounts", "provision", "configure"}
  /\ following["mounts"] = {"provision", "configure"} /\ following["provision"] = {"provision", "configure"}
  /\ following["configure"] = {"halt"} /\ following["look"] = {"clear"}
  /\ following["clear"] = {"launch", "launchOpen"}
  /\ following["halt"] = {"acpi"} /\ following["acpi"] = {"term"} /\ following["term"] = {"kill"}
  /\ following["kill"] = {"finish"} /\ following["finish"] = {"look", "moveDisk", "remove", "copy"}
  /\ following["moveDisk"] = {"prepare"} /\ following["slay"] = {}
  /\ following["remove"] = {} /\ following["copy"] = {}
BY DEF following, Steps

-----------------------------------------------------------------------------
(* Lineups taken apart.                                                     *)

\* What is left of a lineup after its first n steps.
LEMMA RestOf ==
  ASSUME NEW t, Lineup(t), NEW n \in Nat
  PROVE  LET u == SubSeq(t, n + 1, Len(t)) IN
         /\ Lineup(u)
         /\ OpenThenStop(t) => OpenThenStop(u)
         /\ IF n >= Len(t) THEN u = <<>> ELSE u # <<>> /\ Head(u) = t[n + 1]
         /\ (\E j \in n + 1 .. Len(t) : t[j] = "kill") => KillIn(u)
         /\ KillIn(u) => KillIn(t)
<1> DEFINE u == SubSeq(t, n + 1, Len(t))
<1>1. t \in Seq(Steps) /\ Len(t) \in Nat
  BY DEF Lineup, Part
<1>2. CASE n >= Len(t)
  <2>1. u = <<>>
    BY <1>1, <1>2
  <2> HIDE DEF u
  <2>2. Lineup(u) /\ OpenThenStop(u) /\ ~KillIn(u)
    BY <2>1 DEF Lineup, Part, OpenThenStop, KillIn
  <2>3. ~\E j \in n + 1 .. Len(t) : t[j] = "kill"
    BY <1>1, <1>2
  <2> QED
    BY <1>2, <2>1, <2>2, <2>3 DEF u
<1>3. CASE ~(n >= Len(t))
  <2>1. u \in Seq(Steps) /\ Len(u) = Len(t) - n /\ \A i \in 1 .. Len(t) - n : u[i] = t[i + n]
    BY <1>1, <1>3
  <2> HIDE DEF u
  <2>2. Len(u) \in Nat \ {0} /\ u # <<>> /\ Head(u) = t[n + 1]
    BY <1>1, <1>3, <2>1
  <2>3. ASSUME NEW i \in 1 .. Len(u) - 1 PROVE u[i + 1] \in following[u[i]]
    <3>1. i + n \in 1 .. Len(t) - 1 /\ u[i] = t[i + n] /\ u[i + 1] = t[(i + n) + 1]
      BY <1>1, <2>1, <2>2
    <3> QED
      BY <3>1, Zenon DEF Lineup, Part
  <2>4. ASSUME NEW i \in 1 .. Len(u), u[i] = "look" PROVE i + 4 <= Len(u) /\ u[i + 4] = "mounts"
    <3>1. i + n \in 1 .. Len(t) /\ t[i + n] = "look"
      BY <1>1, <2>1, <2>2, <2>4
    <3>2. (i + n) + 4 <= Len(t) /\ t[(i + n) + 4] = "mounts"
      BY <3>1 DEF Lineup, Part
    <3> QED
      BY <1>1, <2>1, <2>2, <3>2
  <2>5. u[Len(u)] = t[Len(t)] /\ t # <<>>
    BY <1>1, <2>1, <2>2
  <2>6. Lineup(u)
    BY <2>1, <2>3, <2>4, <2>5 DEF Lineup, Part
  <2>7. ASSUME OpenThenStop(t), NEW i \in 1 .. Len(u), u[i] = "launchOpen"
        PROVE  \E j \in i + 1 .. Len(u) : u[j] = "kill"
    <3>1. i + n \in 1 .. Len(t) /\ t[i + n] = "launchOpen"
      BY <1>1, <2>1, <2>2, <2>7
    <3>2. PICK j \in (i + n) + 1 .. Len(t) : t[j] = "kill"
      BY <2>7, <3>1 DEF OpenThenStop
    <3>3. j - n \in i + 1 .. Len(u) /\ u[j - n] = t[(j - n) + n]
      BY <1>1, <2>1, <2>2
    <3>4. (j - n) + n = j
      BY <1>1
    <3> QED
      BY <3>2, <3>3, <3>4
  <2>8. ASSUME NEW j \in n + 1 .. Len(t), t[j] = "kill" PROVE KillIn(u)
    <3>1. j - n \in 1 .. Len(u) /\ u[j - n] = t[(j - n) + n] /\ (j - n) + n = j
      BY <1>1, <2>1, <2>2
    <3> QED
      BY <2>8, <3>1 DEF KillIn
  <2>9. ASSUME NEW i \in 1 .. Len(u), u[i] = "kill" PROVE KillIn(t)
    <3>1. i + n \in 1 .. Len(t) /\ u[i] = t[i + n]
      BY <1>1, <2>1, <2>2
    <3> QED
      BY <2>9, <3>1 DEF KillIn
  <2>10. OpenThenStop(t) => OpenThenStop(u)
    BY <2>7 DEF OpenThenStop
  <2>11. KillIn(u) => KillIn(t)
    BY <2>9 DEF KillIn
  <2> QED
    BY <1>3, <2>2, <2>6, <2>8, <2>10, <2>11, Zenon DEF u
<1> QED
  BY <1>2, <1>3

\* What a lineup begins with.
LEMMA FrontOf ==
  ASSUME NEW t, Lineup(t), t # <<>>
  PROVE  /\ Len(t) \in Nat \ {0} /\ Head(t) = t[1] /\ t[1] \in Steps
         /\ Len(t) = 1 => t[1] \in Last
         /\ \A i \in 1 .. Len(t) - 1 : t[i + 1] \in following[t[i]]
         /\ \A i \in 1 .. Len(t) : (i = Len(t) => t[i] \in Last)
         /\ t[1] = "look" => 5 <= Len(t) /\ t[5] = "mounts"
<1>1. t \in Seq(Steps) /\ Len(t) \in Nat \ {0} /\ Head(t) = t[1] /\ t[1] \in Steps
  BY DEF Lineup, Part
<1>2. t[Len(t)] \in Last /\ (\A i \in 1 .. Len(t) - 1 : t[i + 1] \in following[t[i]])
      /\ \A i \in 1 .. Len(t) : t[i] = "look" => i + 4 <= Len(t) /\ t[i + 4] = "mounts"
  BY DEF Lineup, Part
<1>3. t[1] = "look" => 1 + 4 <= Len(t) /\ t[1 + 4] = "mounts"
  BY <1>1, <1>2
<1> QED
  BY <1>1, <1>2, <1>3

-----------------------------------------------------------------------------
(* The plans put together.                                                  *)

FromTo(s, first, last) == Part(s) /\ s # <<>> /\ s[1] = first /\ s[Len(s)] = last

LEMMA Join ==
  ASSUME NEW s, NEW t, NEW a, NEW b, NEW c, NEW d, FromTo(s, a, b), FromTo(t, c, d), c \in following[b]
  PROVE  /\ FromTo(s \o t, a, d)
         /\ KillIn(s) \/ KillIn(t) => KillIn(s \o t)
         /\ OpenThenStop(t) /\ (KillIn(t) \/ OpenThenStop(s)) => OpenThenStop(s \o t)
<1> DEFINE all == s \o t
<1>0. /\ s \in Seq(Steps) /\ t \in Seq(Steps) /\ Len(s) \in Nat \ {0} /\ Len(t) \in Nat \ {0}
      /\ s[1] = a /\ s[Len(s)] = b /\ t[1] = c /\ t[Len(t)] = d
  BY DEF FromTo, Part
<1>1. /\ all \in Seq(Steps) /\ Len(all) = Len(s) + Len(t)
      /\ \A i \in 1 .. Len(s) : all[i] = s[i]
      /\ \A i \in 1 .. Len(t) : all[i + Len(s)] = t[i]
  <2>1. /\ all \in Seq(Steps) /\ Len(all) = Len(s) + Len(t)
        /\ \A i \in 1 .. Len(all) : all[i] = IF i <= Len(s) THEN s[i] ELSE t[i - Len(s)]
    BY <1>0
  <2> HIDE DEF all
  <2>2. \A i \in 1 .. Len(s) : all[i] = s[i]
    BY <1>0, <2>1
  <2>3. ASSUME NEW i \in 1 .. Len(t) PROVE all[i + Len(s)] = t[i]
    <3>1. i + Len(s) \in 1 .. Len(all) /\ ~(i + Len(s) <= Len(s)) /\ (i + Len(s)) - Len(s) = i
      BY <1>0, <2>1
    <3>2. all[i + Len(s)] = t[(i + Len(s)) - Len(s)]
      BY <2>1, <3>1
    <3> QED
      BY <3>1, <3>2
  <2> QED
    BY <2>1, <2>2, <2>3
<1> HIDE DEF all
<1>2. \A i \in 1 .. Len(all) : i \in 1 .. Len(s) \/ \E k \in 1 .. Len(t) : i = k + Len(s)
  <2> SUFFICES ASSUME NEW i \in 1 .. Len(all), i \notin 1 .. Len(s)
               PROVE  \E k \in 1 .. Len(t) : i = k + Len(s)
    OBVIOUS
  <2>1. i - Len(s) \in 1 .. Len(t) /\ i = (i - Len(s)) + Len(s)
    BY <1>0, <1>1
  <2> QED
    BY <2>1
<1>3. ASSUME NEW i \in 1 .. Len(all) - 1 PROVE all[i + 1] \in following[all[i]]
  <2>0. i \in 1 .. Len(all) /\ i \in Nat
    BY <1>0, <1>1
  <2>1. CASE i < Len(s)
    <3>1. i \in 1 .. Len(s) /\ i + 1 \in 1 .. Len(s) /\ i \in 1 .. Len(s) - 1
      BY <1>0, <2>0, <2>1
    <3>2. all[i] = s[i] /\ all[i + 1] = s[i + 1]
      BY <1>1, <3>1
    <3> QED
      BY <3>1, <3>2, Zenon DEF FromTo, Part
  <2>2. CASE i = Len(s)
    <3>1. 1 \in 1 .. Len(t) /\ i \in 1 .. Len(s) /\ i + 1 = 1 + Len(s)
      BY <1>0, <2>2
    <3>2. all[i] = b /\ all[i + 1] = c
      BY <1>0, <1>1, <2>2, <3>1
    <3> QED
      BY <3>2, Zenon
  <2>3. CASE i > Len(s)
    <3>0. i \notin 1 .. Len(s)
      BY <1>0, <2>3
    <3>1. PICK k \in 1 .. Len(t) : i = k + Len(s)
      BY <1>2, <2>0, <3>0, Zenon
    <3>2. k + 1 \in 1 .. Len(t) /\ i + 1 = (k + 1) + Len(s) /\ k \in 1 .. Len(t) - 1
      BY <1>0, <1>1, <3>1
    <3>3. all[i] = t[k] /\ all[i + 1] = t[k + 1]
      BY <1>1, <3>1, <3>2
    <3> QED
      BY <3>2, <3>3, Zenon DEF FromTo, Part
  <2> QED
    BY <1>0, <2>0, <2>1, <2>2, <2>3
<1>4. ASSUME NEW i \in 1 .. Len(all), all[i] = "look" PROVE i + 4 <= Len(all) /\ all[i + 4] = "mounts"
  <2>1. CASE i \in 1 .. Len(s)
    <3>1. i + 4 <= Len(s) /\ s[i + 4] = "mounts"
      BY <1>1, <1>4, <2>1 DEF FromTo, Part
    <3>2. i + 4 \in 1 .. Len(s)
      BY <1>0, <2>1, <3>1
    <3> QED
      BY <1>0, <1>1, <3>1, <3>2
  <2>2. ASSUME NEW k \in 1 .. Len(t), i = k + Len(s) PROVE i + 4 <= Len(all) /\ all[i + 4] = "mounts"
    <3>1. k + 4 <= Len(t) /\ t[k + 4] = "mounts"
      BY <1>1, <1>4, <2>2 DEF FromTo, Part
    <3>2. k + 4 \in 1 .. Len(t) /\ i + 4 = (k + 4) + Len(s)
      BY <1>0, <2>2, <3>1
    <3> QED
      BY <1>0, <1>1, <3>1, <3>2
  <2> QED
    BY <1>2, <2>1, <2>2
<1>5. all # <<>> /\ all[1] = a /\ all[Len(all)] = d
  <2>1. 1 \in 1 .. Len(s) /\ Len(t) \in 1 .. Len(t) /\ Len(all) = Len(t) + Len(s) /\ Len(all) # 0
    BY <1>0, <1>1
  <2> QED
    BY <1>0, <1>1, <2>1
<1>6. KillIn(s) => KillIn(all)
  <2> SUFFICES ASSUME NEW i \in 1 .. Len(s), s[i] = "kill" PROVE KillIn(all)
    BY DEF KillIn
  <2>1. i \in 1 .. Len(all) /\ all[i] = "kill"
    BY <1>0, <1>1
  <2> QED
    BY <2>1 DEF KillIn
<1>7. ASSUME NEW i \in 1 .. Len(t), t[i] = "kill"
      PROVE  i + Len(s) \in Len(s) + 1 .. Len(all) /\ all[i + Len(s)] = "kill"
  BY <1>0, <1>1, <1>7
<1>8. KillIn(t) => KillIn(all)
  BY <1>0, <1>7 DEF KillIn
<1>9. ASSUME OpenThenStop(t), KillIn(t) \/ OpenThenStop(s), NEW i \in 1 .. Len(all), all[i] = "launchOpen"
      PROVE  \E j \in i + 1 .. Len(all) : all[j] = "kill"
  <2>1. CASE i \in 1 .. Len(s)
    <3>1. CASE KillIn(t)
      <4>1. PICK k \in 1 .. Len(t) : t[k] = "kill"
        BY <3>1 DEF KillIn
      <4>2. k + Len(s) \in i + 1 .. Len(all) /\ all[k + Len(s)] = "kill"
        BY <1>0, <1>7, <2>1, <4>1
      <4> QED
        BY <4>2
    <3>2. CASE OpenThenStop(s)
      <4>1. PICK j \in i + 1 .. Len(s) : s[j] = "kill"
        BY <1>1, <1>9, <2>1, <3>2 DEF OpenThenStop
      <4>2. j \in i + 1 .. Len(all) /\ j \in 1 .. Len(s)
        BY <1>0, <1>1, <2>1
      <4> QED
        BY <1>1, <4>1, <4>2
    <3> QED
      BY <1>9, <3>1, <3>2
  <2>2. ASSUME NEW k \in 1 .. Len(t), i = k + Len(s) PROVE \E j \in i + 1 .. Len(all) : all[j] = "kill"
    <3>1. PICK j \in k + 1 .. Len(t) : t[j] = "kill"
      BY <1>1, <1>9, <2>2 DEF OpenThenStop
    <3>2. j \in 1 .. Len(t) /\ j + Len(s) \in i + 1 .. Len(all)
      BY <1>0, <1>1, <2>2
    <3> QED
      BY <1>1, <3>1, <3>2
  <2> QED
    BY <1>2, <2>1, <2>2
<1>10. OpenThenStop(t) /\ (KillIn(t) \/ OpenThenStop(s)) => OpenThenStop(all)
  BY <1>9 DEF OpenThenStop
<1>11. FromTo(all, a, d)
  BY <1>1, <1>3, <1>4, <1>5 DEF FromTo, Part
<1> QED
  BY <1>6, <1>8, <1>10, <1>11 DEF all

\* A single step.
LEMMA One ==
  ASSUME NEW step \in Steps \ {"look", "launchOpen"}
  PROVE  FromTo(<<step>>, step, step) /\ OpenThenStop(<<step>>)
BY DEF FromTo, Part, OpenThenStop

LEMMA StopPart == FromTo(StopVM, "halt", "finish") /\ KillIn(StopVM) /\ OpenThenStop(StopVM)
<1>1. StopVM \in Seq(Steps) /\ Len(StopVM) = 5
  BY DEF StopVM, Steps
<1>2. /\ StopVM[1] = "halt" /\ StopVM[2] = "acpi" /\ StopVM[3] = "term" /\ StopVM[4] = "kill"
      /\ StopVM[5] = "finish"
  BY DEF StopVM
<1>3. StopVM # <<>>
  BY DEF StopVM
<1>4. \A i \in 1 .. 4 : StopVM[i + 1] \in following[StopVM[i]]
  <2>1. \A i \in 1 .. 4 : i = 1 \/ i = 2 \/ i = 3 \/ i = 4
    OBVIOUS
  <2>2. 1 + 1 = 2 /\ 2 + 1 = 3 /\ 3 + 1 = 4 /\ 4 + 1 = 5
    OBVIOUS
  <2> QED
    BY <1>2, <2>1, <2>2, FollowingIs
<1>5. \A i \in 1 .. 5 : StopVM[i] \notin {"look", "launchOpen"}
  <2>1. \A i \in 1 .. 5 : i = 1 \/ i = 2 \/ i = 3 \/ i = 4 \/ i = 5
    OBVIOUS
  <2> QED
    BY <1>2, <2>1
<1> HIDE DEF StopVM
<1>6. Part(StopVM) /\ KillIn(StopVM) /\ OpenThenStop(StopVM)
  <2>1. Len(StopVM) - 1 = 4 /\ 4 \in 1 .. 5
    BY <1>1
  <2> QED
    BY <1>1, <1>2, <1>4, <1>5, <2>1 DEF Part, KillIn, OpenThenStop
<1> QED
  BY <1>1, <1>2, <1>3, <1>6 DEF FromTo

\* A start, with the network restricted or open.
LEMMA StartPart ==
  ASSUME NEW launch \in {"launch", "launchOpen"}
  PROVE  LET t == <<"look", "clear", launch, "record", "mounts">> IN
         FromTo(t, "look", "mounts") /\ (launch = "launch" => OpenThenStop(t))
<1> DEFINE t == <<"look", "clear", launch, "record", "mounts">>
<1>1. t \in Seq(Steps) /\ Len(t) = 5 /\ t # <<>>
  BY DEF Steps
<1>2. t[1] = "look" /\ t[2] = "clear" /\ t[3] = launch /\ t[4] = "record" /\ t[5] = "mounts"
  OBVIOUS
<1> HIDE DEF t
<1>3. \A i \in 1 .. 4 : t[i + 1] \in following[t[i]]
  <2>1. \A i \in 1 .. 4 : i = 1 \/ i = 2 \/ i = 3 \/ i = 4
    OBVIOUS
  <2>2. 1 + 1 = 2 /\ 2 + 1 = 3 /\ 3 + 1 = 4 /\ 4 + 1 = 5
    OBVIOUS
  <2> QED
    BY <1>2, <2>1, <2>2, FollowingIs
<1>4. \A i \in 1 .. 5 : (t[i] = "look" => i = 1) /\ (t[i] = "launchOpen" => launch = "launchOpen")
  <2>1. \A i \in 1 .. 5 : i = 1 \/ i = 2 \/ i = 3 \/ i = 4 \/ i = 5
    OBVIOUS
  <2> QED
    BY <1>2, <2>1
<1>5. Part(t)
  <2>1. Len(t) - 1 = 4 /\ 1 + 4 = 5
    BY <1>1
  <2> QED
    BY <1>1, <1>2, <1>3, <1>4, <2>1 DEF Part
<1>6. launch = "launch" => OpenThenStop(t)
  BY <1>1, <1>4 DEF OpenThenStop
<1> QED
  BY <1>1, <1>2, <1>5, <1>6 DEF FromTo, t

LEMMA StartKillsNothing == ~KillIn(StartVM)
<1>1. Len(StartVM) = 5 /\ StartVM[1] = "look" /\ StartVM[2] = "clear" /\ StartVM[3] = "launch"
      /\ StartVM[4] = "record" /\ StartVM[5] = "mounts"
  BY DEF StartVM
<1>2. \A i \in 1 .. 5 : i = 1 \/ i = 2 \/ i = 3 \/ i = 4 \/ i = 5
  OBVIOUS
<1> HIDE DEF StartVM
<1> QED
  BY <1>1, <1>2 DEF KillIn

\* Every plan is a lineup, and one that opens the network at the launch stops
\* the machine again, if it provisions.
LEMMA PlansAreLineups ==
  ASSUME site \in Sites,
         NEW op \in {"create", "start", "stop", "kill", "rebuild", "fresh", "delete", "export"}
  PROVE  /\ Lineup(Plan(op)) /\ Plan(op) # <<>>
         /\ Head(Plan(op)) \in {"prepare", "look", "halt", "slay"}
         /\ Head(Plan(op)) = "prepare" => op = "create"
         /\ Head(Plan(op)) = "look" => op = "start"
         /\ (op = "fresh" => Provisioned) => OpenThenStop(Plan(op))
<1> DEFINE Good(t, d) == Lineup(t) /\ t # <<>> /\ Head(t) = d
           restart == StopVM \o StartVM
<1>0. Provisioned \in BOOLEAN
  BY SitesAssumption DEF Provisioned
<1>1. ASSUME NEW t, NEW c, NEW d, FromTo(t, c, d), d \in Last
      PROVE  Good(t, c)
  BY <1>1 DEF FromTo, Part, Lineup
<1> HIDE DEF Good
<1>2. FromTo(StartVM, "look", "mounts") /\ OpenThenStop(StartVM)
  BY StartPart DEF StartVM
<1>3. /\ "look" \in following["finish"] /\ "moveDisk" \in following["finish"] /\ "remove" \in following["finish"]
      /\ "copy" \in following["finish"] /\ "configure" \in following["mounts"]
      /\ "configure" \in following["record"] /\ "provision" \in following["record"]
      /\ "provision" \in following["mounts"] /\ "configure" \in following["provision"]
      /\ "halt" \in following["configure"] /\ "prepare" \in following["moveDisk"]
      /\ "look" \in following["prepare"]
  BY FollowingIs
<1>4. FromTo(restart, "halt", "mounts") /\ KillIn(restart) /\ OpenThenStop(restart)
  BY <1>2, <1>3, StopPart, Join
<1> HIDE DEF restart
<1>5. /\ FromTo(<<"configure">>, "configure", "configure") /\ OpenThenStop(<<"configure">>)
      /\ FromTo(<<"provision">>, "provision", "provision") /\ OpenThenStop(<<"provision">>)
      /\ FromTo(<<"remove">>, "remove", "remove") /\ OpenThenStop(<<"remove">>)
      /\ FromTo(<<"copy">>, "copy", "copy") /\ OpenThenStop(<<"copy">>)
      /\ FromTo(<<"slay">>, "slay", "slay") /\ OpenThenStop(<<"slay">>)
      /\ FromTo(<<"moveDisk">>, "moveDisk", "moveDisk") /\ FromTo(<<"prepare">>, "prepare", "prepare")
      /\ OpenThenStop(<<"moveDisk">>) /\ OpenThenStop(<<"prepare">>)
  BY One DEF Steps
<1>6. /\ "configure" \in Last /\ "mounts" \in Last /\ "finish" \in Last /\ "slay" \in Last
      /\ "remove" \in Last /\ "copy" \in Last
  BY DEF Last
<1>7. \A t : t \in Seq(Steps) => t \o <<>> = t
  OBVIOUS
<1>8. CASE op = "create"
  <2> DEFINE first == <<"prepare", IF Provisioned THEN "launchOpen" ELSE "launch", "record">>
  <2>1. FromTo(first, "prepare", "record") /\ (~Provisioned => OpenThenStop(first))
    <3>1. ASSUME NEW launch \in {"launch", "launchOpen"}
          PROVE  /\ FromTo(<<"prepare", launch, "record">>, "prepare", "record")
                 /\ launch = "launch" => OpenThenStop(<<"prepare", launch, "record">>)
      <4> DEFINE t == <<"prepare", launch, "record">>
      <4>1. t \in Seq(Steps) /\ Len(t) = 3 /\ t # <<>> /\ t[1] = "prepare" /\ t[2] = launch /\ t[3] = "record"
        BY DEF Steps
      <4> HIDE DEF t
      <4>2. \A i \in 1 .. 2 : t[i + 1] \in following[t[i]]
        <5>1. \A i \in 1 .. 2 : i = 1 \/ i = 2
          OBVIOUS
        <5>2. 1 + 1 = 2 /\ 2 + 1 = 3
          OBVIOUS
        <5> QED
          BY <4>1, <5>1, <5>2, FollowingIs
      <4>3. \A i \in 1 .. 3 : t[i] # "look" /\ (launch = "launch" => t[i] # "launchOpen")
        <5>1. \A i \in 1 .. 3 : i = 1 \/ i = 2 \/ i = 3
          OBVIOUS
        <5> QED
          BY <4>1, <5>1
      <4>4. Len(t) - 1 = 2
        BY <4>1
      <4> QED
        BY <4>1, <4>2, <4>3, <4>4 DEF FromTo, Part, OpenThenStop, t
    <3> QED
      BY <1>0, <3>1
  <2>2. CASE Provisioned
    <3>1. Plan(op) = ((first \o <<"provision">>) \o <<"configure">>) \o restart
      BY <1>8, <2>2 DEF Plan, CreateVM, restart
    <3> HIDE DEF first
    <3>2. FromTo(first \o <<"provision">>, "prepare", "provision")
      BY <1>3, <1>5, <2>1, Join
    <3>3. FromTo((first \o <<"provision">>) \o <<"configure">>, "prepare", "configure")
      BY <1>3, <1>5, <3>2, Join
    <3>4. FromTo(((first \o <<"provision">>) \o <<"configure">>) \o restart, "prepare", "mounts")
          /\ OpenThenStop(((first \o <<"provision">>) \o <<"configure">>) \o restart)
      BY <1>3, <1>4, <3>3, Join
    <3>5. FromTo(Plan(op), "prepare", "mounts") /\ OpenThenStop(Plan(op))
      BY <3>1, <3>4, Zenon
    <3> QED
      BY <1>1, <1>6, <1>8, <3>5 DEF Good
  <2>3. CASE ~Provisioned
    <3>1. Plan(op) = ((first \o <<>>) \o <<"configure">>) \o <<>>
      BY <1>8, <2>3 DEF Plan, CreateVM
    <3> HIDE DEF first
    <3>2. first \in Seq(Steps)
      BY <2>1 DEF FromTo, Part
    <3>3. first \o <<>> = first
      BY <1>7, <3>2
    <3>4. FromTo(first \o <<"configure">>, "prepare", "configure") /\ OpenThenStop(first \o <<"configure">>)
      BY <1>3, <1>5, <2>1, <2>3, Join
    <3>5. (first \o <<"configure">>) \o <<>> = first \o <<"configure">>
      <4>1. first \o <<"configure">> \in Seq(Steps)
        BY <3>4 DEF FromTo, Part
      <4> QED
        BY <1>7, <4>1, Zenon
    <3>6. Plan(op) = first \o <<"configure">>
      BY <3>1, <3>3, <3>5, Zenon
    <3>7. FromTo(Plan(op), "prepare", "configure") /\ OpenThenStop(Plan(op))
      BY <3>4, <3>6, Zenon
    <3> QED
      BY <1>1, <1>6, <1>8, <3>7 DEF Good
  <2> QED
    BY <2>2, <2>3
<1>9. CASE op = "start"
  <2>1. Plan(op) = StartVM
    BY <1>9 DEF Plan
  <2>2. Good(Plan(op), "look") /\ OpenThenStop(Plan(op))
    BY <1>1, <1>2, <1>6, <2>1
  <2> QED
    BY <1>9, <2>2 DEF Good
<1>10. CASE op = "stop"
  <2>1. Plan(op) = StopVM
    BY <1>10 DEF Plan
  <2>2. Good(Plan(op), "halt") /\ OpenThenStop(Plan(op))
    BY <1>1, <1>6, <2>1, StopPart
  <2> QED
    BY <1>10, <2>2 DEF Good
<1>11. CASE op = "kill"
  <2>1. Plan(op) = <<"slay">>
    BY <1>11 DEF Plan
  <2>2. Good(Plan(op), "slay") /\ OpenThenStop(Plan(op))
    BY <1>1, <1>5, <1>6, <2>1
  <2> QED
    BY <1>11, <2>2 DEF Good
<1>12. CASE op \in {"delete", "export"}
  <2>1. /\ op = "delete" => Plan(op) = StopVM \o <<"remove">>
        /\ op = "export" => Plan(op) = StopVM \o <<"copy">>
    BY <1>12 DEF Plan, export_vm
  <2>2. /\ FromTo(StopVM \o <<"remove">>, "halt", "remove") /\ OpenThenStop(StopVM \o <<"remove">>)
        /\ FromTo(StopVM \o <<"copy">>, "halt", "copy") /\ OpenThenStop(StopVM \o <<"copy">>)
    BY <1>3, <1>5, StopPart, Join
  <2>3. Good(Plan(op), "halt") /\ OpenThenStop(Plan(op))
    BY <1>1, <1>6, <1>12, <2>1, <2>2
  <2> QED
    BY <1>12, <2>3 DEF Good
<1>13. CASE op \in {"rebuild", "fresh"}
  <2> DEFINE fresh == op = "fresh"
             again == IF fresh
                      THEN <<"moveDisk", "prepare", "look", "clear", "launchOpen", "record", "mounts">>
                      ELSE StartVM
             guest == IF Provisioned THEN <<"provision">> ELSE <<>>
             closing == IF fresh /\ Provisioned THEN restart ELSE <<>>
  <2>1. Plan(op) = (((StopVM \o again) \o guest) \o <<"configure">>) \o closing
    BY <1>13 DEF Plan, rebuild, restart
  <2>2. FromTo(again, IF fresh THEN "moveDisk" ELSE "look", "mounts") /\ (~fresh => OpenThenStop(again))
    <3>1. CASE fresh
      <4> DEFINE open == <<"look", "clear", "launchOpen", "record", "mounts">>
      <4>1. FromTo(open, "look", "mounts")
        BY StartPart
      <4>2. again = <<"moveDisk">> \o (<<"prepare">> \o open)
        BY <3>1
      <4> HIDE DEF open
      <4>3. FromTo(<<"prepare">> \o open, "prepare", "mounts")
        BY <1>3, <1>5, <4>1, Join
      <4>4. FromTo(<<"moveDisk">> \o (<<"prepare">> \o open), "moveDisk", "mounts")
        BY <1>3, <1>5, <4>3, Join
      <4> HIDE DEF again
      <4>5. FromTo(again, "moveDisk", "mounts")
        BY <4>2, <4>4, Zenon
      <4> QED
        BY <3>1, <4>5
    <3>2. CASE ~fresh
      BY <1>2, <3>2
    <3> QED
      BY <3>1, <3>2
  <2> HIDE DEF again
  <2>3. FromTo(StopVM \o again, "halt", "mounts") /\ (~fresh => OpenThenStop(StopVM \o again))
    BY <1>3, <2>2, StopPart, Join
  <2>4. \E b \in {"mounts", "provision"} : FromTo((StopVM \o again) \o guest, "halt", b)
        /\ (~fresh => OpenThenStop((StopVM \o again) \o guest))
    <3>1. CASE Provisioned
      <4>1. guest = <<"provision">>
        BY <3>1
      <4>2. FromTo((StopVM \o again) \o <<"provision">>, "halt", "provision")
            /\ (~fresh => OpenThenStop((StopVM \o again) \o <<"provision">>))
        BY <1>3, <1>5, <2>3, Join
      <4> HIDE DEF guest
      <4> QED
        BY <4>1, <4>2
    <3>2. CASE ~Provisioned
      <4>1. guest = <<>>
        BY <3>2
      <4>2. StopVM \o again \in Seq(Steps)
        BY <2>3 DEF FromTo, Part
      <4>3. (StopVM \o again) \o <<>> = StopVM \o again
        BY <1>7, <4>2
      <4>4. (StopVM \o again) \o guest = StopVM \o again
        BY <4>1, <4>3, Zenon
      <4> HIDE DEF guest, fresh
      <4>5. FromTo((StopVM \o again) \o guest, "halt", "mounts")
            /\ (~fresh => OpenThenStop((StopVM \o again) \o guest))
        BY <2>3, <4>4, Zenon
      <4> QED
        BY <4>5
    <3> QED
      BY <1>0, <3>1, <3>2
  <2> HIDE DEF guest
  <2> DEFINE body == ((StopVM \o again) \o guest) \o <<"configure">>
  <2>5. FromTo(body, "halt", "configure") /\ (~fresh => OpenThenStop(body))
    BY <1>3, <1>5, <2>4, Join
  <2> HIDE DEF body
  <2>6. Plan(op) = body \o closing
    BY <2>1 DEF body
  <2>7. CASE fresh /\ Provisioned
    <3>1. closing = restart
      BY <2>7
    <3> HIDE DEF closing, fresh
    <3>2. FromTo(body \o restart, "halt", "mounts") /\ OpenThenStop(body \o restart)
      BY <1>3, <1>4, <2>5, Join
    <3>3. FromTo(Plan(op), "halt", "mounts") /\ OpenThenStop(Plan(op))
      BY <2>6, <3>1, <3>2, Zenon
    <3> QED
      BY <1>1, <1>6, <3>3 DEF Good
  <2>8. CASE ~(fresh /\ Provisioned)
    <3>1. closing = <<>>
      BY <2>8
    <3>2. body \in Seq(Steps)
      BY <2>5 DEF FromTo, Part
    <3>3. body \o <<>> = body
      BY <1>7, <3>2
    <3> HIDE DEF closing
    <3>4. Plan(op) = body
      BY <2>6, <3>1, <3>3, Zenon
    <3>5. Good(Plan(op), "halt") /\ (~fresh => OpenThenStop(Plan(op)))
      BY <1>1, <1>6, <2>5, <3>4
    <3> QED
      BY <2>8, <3>5 DEF Good
  <2> QED
    BY <2>7, <2>8
<1> QED
  BY <1>8, <1>9, <1>10, <1>11, <1>12, <1>13

-----------------------------------------------------------------------------
(* The invariant.                                                           *)

ClientType == client \in [Client -> [todo : Seq(Steps), pid : Pid \union {None}, identity : Nat \union {None}]]
ProcType == proc \in [Pid -> [kind : {"free", "vm", "other", "foreign"}, birth : Nat, restricted : BOOLEAN]]
StateType == state \in [pid_start : Nat \union {None}, error : BOOLEAN, stopped : BOOLEAN]

TypeOk ==
  /\ site \in Sites /\ vmDir \in {"new", "live", "gone"} /\ disk \in BOOLEAN
  /\ pidFile \in Pid \union {None} /\ births \in Nat /\ crashes \in Nat
  /\ escaped \in BOOLEAN
  /\ ClientType /\ ProcType /\ StateType

Before(c, steps) == Front(client[c].todo, steps)

\* The steps of a stop that waits, and the steps taken with no QEMU up.
Waits == {"acpi", "term", "kill"}
Downs == {"prepare", "clear", "finish", "moveDisk", "remove", "copy"}

\* Nothing is under way before the machine is created.
LineupsInv ==
  /\ \A c \in Client : Lineup(client[c].todo)
  /\ vmDir = "new" => \A c \in Client : Idle(c)

\* A start time is given once, and the one on record is not a stranger's.
BirthsInv ==
  /\ \A p \in Pid : proc[p].birth <= births
  /\ \A p, q \in Pid : p # q /\ _process_alive(p) /\ _process_alive(q) => proc[p].birth # proc[q].birth
  /\ state.pid_start # None =>
       state.pid_start <= births /\ \A p \in Pid : proc[p].kind = "other" => proc[p].birth # state.pid_start

\* What a command has just launched, and what a stop that had a start time to
\* go by waits on, is no stranger's number.
NumbersInv ==
  vmDir = "live" =>
    /\ (\E c \in Client : Before(c, {"record"})) =>
         \A p \in Pid : pidFile = p => proc[p].kind # "other"
    /\ \A c \in Client : Before(c, Waits) =>
         client[c].pid \in Pid /\ (client[c].identity # None => proc[client[c].pid].kind # "other")

AnyInv == TypeOk /\ LineupsInv /\ BirthsInv /\ NumbersInv /\ RecordProtectsStrangers

\* With one command at a time: who is at work, and what is up when.
Alone == \A c, d \in Client : ~Idle(c) /\ ~Idle(d) => c = d

TrackedInv ==
  /\ \A p \in Pid : proc[p].kind = "vm" => pidFile = p /\ vmDir = "live"
  /\ \A c \in Client :
       /\ Before(c, Downs) => ~QemuUp
       /\ Before(c, {"look"}) /\ KillIn(client[c].todo) => ~QemuUp
       /\ Before(c, Waits) => \A p \in Pid : proc[p].kind = "vm" => client[c].pid = p

\* What state.yaml says of the QEMU that is up, until it is written anew.
RecordInv ==
  (\A c \in Client : ~Before(c, {"record"})) =>
    /\ state.stopped => ~QemuUp
    /\ \A p \in Pid : proc[p].kind = "vm" => state.pid_start \in {None, proc[p].birth}

OneInv == ~overlapped => Alone /\ TrackedInv /\ (crashes = 0 => RecordInv)

\* A rebuild from a fresh disk is only given for a machine that provisions.
FreshProvisions == \A c \in Client : "fresh" \in site.ops[c] => Provisioned

\* A QEMU whose network is open will be stopped, or a failure is known of that
\* the command at work is not about to take back.
OpenInv ==
  Uninterrupted /\ FreshProvisions =>
    /\ \A c \in Client : OpenThenStop(client[c].todo)
    /\ \A p \in Pid : proc[p].kind = "vm" /\ ~proc[p].restricted =>
         \/ \E c \in Client : KillIn(client[c].todo)
         \/ (state.error \/ escaped) /\ \A c \in Client : ~Before(c, {"record"})

QemuInv == AnyInv /\ OneInv /\ OpenInv

\* What every step does besides.
Watch ==
  /\ overlapped' = (overlapped \/ \E c, d \in Client :
                      c # d /\ client'[c].todo # <<>> /\ client'[d].todo # <<>>)
  /\ UNCHANGED site

-----------------------------------------------------------------------------
(* Where a step leaves its command.                                         *)

OthersSame(c) == \A d \in Client \ {c} : client'[d] = client[d]

\* The command goes on to one of the steps, or has ended.
GoesTo(c, steps) ==
  /\ OthersSame(c)
  /\ Lineup(client'[c].todo) /\ (OpenThenStop(client[c].todo) => OpenThenStop(client'[c].todo))
  /\ client'[c].todo = <<>> \/ Front(client'[c].todo, steps)

KillAhead(c) == KillIn(client[c].todo) => KillIn(client'[c].todo)

\* The end of a command's steps from its n-th on.
LEMMA MovesOn ==
  ASSUME TypeOk, LineupsInv, NEW c \in Client, NEW n \in Nat,
         NEW pid \in Pid \union {None}, NEW identity \in Nat \union {None},
         client' = [client EXCEPT ![c] = [todo |-> SubSeq(client[c].todo, n + 1, Len(client[c].todo)),
                                          pid |-> pid, identity |-> identity]]
  PROVE  /\ ClientType' /\ OthersSame(c) /\ client'[c].pid = pid /\ client'[c].identity = identity
         /\ client'[c].todo = SubSeq(client[c].todo, n + 1, Len(client[c].todo))
         /\ Lineup(client'[c].todo) /\ (OpenThenStop(client[c].todo) => OpenThenStop(client'[c].todo))
<1> DEFINE u == SubSeq(client[c].todo, n + 1, Len(client[c].todo))
<1>1. Lineup(u) /\ (OpenThenStop(client[c].todo) => OpenThenStop(u))
  BY RestOf DEF LineupsInv
<1>2. u \in Seq(Steps)
  BY <1>1 DEF Lineup, Part
<1> HIDE DEF u
<1>3. client' = [client EXCEPT ![c] = [todo |-> u, pid |-> pid, identity |-> identity]]
  BY DEF u
<1>4. ClientType' /\ OthersSame(c) /\ client'[c] = [todo |-> u, pid |-> pid, identity |-> identity]
  <2> DEFINE S == Seq(Steps)
             r == [todo |-> u, pid |-> pid, identity |-> identity]
  <2>1. client \in [Client -> [todo : S, pid : Pid \union {None}, identity : Nat \union {None}]] /\ u \in S
    BY <1>2 DEF TypeOk, ClientType
  <2> HIDE DEF S
  <2>2. r \in [todo : S, pid : Pid \union {None}, identity : Nat \union {None}]
    BY <2>1
  <2>3. client' = [client EXCEPT ![c] = r]
    BY <1>3
  <2> HIDE DEF r
  <2>4. /\ client' \in [Client -> [todo : S, pid : Pid \union {None}, identity : Nat \union {None}]]
        /\ client'[c] = r /\ \A d \in Client \ {c} : client'[d] = client[d]
    BY <2>1, <2>2, <2>3
  <2> QED
    BY <2>4 DEF ClientType, OthersSame, S, r
<1>5. client'[c].todo = u /\ client'[c].pid = pid /\ client'[c].identity = identity
  BY <1>4
<1> QED
  BY <1>1, <1>4, <1>5, Zenon DEF u

LEMMA SkipMoves ==
  ASSUME TypeOk, LineupsInv, NEW c \in Client, NEW n \in Nat, Skip(c, n)
  PROVE  /\ ClientType' /\ OthersSame(c) /\ client'[c].pid = client[c].pid /\ client'[c].identity = client[c].identity
         /\ client'[c].todo = SubSeq(client[c].todo, n + 1, Len(client[c].todo))
         /\ Lineup(client'[c].todo) /\ (OpenThenStop(client[c].todo) => OpenThenStop(client'[c].todo))
<1> DEFINE u == SubSeq(client[c].todo, n + 1, Len(client[c].todo))
<1>1. client[c].pid \in Pid \union {None} /\ client[c].identity \in Nat \union {None}
  BY DEF TypeOk, ClientType
<1>2. client' = [client EXCEPT ![c].todo = u]
  BY DEF Skip, TypeOk, ClientType
<1> HIDE DEF u
<1>3. client' = [client EXCEPT ![c] = [todo |-> u, pid |-> client[c].pid, identity |-> client[c].identity]]
  <2> DEFINE S == Seq(Steps)
  <2>1. client \in [Client -> [todo : S, pid : Pid \union {None}, identity : Nat \union {None}]]
    BY DEF TypeOk, ClientType
  <2> HIDE DEF S
  <2>2. client[c] = [todo |-> client[c].todo, pid |-> client[c].pid, identity |-> client[c].identity]
    BY <2>1
  <2>3. [client[c] EXCEPT !.todo = u] = [todo |-> u, pid |-> client[c].pid, identity |-> client[c].identity]
    BY <2>1
  <2> QED
    BY <1>2, <2>1, <2>3
<1> DEFINE pid == client[c].pid
           identity == client[c].identity
<1>4. client' = [client EXCEPT ![c] = [todo |-> SubSeq(client[c].todo, n + 1, Len(client[c].todo)),
                                       pid |-> pid, identity |-> identity]]
  BY <1>3 DEF u
<1>5. pid \in Pid \union {None} /\ identity \in Nat \union {None}
  BY <1>1
<1> HIDE DEF pid, identity
<1>6. /\ ClientType' /\ OthersSame(c) /\ client'[c].pid = pid /\ client'[c].identity = identity
      /\ client'[c].todo = SubSeq(client[c].todo, n + 1, Len(client[c].todo))
      /\ Lineup(client'[c].todo) /\ (OpenThenStop(client[c].todo) => OpenThenStop(client'[c].todo))
  BY <1>4, <1>5, MovesOn
<1> QED
  BY <1>6 DEF pid, identity

LEMMA Counting ==
  \A k \in Nat : /\ k >= 1 /\ k # 1 => 2 <= k /\ 1 <= k /\ ~(1 >= k)
                 /\ 5 <= k /\ k # 5 => ~(5 >= k)
OBVIOUS

\* What the first steps of a command are, and what comes after them.
LEMMA Ahead ==
  ASSUME NEW t, Lineup(t), t # <<>>, NEW n \in Nat
  PROVE  LET u == SubSeq(t, n + 1, Len(t)) IN
         /\ n = 1 => /\ u = <<>> => Head(t) \in Last
                     /\ u = <<>> \/ Front(u, following[Head(t)])
                     /\ Head(t) # "kill" /\ KillIn(t) => KillIn(u)
         /\ Head(t) = "look" /\ n = 5 => /\ u = <<>> \/ Front(u, {"provision", "configure"})
                                         /\ KillIn(t) => KillIn(u)
         /\ Head(t) = "halt" /\ n = 5 => u = <<>> \/ Front(u, following["finish"])
         /\ Head(t) = "acpi" /\ n = 3 => Front(u, {"finish"})
         /\ Head(t) = "term" /\ n = 2 => Front(u, {"finish"})
<1> DEFINE u == SubSeq(t, n + 1, Len(t))
<1>1. /\ Len(t) \in Nat \ {0} /\ Head(t) = t[1] /\ t[1] \in Steps
      /\ Len(t) = 1 => t[1] \in Last
      /\ \A i \in 1 .. Len(t) - 1 : t[i + 1] \in following[t[i]]
      /\ \A i \in 1 .. Len(t) : (i = Len(t) => t[i] \in Last)
      /\ t[1] = "look" => 5 <= Len(t) /\ t[5] = "mounts"
  BY FrontOf
<1>0. Len(t) \in Nat /\ Len(t) >= 1
  BY <1>1
<1>2. /\ IF n >= Len(t) THEN u = <<>> ELSE u # <<>> /\ Head(u) = t[n + 1]
      /\ (\E j \in n + 1 .. Len(t) : t[j] = "kill") => KillIn(u)
  BY RestOf
<1> HIDE DEF u
<1>3. ASSUME NEW i \in {1, 2, 3, 4, 5}, i <= Len(t)
      PROVE  IF i = Len(t) THEN t[i] \in Last ELSE t[i + 1] \in following[t[i]]
  <2>1. i \in 1 .. Len(t)
    BY <1>1, <1>3
  <2>2. i # Len(t) => i \in 1 .. Len(t) - 1
    BY <1>1, <2>1
  <2> QED
    BY <1>1, <2>1, <2>2, Zenon
<1>4. n = 1 => /\ u = <<>> => Head(t) \in Last
               /\ u = <<>> \/ Front(u, following[Head(t)])
               /\ Head(t) # "kill" /\ KillIn(t) => KillIn(u)
  <2> SUFFICES ASSUME n = 1
               PROVE  /\ u = <<>> => Head(t) \in Last
                      /\ u = <<>> \/ Front(u, following[Head(t)])
                      /\ Head(t) # "kill" /\ KillIn(t) => KillIn(u)
    OBVIOUS
  <2>1. CASE Len(t) = 1
    <3>1. u = <<>> /\ t[1] \in Last
      BY <1>1, <1>2, <2>1
    <3>2. KillIn(t) => t[1] = "kill"
      <4>1. \A i \in 1 .. 1 : i = 1
        OBVIOUS
      <4> QED
        BY <2>1, <4>1 DEF KillIn
    <3> QED
      BY <1>1, <3>1, <3>2
  <2>2. CASE Len(t) # 1
    <3>0. ~(n >= Len(t)) /\ n + 1 = 1 + 1 /\ 1 <= Len(t)
      BY <1>0, <2>2, Counting, Zenon
    <3>1. u # <<>> /\ Head(u) = t[1 + 1] /\ 1 <= Len(t)
      BY <1>2, <3>0, Zenon
    <3>2. Head(u) \in following[t[1]]
      BY <1>3, <2>2, <3>1
    <3>3. Head(t) # "kill" /\ KillIn(t) => KillIn(u)
      <4> SUFFICES ASSUME t[1] # "kill", NEW i \in 1 .. Len(t), t[i] = "kill" PROVE KillIn(u)
        BY <1>1 DEF KillIn
      <4>1. i \in 1 + 1 .. Len(t)
        BY <1>1
      <4> QED
        BY <1>2, <4>1
    <3> QED
      BY <1>1, <3>1, <3>2, <3>3 DEF Front
  <2> QED
    BY <2>1, <2>2
<1>5. 1 + 1 = 2 /\ 2 + 1 = 3 /\ 3 + 1 = 4 /\ 4 + 1 = 5
  OBVIOUS
<1>6. /\ "halt" \notin Last /\ "acpi" \notin Last /\ "term" \notin Last /\ "kill" \notin Last
      /\ "look" \notin Last /\ "clear" \notin Last /\ "launch" \notin Last /\ "launchOpen" \notin Last
      /\ "record" \notin Last
  BY DEF Last
<1>7. t[1] = "look" /\ n = 5 => /\ u = <<>> \/ Front(u, {"provision", "configure"})
                                /\ KillIn(t) => KillIn(u)
  <2> SUFFICES ASSUME t[1] = "look", n = 5
               PROVE  /\ u = <<>> \/ Front(u, {"provision", "configure"})
                      /\ KillIn(t) => KillIn(u)
    OBVIOUS
  <2>1. 5 <= Len(t) /\ t[5] = "mounts"
    BY <1>1
  <2>2. Len(t) # 5 => u # <<>> /\ Head(u) = t[5 + 1] /\ t[5 + 1] \in {"provision", "configure"}
    <3>1. Len(t) # 5 => t[5 + 1] \in following[t[5]]
      BY <1>3, <2>1
    <3>2. Len(t) # 5 => ~(n >= Len(t)) /\ n + 1 = 5 + 1
      BY <1>0, <2>1, Counting, Zenon
    <3>3. Len(t) # 5 => u # <<>> /\ Head(u) = t[5 + 1]
      BY <1>2, <3>2, Zenon
    <3> QED
      BY <2>1, <3>1, <3>3, FollowingIs
  <2>3. Len(t) = 5 => u = <<>>
    BY <1>1, <1>2
  <2>4. t[2] = "clear"
    <3>1. t[1 + 1] \in following[t[1]]
      BY <1>1, <1>3, <2>1
    <3> QED
      BY <1>5, <3>1, FollowingIs
  <2>5. t[3] \in {"launch", "launchOpen"}
    <3>1. t[2 + 1] \in following[t[2]]
      BY <1>1, <1>3, <2>1
    <3> QED
      BY <1>5, <2>4, <3>1, FollowingIs
  <2>6. t[4] = "record"
    <3>1. t[3 + 1] \in following[t[3]]
      BY <1>1, <1>3, <2>1
    <3> QED
      BY <1>5, <2>5, <3>1, FollowingIs
  <2>7. ASSUME NEW i \in 1 .. Len(t), t[i] = "kill" PROVE KillIn(u)
    <3>1. i # 1 /\ i # 2 /\ i # 3 /\ i # 4 /\ i # 5
      BY <2>1, <2>4, <2>5, <2>6, <2>7
    <3>2. i \in 5 + 1 .. Len(t)
      BY <1>1, <3>1
    <3> QED
      BY <1>2, <2>7, <3>2
  <2> QED
    BY <2>2, <2>3, <2>7 DEF Front, KillIn
<1>8. t[1] = "halt" => 2 <= Len(t) /\ t[2] = "acpi"
  <2> SUFFICES ASSUME t[1] = "halt" PROVE 2 <= Len(t) /\ t[2] = "acpi"
    OBVIOUS
  <2>0. 1 <= Len(t) /\ 1 \in {1, 2, 3, 4, 5}
    BY <1>1
  <2>1. 1 # Len(t) /\ t[1 + 1] \in following[t[1]]
    BY <1>3, <1>6, <2>0
  <2>2. t[1 + 1] = "acpi"
    BY <2>1, FollowingIs
  <2>3. 2 <= Len(t)
    BY <1>0, <2>1, Counting, Zenon
  <2> QED
    BY <1>5, <2>2, <2>3, Zenon
<1>9. ASSUME NEW i \in {1, 2}, i <= Len(t), t[i] = "acpi"
      PROVE  i + 1 <= Len(t) /\ t[i + 1] = "term"
  <2>1. i # Len(t) /\ t[i + 1] \in following[t[i]]
    BY <1>3, <1>6, <1>9
  <2> QED
    BY <1>1, <1>9, <2>1, FollowingIs
<1>10. ASSUME NEW i \in {1, 2, 3}, i <= Len(t), t[i] = "term"
       PROVE  i + 1 <= Len(t) /\ t[i + 1] = "kill"
  <2>1. i # Len(t) /\ t[i + 1] \in following[t[i]]
    BY <1>3, <1>6, <1>10
  <2> QED
    BY <1>1, <1>10, <2>1, FollowingIs
<1>11. ASSUME NEW i \in {1, 2, 3, 4}, i <= Len(t), t[i] = "kill"
       PROVE  i + 1 <= Len(t) /\ t[i + 1] = "finish"
  <2>1. i # Len(t) /\ t[i + 1] \in following[t[i]]
    BY <1>3, <1>6, <1>11
  <2> QED
    BY <1>1, <1>11, <2>1, FollowingIs
<1>12. t[1] = "halt" /\ n = 5 => u = <<>> \/ Front(u, following["finish"])
  <2> SUFFICES ASSUME t[1] = "halt", n = 5 PROVE u = <<>> \/ Front(u, following["finish"])
    OBVIOUS
  <2>1. 3 <= Len(t) /\ t[3] = "term"
    BY <1>5, <1>8, <1>9
  <2>2. 4 <= Len(t) /\ t[4] = "kill"
    BY <1>5, <1>10, <2>1
  <2>3. 5 <= Len(t) /\ t[5] = "finish"
    BY <1>5, <1>11, <2>2
  <2>4. Len(t) # 5 => t[5 + 1] \in following[t[5]]
    BY <1>3, <2>3
  <2> QED
    BY <1>1, <1>2, <2>3, <2>4 DEF Front
<1>13. t[1] = "acpi" /\ n = 3 => Front(u, {"finish"})
  <2> SUFFICES ASSUME t[1] = "acpi", n = 3 PROVE Front(u, {"finish"})
    OBVIOUS
  <2>1. 2 <= Len(t) /\ t[2] = "term"
    BY <1>1, <1>5, <1>9
  <2>2. 3 <= Len(t) /\ t[3] = "kill"
    BY <1>5, <1>10, <2>1
  <2>3. 4 <= Len(t) /\ t[4] = "finish"
    BY <1>5, <1>11, <2>2
  <2> QED
    BY <1>1, <1>2, <2>3 DEF Front
<1>14. t[1] = "term" /\ n = 2 => Front(u, {"finish"})
  <2> SUFFICES ASSUME t[1] = "term", n = 2 PROVE Front(u, {"finish"})
    OBVIOUS
  <2>1. 2 <= Len(t) /\ t[2] = "kill"
    BY <1>1, <1>5, <1>10
  <2>2. 3 <= Len(t) /\ t[3] = "finish"
    BY <1>5, <1>11, <2>1
  <2> QED
    BY <1>1, <1>2, <2>2 DEF Front
<1> QED
  BY <1>1, <1>4, <1>7, <1>12, <1>13, <1>14 DEF u

\* A command at a step takes it and goes on to the next.
LEMMA StepOn ==
  ASSUME TypeOk, LineupsInv, NEW c \in Client, NEW step \in Steps, At(c, step), Skip(c, 1)
  PROVE  /\ ClientType' /\ OthersSame(c) /\ client'[c].pid = client[c].pid /\ client'[c].identity = client[c].identity
         /\ Lineup(client'[c].todo) /\ (OpenThenStop(client[c].todo) => OpenThenStop(client'[c].todo))
         /\ client'[c].todo = <<>> \/ Front(client'[c].todo, following[step])
         /\ client'[c].todo = <<>> => step \in Last
         /\ step # "kill" => KillAhead(c)
<1>1. Lineup(client[c].todo) /\ client[c].todo # <<>> /\ Head(client[c].todo) = step
  BY DEF LineupsInv, At, Idle
<1> DEFINE t == client[c].todo
           u == SubSeq(t, 1 + 1, Len(t))
<1>2. /\ ClientType' /\ OthersSame(c) /\ client'[c].pid = client[c].pid /\ client'[c].identity = client[c].identity
      /\ client'[c].todo = u
      /\ Lineup(client'[c].todo) /\ (OpenThenStop(client[c].todo) => OpenThenStop(client'[c].todo))
  BY SkipMoves
<1>3. /\ u = <<>> => Head(t) \in Last
      /\ u = <<>> \/ Front(u, following[Head(t)])
      /\ Head(t) # "kill" /\ KillIn(t) => KillIn(u)
  BY <1>1, Ahead
<1> QED
  BY <1>1, <1>2, <1>3, Zenon DEF KillAhead

LEMMA Empties == Lineup(<<>>) /\ OpenThenStop(<<>>) /\ ~KillIn(<<>>)
BY DEF Lineup, Part, OpenThenStop, KillIn

\* A command that ends early.
LEMMA Ends ==
  ASSUME TypeOk, NEW c \in Client, Abort(c)
  PROVE  ClientType' /\ OthersSame(c) /\ client'[c].todo = <<>>
<1> DEFINE S == Seq(Steps)
<1>1. /\ client \in [Client -> [todo : S, pid : Pid \union {None}, identity : Nat \union {None}]]
      /\ client' = [client EXCEPT ![c] = Nothing]
      /\ <<>> \in S
  BY DEF TypeOk, ClientType, Abort
<1> HIDE DEF S
<1>2. Nothing \in [todo : S, pid : Pid \union {None}, identity : Nat \union {None}] /\ Nothing.todo = <<>>
  BY <1>1 DEF Nothing
<1>3. /\ client' \in [Client -> [todo : S, pid : Pid \union {None}, identity : Nat \union {None}]]
      /\ client'[c] = Nothing /\ \A d \in Client \ {c} : client'[d] = client[d]
  BY <1>1, <1>2
<1> QED
  BY <1>2, <1>3 DEF S, ClientType, OthersSame

-----------------------------------------------------------------------------
(* What the steps have in common.                                           *)

\* A step of a command that starts no process and records no start time.
LEMMA QuietStep ==
  ASSUME AnyInv, NEW c \in Client, OthersSame(c),
         TypeOk', RecordProtectsStrangers', births' = births,
         \A p \in Pid : proc'[p] \in {proc[p], Free},
         pidFile' \in {pidFile, None}, state'.pid_start \in {state.pid_start, None},
         Lineup(client'[c].todo), ~Front(client'[c].todo, {"record"}),
         Front(client'[c].todo, Waits) =>
           client'[c].pid \in Pid /\ (client'[c].identity # None => proc'[client'[c].pid].kind # "other"),
         vmDir' # "new", vmDir' = "live" => vmDir = "live" \/ vmDir = "new"
  PROVE  AnyInv'
<1>1. LineupsInv'
  BY DEF AnyInv, LineupsInv, OthersSame
<1>2. \A p \in Pid : /\ proc'[p].kind # "free" => proc'[p] = proc[p]
                     /\ proc'[p].birth <= births
                     /\ proc'[p].kind = "other" => proc[p].kind = "other"
  BY DEF AnyInv, BirthsInv, TypeOk, ProcType, Free
<1>3. BirthsInv'
  <2>1. \A p, q \in Pid : p # q /\ _process_alive(p)' /\ _process_alive(q)' => proc'[p].birth # proc'[q].birth
    BY <1>2 DEF AnyInv, BirthsInv, _process_alive
  <2>2. state'.pid_start # None =>
          state'.pid_start <= births /\ \A p \in Pid : proc'[p].kind = "other" => proc'[p].birth # state'.pid_start
    BY <1>2 DEF AnyInv, BirthsInv
  <2> QED
    BY <1>2, <2>1, <2>2 DEF BirthsInv
<1>4. NumbersInv'
  <2> SUFFICES ASSUME vmDir' = "live" PROVE NumbersInv'
    BY DEF NumbersInv
  <2>1. ASSUME NEW d \in Client, Before(d, {"record"} \union Waits)', d # c
        PROVE  vmDir = "live" /\ client'[d] = client[d] /\ ~Idle(d)
    <3>1. client'[d] = client[d] /\ ~Idle(d)
      BY <2>1 DEF OthersSame, Before, Front, Idle
    <3>2. vmDir # "new"
      BY <3>1 DEF AnyInv, LineupsInv
    <3> QED
      BY <3>1, <3>2
  <2>2. ASSUME NEW d \in Client, Before(d, {"record"})', NEW p \in Pid, pidFile' = p
        PROVE  proc'[p].kind # "other"
    <3>1. d # c
      BY <2>2 DEF Before
    <3>2. vmDir = "live" /\ client'[d] = client[d]
      BY <2>1, <2>2, <3>1 DEF Before, Front
    <3>3. pidFile = p
      BY <2>2, PidAssumption
    <3>4. proc[p].kind # "other"
      BY <2>2, <3>2, <3>3 DEF AnyInv, NumbersInv, Before
    <3> QED
      BY <1>2, <3>4
  <2>3. ASSUME NEW d \in Client, Before(d, Waits)'
        PROVE  client'[d].pid \in Pid /\ (client'[d].identity # None => proc'[client'[d].pid].kind # "other")
    <3>1. CASE d = c
      BY <2>3, <3>1 DEF Before
    <3>2. CASE d # c
      <4>1. vmDir = "live" /\ client'[d] = client[d]
        BY <2>1, <2>3, <3>2 DEF Before, Front
      <4>2. client[d].pid \in Pid /\ (client[d].identity # None => proc[client[d].pid].kind # "other")
        BY <2>3, <4>1 DEF AnyInv, NumbersInv, Before
      <4> QED
        BY <1>2, <4>1, <4>2
    <3> QED
      BY <3>1, <3>2
  <2> QED
    BY <2>2, <2>3 DEF NumbersInv
<1> QED
  BY <1>1, <1>3, <1>4 DEF AnyInv

\* With one command at a time, the others have nothing to do.
LEMMA OnlyOne ==
  ASSUME OneInv, Watch, NEW c \in Client, OthersSame(c), ~Idle(c) \/ client'[c].todo # <<>>, ~overlapped'
  PROVE  /\ ~overlapped /\ Alone /\ TrackedInv /\ (crashes = 0 => RecordInv) /\ Alone'
         /\ \A d \in Client \ {c} : client[d].todo = <<>> /\ client'[d].todo = <<>>
<1>1. ~overlapped /\ \A d, e \in Client : client'[d].todo # <<>> /\ client'[e].todo # <<>> => d = e
  BY DEF Watch
<1>2. Alone' /\ Alone /\ TrackedInv /\ (crashes = 0 => RecordInv)
  BY <1>1 DEF Alone, Idle, OneInv
<1>3. ASSUME NEW d \in Client \ {c} PROVE client[d].todo = <<>> /\ client'[d].todo = <<>>
  <2>1. client'[d] = client[d]
    BY DEF OthersSame
  <2> QED
    BY <1>1, <1>2, <2>1 DEF Alone, Idle
<1> QED
  BY <1>1, <1>2, <1>3

\* A step after which no QEMU is up.
LEMMA DownKeeps ==
  ASSUME OneInv, OpenInv, Watch, NEW c \in Client, OthersSame(c), ~Idle(c) \/ client'[c].todo # <<>>,
         crashes' = crashes, ~overlapped => ~QemuUp',
         FreshProvisions => (OpenThenStop(client[c].todo) => OpenThenStop(client'[c].todo))
  PROVE  OneInv' /\ OpenInv'
<1>1. ASSUME ~overlapped' PROVE Alone' /\ TrackedInv' /\ RecordInv' /\ ~QemuUp' /\ ~overlapped
  <2>1. ~overlapped /\ Alone' /\ ~QemuUp'
    BY <1>1, OnlyOne
  <2> QED
    BY <2>1 DEF TrackedInv, RecordInv, QemuUp
<1>2. OneInv'
  BY <1>1 DEF OneInv
<1>3. ASSUME Uninterrupted', FreshProvisions' PROVE \A d \in Client : OpenThenStop(client'[d].todo)
  <2>1. Uninterrupted /\ FreshProvisions
    BY <1>1, <1>3 DEF Uninterrupted, OneAtATime, FreshProvisions, Provisioned, Watch
  <2>2. \A d \in Client : OpenThenStop(client[d].todo)
    BY <2>1 DEF OpenInv
  <2> QED
    BY <2>1, <2>2 DEF OthersSame
<1>4. OpenInv'
  BY <1>1, <1>3 DEF OpenInv, Uninterrupted, OneAtATime, QemuUp
<1> QED
  BY <1>2, <1>4

\* A step that leaves the processes and what is known of them.
LEMMA StayKeeps ==
  ASSUME OneInv, OpenInv, Watch, NEW c \in Client, OthersSame(c), ~Idle(c) \/ client'[c].todo # <<>>,
         crashes' = 0 => crashes = 0 /\ ~Before(c, {"record"}),
         proc' = proc, pidFile' = pidFile, ~overlapped /\ QemuUp => vmDir' = "live",
         state'.pid_start = state.pid_start, state'.stopped = state.stopped, state.error => state'.error,
         escaped => escaped', Front(client'[c].todo, {"look"}) => ~KillIn(client'[c].todo),
         FreshProvisions => (OpenThenStop(client[c].todo) => OpenThenStop(client'[c].todo)),
         ~Front(client'[c].todo, Downs \union {"record"}),
         ~overlapped /\ Front(client'[c].todo, Waits) => \A p \in Pid : proc[p].kind = "vm" => client'[c].pid = p,
         Uninterrupted /\ crashes' = 0 => KillAhead(c) \/ state'.error \/ escaped' \/ ~QemuUp
  PROVE  OneInv' /\ OpenInv'
<1>1. ASSUME ~overlapped'
      PROVE  /\ ~overlapped /\ Alone' /\ TrackedInv /\ (crashes = 0 => RecordInv)
             /\ \A d \in Client \ {c} : client[d].todo = <<>> /\ client'[d].todo = <<>>
  BY <1>1, OnlyOne
<1>2. ASSUME ~overlapped' PROVE TrackedInv'
  <2>1. \A p \in Pid : proc'[p].kind = "vm" => pidFile' = p /\ vmDir' = "live"
    BY <1>1, <1>2 DEF TrackedInv, QemuUp
  <2>2. ASSUME NEW d \in Client
        PROVE  /\ ~Before(d, Downs)'
               /\ ~(Before(d, {"look"})' /\ KillIn(client'[d].todo))
               /\ Before(d, Waits)' => \A p \in Pid : proc'[p].kind = "vm" => client'[d].pid = p
    BY <1>1, <1>2 DEF Before, Front
  <2> QED
    BY <2>1, <2>2 DEF TrackedInv
<1>3. ASSUME ~overlapped', crashes' = 0 PROVE RecordInv'
  <2>1. RecordInv /\ \A d \in Client : ~Before(d, {"record"})
    BY <1>1, <1>3 DEF Before, Front
  <2> QED
    BY <2>1 DEF RecordInv, QemuUp
<1>4. OneInv'
  BY <1>1, <1>2, <1>3 DEF OneInv
<1>5. ASSUME Uninterrupted', FreshProvisions'
      PROVE  /\ \A d \in Client : OpenThenStop(client'[d].todo)
             /\ \A p \in Pid : proc'[p].kind = "vm" /\ ~proc'[p].restricted =>
                  \/ \E d \in Client : KillIn(client'[d].todo)
                  \/ (state'.error \/ escaped') /\ \A d \in Client : ~Before(d, {"record"})'
  <2>1. /\ Uninterrupted /\ FreshProvisions /\ ~overlapped' /\ crashes' = 0
    BY <1>1, <1>5 DEF Uninterrupted, OneAtATime, FreshProvisions, Provisioned, Watch
  <2>2. \A d \in Client : OpenThenStop(client'[d].todo)
    BY <2>1 DEF OpenInv, OthersSame
  <2>3. \A d \in Client : ~Before(d, {"record"})'
    BY <1>1, <2>1 DEF Before, Front
  <2>4. ASSUME NEW p \in Pid, proc[p].kind = "vm", ~proc[p].restricted
        PROVE  (\E d \in Client : KillIn(client'[d].todo)) \/ state'.error \/ escaped'
    <3>1. (\E d \in Client : KillIn(client[d].todo)) \/ state.error \/ escaped
      BY <2>1, <2>4 DEF OpenInv
    <3>2. KillAhead(c) \/ state'.error \/ escaped'
      BY <2>1, <2>4 DEF QemuUp
    <3> QED
      BY <3>1, <3>2 DEF KillAhead, OthersSame
  <2> QED
    BY <2>2, <2>3, <2>4
<1>6. OpenInv'
  BY <1>5 DEF OpenInv
<1> QED
  BY <1>4, <1>6

\* A step of the host, which no command takes.
LEMMA WorldKeeps ==
  ASSUME OneInv, OpenInv, Watch, client' = client, vmDir' = vmDir, state' = state, crashes' = crashes,
         escaped' = escaped, \A p \in Pid : proc'[p].kind = "vm" => proc'[p] = proc[p],
         \A p \in Pid : proc'[p].kind = "vm" /\ pidFile = p => pidFile' = p
  PROVE  OneInv' /\ OpenInv'
<1>1. (~overlapped' => ~overlapped) /\ site' = site
  BY DEF Watch
<1>2. ASSUME ~overlapped', Alone, TrackedInv PROVE Alone' /\ TrackedInv'
  BY <1>2 DEF Alone, Idle, TrackedInv, Before, QemuUp
<1>3. RecordInv => RecordInv'
  BY DEF RecordInv, Before, QemuUp
<1>4. OneInv'
  BY <1>1, <1>2, <1>3 DEF OneInv
<1>5. OpenInv'
  BY <1>1 DEF OpenInv, Uninterrupted, OneAtATime, FreshProvisions, Provisioned, Before
<1> QED
  BY <1>4, <1>5

-----------------------------------------------------------------------------
(* The steps one by one.                                                    *)

\* A step taken with no QEMU up.
LEMMA DownStep ==
  ASSUME QemuInv, Watch, NEW c \in Client, NEW step \in Downs, At(c, step), Skip(c, 1) \/ Abort(c),
         proc' = proc, struck' = struck, births' = births, crashes' = crashes, escaped' = escaped,
         disk' \in BOOLEAN, pidFile' \in {pidFile, None},
         StateType', state'.pid_start \in {state.pid_start, None}, vmDir' \in {"live", "gone"}
  PROVE  QemuInv'
<1>0. TypeOk /\ LineupsInv /\ OneInv /\ OpenInv /\ step \in Steps
  BY DEF QemuInv, AnyInv, Downs, Steps
<1>1. vmDir = "live" /\ ~Idle(c) /\ Before(c, Downs)
  BY DEF At, Before, Front, Idle
<1>2. /\ ClientType' /\ OthersSame(c) /\ Lineup(client'[c].todo)
      /\ OpenThenStop(client[c].todo) => OpenThenStop(client'[c].todo)
      /\ client'[c].todo = <<>> \/ Front(client'[c].todo, following[step])
  BY <1>0, StepOn, Ends, Empties
<1>3. ~Front(client'[c].todo, {"record"}) /\ ~Front(client'[c].todo, Waits)
  <2>1. "record" \notin following[step] /\ \A s \in Waits : s \notin following[step]
    BY FollowingIs DEF Downs, Waits
  <2> QED
    BY <1>2, <2>1 DEF Front
<1>4. TypeOk'
  BY <1>0, <1>2 DEF TypeOk, ProcType, Watch
<1>5. RecordProtectsStrangers'
  BY DEF QemuInv, AnyInv, RecordProtectsStrangers
<1>6. AnyInv'
  BY <1>1, <1>2, <1>3, <1>4, <1>5, QuietStep DEF QemuInv
<1>7. ~overlapped => ~QemuUp'
  <2>1. ~overlapped => ~QemuUp
    BY <1>0, <1>1 DEF OneInv, TrackedInv
  <2> QED
    BY <2>1 DEF QemuUp
<1>8. OneInv' /\ OpenInv'
  BY <1>0, <1>1, <1>2, <1>7, DownKeeps
<1> QED
  BY <1>6, <1>8 DEF QemuInv

\* A step after which the processes, and what is known of them, are the same.
LEMMA StayStep ==
  ASSUME QemuInv, Watch, NEW c \in Client, OthersSame(c), ClientType', ~Idle(c) \/ client'[c].todo # <<>>,
         Lineup(client'[c].todo), FreshProvisions => (OpenThenStop(client[c].todo) => OpenThenStop(client'[c].todo)),
         crashes' \in Nat, crashes' = 0 => crashes = 0 /\ ~Before(c, {"record"}),
         escaped' \in {escaped, TRUE}, Front(client'[c].todo, {"look"}) => ~KillIn(client'[c].todo),
         proc' = proc, births' = births, disk' = disk, pidFile' = pidFile, RecordProtectsStrangers',
         state' \in {state, [state EXCEPT !.error = TRUE]}, vmDir' \in {"live", "gone"},
         vmDir' = "live" => vmDir # "gone", ~overlapped /\ QemuUp => vmDir' = "live",
         ~Front(client'[c].todo, Downs \union {"record"}),
         Front(client'[c].todo, Waits) =>
           client'[c].pid \in Pid /\ (client'[c].identity # None => proc[client'[c].pid].kind # "other"),
         ~overlapped /\ Front(client'[c].todo, Waits) => \A p \in Pid : proc[p].kind = "vm" => client'[c].pid = p,
         Uninterrupted /\ crashes' = 0 => KillAhead(c) \/ state'.error \/ escaped' \/ ~QemuUp
  PROVE  QemuInv'
<1>0. TypeOk /\ LineupsInv /\ OneInv /\ OpenInv
  BY DEF QemuInv, AnyInv
<1>1. /\ StateType' /\ state'.pid_start = state.pid_start /\ state'.stopped = state.stopped
      /\ state.error => state'.error
  BY <1>0 DEF TypeOk, StateType
<1>2. TypeOk'
  BY <1>0, <1>1 DEF TypeOk, ProcType, Watch
<1>3. ~Front(client'[c].todo, {"record"})
  BY DEF Front
<1>4. vmDir' = "live" => vmDir = "live" \/ vmDir = "new"
  BY <1>0 DEF TypeOk
<1>5. AnyInv'
  BY <1>1, <1>2, <1>3, <1>4, QuietStep DEF QemuInv
<1>6. escaped => escaped'
  OBVIOUS
<1>7. OneInv' /\ OpenInv'
  BY <1>0, <1>1, <1>6, StayKeeps
<1> QED
  BY <1>5, <1>7 DEF QemuInv

\* The machine's QEMU, when one is up and one command at work, is in its file.
LEMMA UpIsOnFile ==
  ASSUME QemuInv, NEW c \in Client, ~overlapped, QemuUp
  PROVE  /\ pidFile # None /\ pidFile \in Pid /\ _process_alive(pidFile) /\ proc[pidFile].kind = "vm"
         /\ vmDir = "live" /\ \A p \in Pid : proc[p].kind = "vm" => p = pidFile
<1>1. PICK p \in Pid : proc[p].kind = "vm"
  BY DEF QemuUp
<1>2. TrackedInv
  BY DEF QemuInv, OneInv
<1> QED
  BY <1>1, <1>2, PidAssumption DEF TrackedInv, _process_alive

\* With one command at work that is not about to record, what is on record is
\* right.
LEMMA UpIsRecorded ==
  ASSUME QemuInv, NEW c \in Client, Uninterrupted, ~Idle(c), ~Before(c, {"record"}), QemuUp
  PROVE  process_matches(pidFile, state.pid_start, TRUE)
<1>1. /\ pidFile \in Pid /\ _process_alive(pidFile) /\ proc[pidFile].kind = "vm"
  BY UpIsOnFile DEF Uninterrupted, OneAtATime
<1>2. Alone /\ RecordInv
  BY DEF QemuInv, OneInv, Uninterrupted, OneAtATime
<1>3. \A d \in Client : ~Before(d, {"record"})
  BY <1>2 DEF Alone, Idle, Before, Front
<1> QED
  BY <1>1, <1>2, <1>3 DEF RecordInv, process_matches

LEMMA RunKeeps ==
  ASSUME QemuInv, Watch, NEW c \in Client,
         NEW op \in {"create", "start", "stop", "kill", "rebuild", "fresh", "delete", "export"},
         Run(c, op)
  PROVE  QemuInv'
<1>0. TypeOk /\ LineupsInv /\ OneInv /\ OpenInv
  BY DEF QemuInv, AnyInv
<1>1. client[c].todo = <<>> /\ vmDir' = "live" /\ vmDir = (IF op = "create" THEN "new" ELSE "live") /\ op \in site.ops[c]
  BY DEF Run, Idle
<1> DEFINE t == Plan(op)
<1>2. /\ Lineup(t) /\ t # <<>> /\ Head(t) \in {"prepare", "look", "halt", "slay"}
      /\ Head(t) = "prepare" => op = "create"
      /\ Head(t) = "look" => op = "start"
      /\ (op = "fresh" => Provisioned) => OpenThenStop(t)
  BY <1>0, PlansAreLineups DEF TypeOk
<1>3. client' = [client EXCEPT ![c] = [todo |-> t, pid |-> None, identity |-> None]]
  <2>1. [Nothing EXCEPT !.todo = t] = [todo |-> t, pid |-> None, identity |-> None]
    BY DEF Nothing
  <2> QED
    BY <2>1 DEF Run
<1> HIDE DEF t
<1>4. ClientType' /\ OthersSame(c) /\ client'[c].todo = t
  <2> DEFINE S == Seq(Steps)
             r == [todo |-> t, pid |-> None, identity |-> None]
  <2>1. client \in [Client -> [todo : S, pid : Pid \union {None}, identity : Nat \union {None}]] /\ t \in S
    BY <1>0, <1>2 DEF TypeOk, ClientType, Lineup, Part
  <2> HIDE DEF S
  <2>2. r \in [todo : S, pid : Pid \union {None}, identity : Nat \union {None}] /\ r.todo = t
    BY <2>1
  <2>3. client' = [client EXCEPT ![c] = r]
    BY <1>3
  <2> HIDE DEF r
  <2>4. /\ client' \in [Client -> [todo : S, pid : Pid \union {None}, identity : Nat \union {None}]]
        /\ client'[c] = r /\ \A d \in Client \ {c} : client'[d] = client[d]
    BY <2>1, <2>2, <2>3
  <2> QED
    BY <2>2, <2>4 DEF ClientType, OthersSame, S
<1>5. /\ pidFile' = pidFile /\ state' = state /\ proc' = proc /\ struck' = struck /\ births' = births
      /\ disk' = disk /\ crashes' = crashes /\ escaped' = escaped
  BY DEF Run, spent, seen
<1>6. RecordProtectsStrangers'
  BY <1>5 DEF QemuInv, AnyInv, RecordProtectsStrangers
<1>7. Lineup(client'[c].todo) /\ client'[c].todo # <<>> /\ ~Front(client'[c].todo, Waits)
      /\ ~Front(client'[c].todo, {"record"})
  BY <1>2, <1>4 DEF Front, Waits
<1>8. FreshProvisions => (OpenThenStop(client[c].todo) => OpenThenStop(client'[c].todo))
  BY <1>1, <1>2, <1>4 DEF FreshProvisions
<1>9. CASE op = "create"
  <2>1. TypeOk'
    BY <1>0, <1>1, <1>4, <1>5 DEF TypeOk, ProcType, StateType, Watch
  <2>2. AnyInv'
    BY <1>1, <1>4, <1>5, <1>6, <1>7, <1>9, <2>1, QuietStep DEF QemuInv
  <2>3. ~overlapped => ~QemuUp'
    BY <1>0, <1>1, <1>5, <1>9 DEF OneInv, TrackedInv, QemuUp
  <2>4. OneInv' /\ OpenInv'
    BY <1>0, <1>4, <1>5, <1>7, <1>8, <2>3, DownKeeps
  <2> QED
    BY <2>2, <2>4 DEF QemuInv
<1>10. CASE op # "create"
  <2>1. ~Front(client'[c].todo, Downs \union {"record"})
    BY <1>2, <1>4, <1>10 DEF Front, Downs
  <2>2. KillAhead(c) /\ ~Before(c, {"record"})
    BY <1>1, Empties DEF KillAhead, Before, Front
  <2>3. crashes' \in Nat /\ vmDir = "live"
    BY <1>0, <1>1, <1>5, <1>10 DEF TypeOk
  <2>4. Front(client'[c].todo, {"look"}) => ~KillIn(client'[c].todo)
    <3> SUFFICES ASSUME Head(t) = "look" PROVE ~KillIn(t)
      BY <1>4 DEF Front
    <3>1. t = StartVM
      BY <1>2 DEF t, Plan
    <3> QED
      BY <3>1, StartKillsNothing
  <2> QED
    BY <1>1, <1>4, <1>5, <1>6, <1>7, <1>8, <2>1, <2>2, <2>3, <2>4, StayStep
<1> QED
  BY <1>9, <1>10

LEMMA SteppedDown ==
  ASSUME QemuInv, Watch, NEW c \in Client,
         Prepare(c) \/ Clear(c) \/ Finish(c) \/ MoveDisk(c) \/ Remove(c) \/ Copied(c)
  PROVE  QemuInv'
<1>0. TypeOk
  BY DEF QemuInv, AnyInv
<1>1. /\ "prepare" \in Downs /\ "clear" \in Downs /\ "finish" \in Downs /\ "moveDisk" \in Downs
      /\ "remove" \in Downs /\ "copy" \in Downs
  BY DEF Downs
<1>2. state' = state => StateType' /\ state'.pid_start \in {state.pid_start, None}
  BY <1>0 DEF TypeOk, StateType
<1>3. mark_stopped => StateType' /\ state'.pid_start \in {state.pid_start, None}
  BY DEF mark_stopped, StateType
<1>4. disk \in BOOLEAN
  BY <1>0 DEF TypeOk
<1>5. CASE Prepare(c)
  BY <1>1, <1>2, <1>4, <1>5, DownStep DEF Prepare, At, spent, seen, Fault
<1>6. CASE Clear(c)
  BY <1>1, <1>2, <1>4, <1>6, DownStep DEF Clear, At, spent, seen
<1>7. CASE Finish(c)
  BY <1>1, <1>3, <1>4, <1>7, DownStep DEF Finish, At, spent, seen
<1>8. CASE MoveDisk(c)
  BY <1>1, <1>2, <1>4, <1>8, DownStep DEF MoveDisk, At, spent, seen
<1>9. CASE Remove(c)
  BY <1>1, <1>2, <1>4, <1>9, DownStep DEF Remove, At, spent, seen
<1>10. CASE Copied(c)
  BY <1>1, <1>2, <1>4, <1>10, DownStep DEF Copied, At, spent, seen, vm
<1> QED
  BY <1>5, <1>6, <1>7, <1>8, <1>9, <1>10

LEMMA Truths ==
  ASSUME QemuInv, NEW c \in Client
  PROVE  /\ TypeOk /\ LineupsInv /\ OneInv /\ OpenInv /\ RecordProtectsStrangers
         /\ struck' = struck => RecordProtectsStrangers'
         /\ crashes \in Nat
  BY DEF QemuInv, AnyInv, RecordProtectsStrangers, TypeOk

\* A command that ends, with or without an error on record.
LEMMA EndStep ==
  ASSUME QemuInv, Watch, NEW c \in Client, ~Idle(c), vmDir \in {"live", "gone"}, Abort(c),
         crashes' \in Nat, crashes' = 0 => crashes = 0 /\ ~Before(c, {"record"}),
         proc' = proc, births' = births, disk' = disk, pidFile' = pidFile, vmDir' = vmDir, struck' = struck,
         state' \in {state, [state EXCEPT !.error = TRUE]}, escaped' \in {escaped, TRUE},
         Uninterrupted /\ crashes' = 0 => ~KillIn(client[c].todo) \/ state'.error \/ escaped' \/ ~QemuUp
  PROVE  QemuInv'
<1>1. /\ ClientType' /\ OthersSame(c) /\ client'[c].todo = <<>>
  BY Truths, Ends
<1>2. /\ Lineup(client'[c].todo) /\ OpenThenStop(client'[c].todo)
      /\ ~Front(client'[c].todo, Downs \union {"record"}) /\ ~Front(client'[c].todo, Waits)
      /\ ~Front(client'[c].todo, {"look"})
  BY <1>1, Empties DEF Front
<1>3. ~overlapped /\ QemuUp => vmDir = "live"
  BY UpIsOnFile
<1>4. ~KillIn(client[c].todo) => KillAhead(c)
  BY DEF KillAhead
<1> QED
  BY <1>1, <1>2, <1>3, <1>4, Truths, StayStep

LEMMA LookKeeps ==
  ASSUME QemuInv, Watch, NEW c \in Client, Look(c)
  PROVE  QemuInv'
<1>0. /\ TypeOk /\ LineupsInv /\ OneInv /\ OpenInv /\ RecordProtectsStrangers' /\ crashes' = crashes
      /\ crashes \in Nat /\ "look" \in Steps /\ escaped' = escaped
  BY Truths DEF Look, AsksPs, FaultUnless, Fault, spent, seen, Steps
<1>1. /\ vmDir = "live" /\ ~Idle(c) /\ ~Before(c, {"record"}) /\ client[c].todo # <<>> /\ Head(client[c].todo) = "look"
      /\ At(c, "look")
  BY DEF Look, At, Before, Front, Idle
<1>2. /\ vmDir' = vmDir /\ disk' = disk /\ pidFile' = pidFile /\ state' = state /\ proc' = proc
      /\ struck' = struck /\ births' = births
  BY DEF Look, vm
<1>3. CASE pidFile = None \/ ~_process_alive(pidFile)
  <2>1. Skip(c, 1)
    BY <1>3 DEF Look
  <2>2. /\ ClientType' /\ OthersSame(c) /\ Lineup(client'[c].todo)
        /\ OpenThenStop(client[c].todo) => OpenThenStop(client'[c].todo)
        /\ client'[c].todo = <<>> \/ Front(client'[c].todo, {"clear"})
    <3>1. /\ ClientType' /\ OthersSame(c) /\ Lineup(client'[c].todo)
          /\ OpenThenStop(client[c].todo) => OpenThenStop(client'[c].todo)
          /\ client'[c].todo = <<>> \/ Front(client'[c].todo, following["look"])
      BY <1>0, <1>1, <2>1, StepOn
    <3> QED
      BY <3>1, FollowingIs, Zenon
  <2>3. TypeOk'
    BY <1>0, <1>2, <2>2 DEF TypeOk, ProcType, StateType, Watch
  <2>4. ~Front(client'[c].todo, {"record"}) /\ ~Front(client'[c].todo, Waits)
    BY <2>2 DEF Front, Waits
  <2>5. AnyInv'
    BY <1>0, <1>1, <1>2, <2>2, <2>3, <2>4, QuietStep DEF QemuInv
  <2>6. ~overlapped => ~QemuUp
    BY <1>3, UpIsOnFile
  <2>7. ~overlapped => ~QemuUp'
    BY <1>2, <2>6 DEF QemuUp
  <2>8. OneInv' /\ OpenInv'
    BY <1>0, <1>1, <2>2, <2>7, DownKeeps
  <2> QED
    BY <2>5, <2>8 DEF QemuInv
<1>4. CASE Skip(c, 5)
  <2>1. Skip(c, 5)
    BY <1>4
  <2> DEFINE t == client[c].todo
             u == SubSeq(t, 5 + 1, Len(t))
  <2>2. /\ ClientType' /\ OthersSame(c) /\ Lineup(client'[c].todo) /\ client'[c].todo = u
        /\ OpenThenStop(client[c].todo) => OpenThenStop(client'[c].todo)
    BY <1>0, <2>1, SkipMoves
  <2>3. Lineup(t)
    BY <1>0 DEF LineupsInv
  <2>4. (u = <<>> \/ Front(u, {"provision", "configure"})) /\ (KillIn(t) => KillIn(u))
    BY <1>1, <2>3, Ahead
  <2> HIDE DEF u
  <2>5. KillAhead(c)
    BY <2>2, <2>4 DEF KillAhead
  <2>6. ~Front(client'[c].todo, Downs \union {"record"}) /\ ~Front(client'[c].todo, Waits)
        /\ ~Front(client'[c].todo, {"look"})
    BY <2>2, <2>4 DEF Front, Downs, Waits
  <2>7. ~overlapped /\ QemuUp => vmDir = "live"
    BY <1>1
  <2> QED
    BY <1>0, <1>1, <1>2, <2>2, <2>5, <2>6, <2>7, StayStep
<1>5. CASE Abort(c)
  <2>1. Uninterrupted => ~KillIn(client[c].todo) \/ ~QemuUp
    BY <1>0, <1>1 DEF Uninterrupted, OneAtATime, OneInv, TrackedInv, Before, Front
  <2> QED
    BY <1>0, <1>1, <1>2, <1>5, <2>1, EndStep
<1> QED
  BY <1>3, <1>4, <1>5 DEF Look

LEMMA InGuestKeeps ==
  ASSUME QemuInv, Watch, NEW c \in Client, NEW step \in {"mounts", "provision", "configure"}, InGuest(c, step)
  PROVE  QemuInv'
<1>0. /\ TypeOk /\ LineupsInv /\ OneInv /\ OpenInv /\ crashes' = crashes
      /\ crashes \in Nat /\ step \in Steps /\ struck' = struck /\ RecordProtectsStrangers'
      /\ escaped' = escaped
  BY Truths DEF InGuest, Fails, FaultUnless, Fault, spent, seen, Steps
<1>1. /\ vmDir = "live" /\ ~Idle(c) /\ ~Before(c, {"record"}) /\ At(c, step)
  BY DEF InGuest, At, Before, Front, Idle
<1>2. CASE Skip(c, 1) /\ UNCHANGED <<vm, proc, struck, seen, births, spent>>
  <2>1. /\ ClientType' /\ OthersSame(c) /\ Lineup(client'[c].todo) /\ KillAhead(c)
        /\ OpenThenStop(client[c].todo) => OpenThenStop(client'[c].todo)
        /\ client'[c].todo = <<>> \/ Front(client'[c].todo, following[step])
    BY <1>0, <1>1, <1>2, StepOn
  <2>2. ~Front(client'[c].todo, Downs \union {"record"}) /\ ~Front(client'[c].todo, Waits)
        /\ ~Front(client'[c].todo, {"look"})
    BY <2>1, FollowingIs DEF Front, Downs, Waits
  <2> QED
    BY <1>0, <1>1, <1>2, <2>1, <2>2, StayStep DEF vm
<1>3. CASE Fails(c)
  <2>1. state'.error
    BY <1>0, <1>3 DEF Fails, TypeOk, StateType
  <2> QED
    BY <1>0, <1>1, <1>3, <2>1, EndStep DEF Fails
<1> QED
  BY <1>2, <1>3 DEF InGuest

\* A guest step fails and nothing records it.
LEMMA EscapeKeeps ==
  ASSUME QemuInv, Watch, NEW c \in Client, NEW step \in {"provision", "configure"}, Escapes(c, step)
  PROVE  QemuInv'
<1>1. /\ crashes \in Nat /\ crashes' = crashes /\ struck' = struck /\ escaped' = TRUE /\ Abort(c)
      /\ vmDir' = vmDir /\ disk' = disk /\ pidFile' = pidFile /\ state' = state /\ proc' = proc
      /\ births' = births
  BY Truths DEF Escapes, Fault, vm
<1>2. /\ vmDir = "live" /\ ~Idle(c) /\ ~Before(c, {"record"})
  BY DEF Escapes, At, Before, Front, Idle
<1> QED
  BY <1>1, <1>2, EndStep

LEMMA SlayKeeps ==
  ASSUME QemuInv, Watch, NEW c \in Client, Slay(c)
  PROVE  QemuInv'
<1>0. /\ TypeOk /\ LineupsInv /\ OneInv /\ OpenInv /\ RecordProtectsStrangers' /\ crashes' = crashes
      /\ "slay" \in Steps /\ Skip(c, 1) /\ At(c, "slay") /\ escaped' = escaped /\ crashes \in Nat
  BY Truths DEF Slay, Killed, Fault, spent, seen, Steps
<1>1. /\ vmDir' = "live" /\ ~Idle(c) /\ disk' = disk /\ pidFile' = pidFile /\ state' = state
      /\ births' = births /\ vmDir = "live"
  BY DEF Slay, At, vm
<1>2. /\ ClientType' /\ OthersSame(c) /\ Lineup(client'[c].todo)
      /\ OpenThenStop(client[c].todo) => OpenThenStop(client'[c].todo)
      /\ client'[c].todo = <<>> \/ Front(client'[c].todo, {})
  <2>1. /\ ClientType' /\ OthersSame(c) /\ Lineup(client'[c].todo)
        /\ OpenThenStop(client[c].todo) => OpenThenStop(client'[c].todo)
        /\ client'[c].todo = <<>> \/ Front(client'[c].todo, following["slay"])
    BY <1>0, StepOn
  <2> QED
    BY <2>1, FollowingIs, Zenon
<1>3. ~Front(client'[c].todo, {"record"}) /\ ~Front(client'[c].todo, Waits)
  BY <1>2 DEF Front
<1>k. /\ pidFile = None \/ ~_process_alive(pidFile) => proc' = proc
      /\ proc' = proc \/ (pidFile \in Pid /\ proc' = [proc EXCEPT ![pidFile] = Free])
  BY <1>0 DEF Slay, Killed, TypeOk
<1>s. CASE proc' = proc
  <2>1. /\ OthersSame(c) /\ ~Before(c, {"record"}) /\ client'[c].todo = <<>> /\ KillAhead(c)
    <3>1. "slay" # "kill" /\ ~Before(c, {"record"}) /\ client'[c].todo = <<>>
      BY <1>0, <1>2 DEF At, Before, Front
    <3> QED
      BY <1>0, <1>2, <3>1, StepOn
  <2>2. /\ ~Front(client'[c].todo, Downs \union {"record"}) /\ ~Front(client'[c].todo, Waits)
        /\ ~Front(client'[c].todo, {"look"})
    BY <2>1 DEF Front
  <2> QED
    BY <1>0, <1>1, <1>2, <1>s, <2>1, <2>2, StayStep
<1>t. SUFFICES ASSUME pidFile \in Pid, proc' = [proc EXCEPT ![pidFile] = Free]
               PROVE  QemuInv'
  BY <1>k, <1>s
<1>4. /\ ProcType' /\ \A p \in Pid : proc'[p] \in {proc[p], Free}
      /\ proc'[pidFile] = Free
  <2> DEFINE R == [kind : {"free", "vm", "other", "foreign"}, birth : Nat, restricted : BOOLEAN]
  <2>1. proc \in [Pid -> R] /\ Free \in R /\ pidFile \in Pid \union {None}
    BY <1>0 DEF TypeOk, ProcType, Free
  <2> HIDE DEF R
  <2>3. /\ proc' \in [Pid -> R] /\ \A p \in Pid : proc'[p] \in {proc[p], Free}
        /\ proc'[pidFile] = Free
    BY <1>t, <2>1
  <2> QED
    BY <2>3 DEF ProcType, R
<1>5. TypeOk'
  BY <1>0, <1>1, <1>2, <1>4 DEF TypeOk, StateType, Watch
<1>6. AnyInv'
  BY <1>0, <1>1, <1>2, <1>3, <1>4, <1>5, QuietStep DEF QemuInv
<1>7. ASSUME ~overlapped PROVE ~QemuUp'
  <2> SUFFICES ASSUME NEW p \in Pid, proc'[p].kind = "vm" PROVE FALSE
    BY DEF QemuUp
  <2>1. proc[p].kind = "vm"
    BY <1>4 DEF Free
  <2>2. pidFile = p /\ _process_alive(pidFile)
    BY <1>7, <2>1, UpIsOnFile DEF QemuUp
  <2> QED
    BY <1>4, <2>2 DEF Free
<1>8. OneInv' /\ OpenInv'
  BY <1>0, <1>1, <1>2, <1>7, DownKeeps
<1> QED
  BY <1>6, <1>8 DEF QemuInv

LEMMA VanishedKeeps ==
  ASSUME QemuInv, Watch, NEW c \in Client, Vanished(c)
  PROVE  QemuInv'
<1>0. TypeOk /\ LineupsInv /\ OneInv /\ OpenInv /\ RecordProtectsStrangers'
  BY Truths DEF Vanished
<1>1. /\ vmDir = "gone" /\ ~Idle(c) /\ Abort(c) /\ proc' = proc /\ births' = births /\ crashes' = crashes
      /\ vmDir' = vmDir /\ disk' = disk /\ pidFile' = pidFile /\ state' = state /\ escaped' = escaped
  BY DEF Vanished, vm, spent, seen
<1>2. /\ ClientType' /\ OthersSame(c) /\ client'[c].todo = <<>>
  BY <1>0, <1>1, Ends
<1>3. /\ Lineup(client'[c].todo) /\ OpenThenStop(client'[c].todo)
      /\ ~Front(client'[c].todo, {"record"}) /\ ~Front(client'[c].todo, Waits)
  BY <1>2, Empties DEF Front
<1>4. TypeOk'
  BY <1>0, <1>1, <1>2 DEF TypeOk, StateType, ProcType, Watch
<1>5. AnyInv'
  BY <1>0, <1>1, <1>2, <1>3, <1>4, QuietStep DEF QemuInv
<1>6. ~overlapped => ~QemuUp
  BY <1>1, UpIsOnFile
<1>7. OneInv' /\ OpenInv'
  BY <1>0, <1>1, <1>2, <1>3, <1>6, DownKeeps DEF QemuUp
<1> QED
  BY <1>5, <1>7 DEF QemuInv

LEMMA CrashKeeps ==
  ASSUME QemuInv, Watch, NEW c \in Client, Crash(c)
  PROVE  QemuInv'
<1>1. /\ ~Idle(c) /\ Abort(c) /\ proc' = proc /\ births' = births /\ struck' = struck
      /\ vmDir' = vmDir /\ disk' = disk /\ pidFile' = pidFile /\ state' = state /\ escaped' = escaped
  BY DEF Crash, vm, seen
<1>2. crashes' \in Nat /\ crashes' # 0
  <2>1. crashes' = crashes + 1 /\ crashes \in Nat
    BY Truths DEF Crash
  <2> QED
    BY <2>1
<1>3. vmDir \in {"live", "gone"}
  BY <1>1, Truths DEF TypeOk, LineupsInv
<1> QED
  BY <1>1, <1>2, <1>3, EndStep

\* A process that passes for the recorded one is none that stop may strike.
LEMMA MatchIsNoStranger ==
  ASSUME AnyInv, pidFile \in Pid, NEW answers \in BOOLEAN,
         process_matches(pidFile, state.pid_start, answers), state.pid_start # None
  PROVE  proc[pidFile].kind # "other"
BY DEF AnyInv, BirthsInv, process_matches

LEMMA HaltKeeps ==
  ASSUME QemuInv, Watch, NEW c \in Client, Halt(c)
  PROVE  QemuInv'
<1>0. /\ TypeOk /\ LineupsInv /\ OneInv /\ OpenInv /\ RecordProtectsStrangers' /\ crashes' = crashes
      /\ crashes \in Nat /\ "halt" \in Steps /\ At(c, "halt") /\ escaped' = escaped
  BY Truths DEF Halt, AsksPs, FaultUnless, Fault, spent, seen, Steps
<1>1. /\ vmDir = "live" /\ ~Idle(c) /\ ~Before(c, {"record"}) /\ client[c].todo # <<>> /\ Head(client[c].todo) = "halt"
  BY DEF Halt, At, Before, Front, Idle
<1>2. /\ vmDir' = vmDir /\ disk' = disk /\ proc' = proc /\ struck' = struck /\ births' = births
  BY DEF Halt
<1> DEFINE t == client[c].todo
<1>3. CASE pidFile = None \/ ~_process_alive(pidFile)
  <2>1. pidFile' = None /\ mark_stopped /\ Skip(c, 5)
    BY <1>3 DEF Halt
  <2> DEFINE u == SubSeq(t, 5 + 1, Len(t))
  <2>2. /\ ClientType' /\ OthersSame(c) /\ Lineup(client'[c].todo) /\ client'[c].todo = u
        /\ OpenThenStop(client[c].todo) => OpenThenStop(client'[c].todo)
    BY <1>0, <2>1, SkipMoves
  <2>3. u = <<>> \/ Front(u, {"look", "moveDisk", "remove", "copy"})
    <3>1. u = <<>> \/ Front(u, following["finish"])
      BY <1>0, <1>1, Ahead DEF LineupsInv
    <3> HIDE DEF u
    <3> QED
      BY <3>1, FollowingIs, Zenon
  <2> HIDE DEF u
  <2>4. ~Front(client'[c].todo, {"record"}) /\ ~Front(client'[c].todo, Waits)
    BY <2>2, <2>3 DEF Front, Waits
  <2>5. StateType' /\ state'.pid_start = None
    BY <2>1 DEF mark_stopped, StateType
  <2>6. TypeOk'
    BY <1>0, <1>2, <2>1, <2>2, <2>5 DEF TypeOk, ProcType, Watch
  <2>7. AnyInv'
    BY <1>0, <1>1, <1>2, <2>1, <2>2, <2>4, <2>5, <2>6, QuietStep DEF QemuInv
  <2>8. ~overlapped => ~QemuUp
    BY <1>3, UpIsOnFile
  <2>9. ~overlapped => ~QemuUp'
    BY <1>2, <2>8 DEF QemuUp
  <2>10. OneInv' /\ OpenInv'
    BY <1>0, <1>1, <2>2, <2>9, DownKeeps
  <2> QED
    BY <2>7, <2>10 DEF QemuInv
<1>4. CASE state' = [state EXCEPT !.error = TRUE] /\ Abort(c) /\ pidFile' = pidFile
  <2>1. state' = [state EXCEPT !.error = TRUE] /\ Abort(c) /\ pidFile' = pidFile
    BY <1>4
  <2>2. state'.error
    BY <1>0, <2>1 DEF TypeOk, StateType
  <2> QED
    BY <1>0, <1>1, <1>2, <2>1, <2>2, EndStep
<1>5. ASSUME NEW answers \in BOOLEAN, pidFile # None, process_matches(pidFile, state.pid_start, answers),
             WaitsFor(c, pidFile), pidFile' = pidFile, state' = state
      PROVE  QemuInv'
  <2>1. WaitsFor(c, pidFile) /\ pidFile' = pidFile /\ state' = state /\ pidFile \in Pid
    BY <1>0, <1>5 DEF TypeOk
  <2>2. Lineup(t) /\ t # <<>> /\ t \in Seq(Steps)
    BY <1>0, <1>1 DEF LineupsInv, Lineup, Part
  <2> DEFINE u == SubSeq(t, 1 + 1, Len(t))
             identity == state.pid_start
  <2>3. Tail(t) = u /\ identity \in Nat \union {None}
    BY <1>0, <2>2, TailIsSubSeq DEF TypeOk, StateType
  <2>4. client' = [client EXCEPT ![c] = [todo |-> u, pid |-> pidFile, identity |-> identity]]
    BY <2>1, <2>3 DEF WaitsFor
  <2> HIDE DEF identity
  <2>5. /\ ClientType' /\ OthersSame(c) /\ client'[c].pid = pidFile /\ client'[c].identity = identity
        /\ client'[c].todo = u /\ Lineup(client'[c].todo)
        /\ OpenThenStop(client[c].todo) => OpenThenStop(client'[c].todo)
    BY <1>0, <2>1, <2>3, <2>4, MovesOn
  <2>6. (u = <<>> \/ Front(u, {"acpi"})) /\ (KillIn(t) => KillIn(u))
    <3>1. (u = <<>> \/ Front(u, following["halt"])) /\ (KillIn(t) => KillIn(u))
      BY <1>1, <2>2, Ahead
    <3> HIDE DEF u
    <3> QED
      BY <3>1, FollowingIs, Zenon
  <2> HIDE DEF u
  <2>7. KillAhead(c) /\ ~Front(client'[c].todo, Downs \union {"record"}) /\ ~Front(client'[c].todo, {"look"})
    BY <2>5, <2>6 DEF KillAhead, Front, Downs
  <2>8. client'[c].pid \in Pid /\ (client'[c].identity # None => proc[client'[c].pid].kind # "other")
    BY <1>5, <2>1, <2>5, MatchIsNoStranger DEF QemuInv, identity
  <2>9. ~overlapped => \A p \in Pid : proc[p].kind = "vm" => client'[c].pid = p
    BY <2>5, UpIsOnFile DEF QemuUp
  <2> QED
    BY <1>0, <1>1, <1>2, <2>1, <2>5, <2>7, <2>8, <2>9, StayStep
<1>6. CASE pidFile # None /\ _process_alive(pidFile)
  <2>1. PICK answers \in BOOLEAN :
          /\ pidFile' = pidFile
          /\ IF process_matches(pidFile, state.pid_start, answers)
             THEN WaitsFor(c, pidFile) /\ state' = state
             ELSE state' = [state EXCEPT !.error = TRUE] /\ Abort(c)
    BY <1>6 DEF Halt
  <2> QED
    BY <1>4, <1>5, <1>6, <2>1
<1> QED
  BY <1>3, <1>6

LEMMA WaitSteps ==
  /\ StopVM[2] = "acpi" /\ StopVM[3] = "term" /\ StopVM[4] = "kill"
  /\ \A i \in 2 .. 4 : i = 2 \/ i = 3 \/ i = 4
  /\ 5 - 2 = 3 /\ 5 - 3 = 2 /\ 5 - 4 = 1
  /\ {"acpi", "term", "kill"} \subseteq Steps
BY DEF StopVM, Steps

\* A process a stop waits on: it has ended, it is asked to, or it is killed.
LEMMA AwaitKeeps ==
  ASSUME QemuInv, Watch, NEW c \in Client, Await(c)
  PROVE  QemuInv'
<1>0. PICK i \in 2 .. 4 :
        /\ At(c, StopVM[i])
        /\ LET p == client[c].pid IN
           IF ~_process_alive(p)
           THEN Skip(c, 5 - i) /\ UNCHANGED <<vm, proc, struck, spent>>
           ELSE IF i = 4
           THEN state' = [state EXCEPT !.error = TRUE] /\ Abort(c)
                /\ UNCHANGED <<vmDir, disk, pidFile, proc, struck, spent>>
           ELSE /\ Signals(c, p)
                /\ IF i = 3 THEN Killed(p) ELSE UNCHANGED <<proc, spent>>
                /\ Skip(c, 1) /\ UNCHANGED vm
        /\ UNCHANGED <<seen, births>>
  BY DEF Await
<1> DEFINE step == StopVM[i]
           p == client[c].pid
           t == client[c].todo
<1>1. /\ TypeOk /\ LineupsInv /\ OneInv /\ OpenInv /\ RecordProtectsStrangers /\ crashes' = crashes
      /\ crashes \in Nat /\ births' = births /\ step \in Waits /\ step \in Steps
      /\ step = "acpi" \/ step = "term" \/ step = "kill"
      /\ escaped' = escaped
  <2>1. step \in Waits /\ step \in Steps /\ (step = "acpi" \/ step = "term" \/ step = "kill")
    BY <1>0, WaitSteps DEF Waits
  <2>2. crashes' = crashes /\ births' = births /\ escaped' = escaped
    BY <1>0 DEF spent, seen, Killed, Fault
  <2> QED
    BY <2>1, <2>2, Truths
<1>2. /\ vmDir = "live" /\ ~Idle(c) /\ ~Before(c, {"record"}) /\ Before(c, Waits)
      /\ t # <<>> /\ Head(t) = step /\ Lineup(t)
  <2>1. vmDir = "live" /\ ~Idle(c) /\ t # <<>> /\ Head(t) = step /\ Lineup(t)
    BY <1>0, <1>1 DEF At, Idle, LineupsInv
  <2> QED
    BY <1>1, <2>1 DEF Before, Front
<1>3. p \in Pid /\ (client[c].identity # None => proc[p].kind # "other")
  BY <1>2 DEF QemuInv, AnyInv, NumbersInv
<1>4. ~overlapped => \A q \in Pid : proc[q].kind = "vm" => p = q
  BY <1>1, <1>2 DEF OneInv, TrackedInv
<1>5. CASE ~_process_alive(p)
  <2>1. Skip(c, 5 - i) /\ UNCHANGED <<vm, proc, struck>> /\ 5 - i \in Nat
    BY <1>0, <1>5
  <2> DEFINE n == 5 - i
             u == SubSeq(t, n + 1, Len(t))
  <2>2. /\ ClientType' /\ OthersSame(c) /\ Lineup(client'[c].todo) /\ client'[c].todo = u
        /\ OpenThenStop(client[c].todo) => OpenThenStop(client'[c].todo)
    BY <1>1, <2>1, SkipMoves
  <2>3. u = <<>> \/ Front(u, {"finish"})
    <3>1. /\ n = 1 => u = <<>> \/ Front(u, following[Head(t)])
          /\ Head(t) = "acpi" /\ n = 3 => Front(u, {"finish"})
          /\ Head(t) = "term" /\ n = 2 => Front(u, {"finish"})
      BY <1>2, <2>1, Ahead
    <3>2. (Head(t) = "acpi" /\ n = 3) \/ (Head(t) = "term" /\ n = 2) \/ (Head(t) = "kill" /\ n = 1)
      BY <1>2, WaitSteps
    <3> HIDE DEF u, n
    <3>3. following["kill"] = {"finish"}
      BY FollowingIs
    <3> QED
      BY <3>1, <3>2, <3>3
  <2> HIDE DEF u, n
  <2>4. ~Front(client'[c].todo, {"record"}) /\ ~Front(client'[c].todo, Waits)
    BY <2>2, <2>3 DEF Front, Waits
  <2>5. TypeOk' /\ RecordProtectsStrangers'
    BY <1>1, <2>1, <2>2 DEF TypeOk, ProcType, StateType, Watch, vm, RecordProtectsStrangers
  <2>6. AnyInv'
    BY <1>1, <1>2, <2>1, <2>2, <2>4, <2>5, QuietStep DEF QemuInv, vm
  <2>7. ~overlapped => ~QemuUp'
    BY <1>4, <1>5, <2>1 DEF QemuUp, _process_alive
  <2>8. OneInv' /\ OpenInv'
    BY <1>1, <1>2, <2>2, <2>7, DownKeeps
  <2> QED
    BY <2>6, <2>8 DEF QemuInv
<1>6. CASE _process_alive(p) /\ i = 4
  <2>1. /\ state' = [state EXCEPT !.error = TRUE] /\ Abort(c)
        /\ UNCHANGED <<vmDir, disk, pidFile, proc, struck>>
    BY <1>0, <1>6
  <2>2. state'.error
    BY <1>1, <2>1 DEF TypeOk, StateType
  <2> QED
    BY <1>1, <1>2, <2>1, <2>2, EndStep
<1>7. CASE _process_alive(p) /\ i # 4
  <2>1. /\ Signals(c, p) /\ (proc' = proc \/ proc' = [proc EXCEPT ![p] = Free])
        /\ Skip(c, 1) /\ UNCHANGED vm /\ step # "kill"
    BY <1>0, <1>7, WaitSteps DEF Killed
  <2>2. /\ ClientType' /\ OthersSame(c) /\ client'[c].pid = p /\ client'[c].identity = client[c].identity
        /\ Lineup(client'[c].todo) /\ (OpenThenStop(client[c].todo) => OpenThenStop(client'[c].todo))
        /\ client'[c].todo = <<>> \/ Front(client'[c].todo, following[step])
        /\ KillAhead(c)
    BY <1>0, <1>1, <2>1, StepOn
  <2>3. ~Front(client'[c].todo, Downs \union {"record"}) /\ ~Front(client'[c].todo, {"look"})
    <3>1. following[step] = {"term"} \/ following[step] = {"kill"}
      BY <1>1, <2>1, FollowingIs
    <3> HIDE DEF step
    <3> QED
      BY <2>2, <3>1 DEF Front, Downs
  <2>4. RecordProtectsStrangers'
    BY <1>1, <1>3, <2>1 DEF Signals, RecordProtectsStrangers
  <2>5. CASE proc' = proc
    <3>1. /\ proc' = proc /\ disk' = disk /\ pidFile' = pidFile /\ state' = state /\ vmDir' = vmDir
      BY <2>1, <2>5 DEF vm
    <3>2. /\ client'[c].pid \in Pid /\ (client'[c].identity # None => proc[client'[c].pid].kind # "other")
          /\ ~overlapped => \A q \in Pid : proc[q].kind = "vm" => client'[c].pid = q
      BY <1>3, <1>4, <2>2
    <3> HIDE DEF p, step
    <3> QED
      BY <1>1, <1>2, <2>2, <2>3, <2>4, <3>1, <3>2, StayStep
  <2>6. CASE proc' = [proc EXCEPT ![p] = Free]
    <3>1. proc' = [proc EXCEPT ![p] = Free]
      BY <2>6
    <3> HIDE DEF p, step
    <3>2. /\ ProcType' /\ proc'[p] = Free /\ \A q \in Pid : proc'[q] \in {proc[q], Free}
      <4> DEFINE R == [kind : {"free", "vm", "other", "foreign"}, birth : Nat, restricted : BOOLEAN]
      <4>1. proc \in [Pid -> R] /\ Free \in R
        BY <1>1 DEF TypeOk, ProcType, Free
      <4> HIDE DEF R
      <4>2. /\ proc' \in [Pid -> R] /\ proc'[p] = Free /\ \A q \in Pid : proc'[q] \in {proc[q], Free}
        BY <1>3, <3>1, <4>1
      <4> QED
        BY <4>2 DEF ProcType, R
    <3>3. TypeOk'
      BY <1>1, <2>1, <2>2, <3>2 DEF TypeOk, StateType, Watch, vm
    <3>4. proc'[p].kind # "other"
      BY <3>2 DEF Free
    <3>5. ~Front(client'[c].todo, {"record"})
      BY <2>3 DEF Front
    <3>6. AnyInv'
      BY <1>1, <1>2, <1>3, <2>1, <2>2, <2>4, <3>2, <3>3, <3>4, <3>5, QuietStep DEF QemuInv, vm
    <3>7. ASSUME ~overlapped PROVE ~QemuUp'
      <4> SUFFICES ASSUME NEW q \in Pid, proc'[q].kind = "vm" PROVE FALSE
        BY DEF QemuUp
      <4>1. q # p /\ proc[q].kind = "vm"
        BY <3>2 DEF Free
      <4> QED
        BY <1>4, <3>7, <4>1
    <3>8. OneInv' /\ OpenInv'
      BY <1>1, <1>2, <2>2, <3>7, DownKeeps
    <3> QED
      BY <3>6, <3>8 DEF QemuInv
  <2> QED
    BY <2>1, <2>5, <2>6
<1> QED
  BY <1>5, <1>6, <1>7

\* QEMU comes up, on a number that was free and with a new start time.
LEMMA LaunchKeeps ==
  ASSUME QemuInv, Watch, NEW c \in Client, Launch(c)
  PROVE  QemuInv'
<1>0. /\ TypeOk /\ LineupsInv /\ OneInv /\ OpenInv /\ crashes' = crashes /\ RecordProtectsStrangers'
      /\ crashes \in Nat
  BY Truths DEF Launch, Fails, FaultUnless, Fault, spent
<1>1. ASSUME NEW step \in {"launch", "launchOpen"}, NEW p \in Pid,
             At(c, step), ~QemuUp, Spawn(p, "vm", step = "launch"), pidFile' = p, Skip(c, 1),
             escaped' = FALSE, UNCHANGED <<vmDir, disk, state, struck, spent>>
      PROVE  QemuInv'
  <2>1. vmDir = "live" /\ ~Idle(c) /\ client[c].todo # <<>> /\ Head(client[c].todo) = step /\ step \in Steps
    BY <1>1 DEF At, Idle, Steps
  <2>2. /\ ClientType' /\ OthersSame(c) /\ Lineup(client'[c].todo) /\ KillAhead(c)
        /\ OpenThenStop(client[c].todo) => OpenThenStop(client'[c].todo)
        /\ Front(client'[c].todo, {"record"})
    <3>1. /\ ClientType' /\ OthersSame(c) /\ Lineup(client'[c].todo)
          /\ OpenThenStop(client[c].todo) => OpenThenStop(client'[c].todo)
          /\ client'[c].todo = <<>> \/ Front(client'[c].todo, following[step])
          /\ client'[c].todo = <<>> => step \in Last
          /\ step # "kill" => KillAhead(c)
      BY <1>0, <1>1, <2>1, StepOn
    <3>2. following[step] = {"record"} /\ step \notin Last /\ step # "kill"
      BY FollowingIs DEF Last
    <3> QED
      BY <3>1, <3>2, Zenon
  <2> DEFINE new == [kind |-> "vm", birth |-> births + 1, restricted |-> (step = "launch")]
  <2>3. /\ ProcType' /\ births' = births + 1 /\ births' \in Nat /\ proc[p].kind = "free"
        /\ proc'[p] = new /\ \A q \in Pid \ {p} : proc'[q] = proc[q]
    <3> DEFINE R == [kind : {"free", "vm", "other", "foreign"}, birth : Nat, restricted : BOOLEAN]
    <3>1. births \in Nat /\ births' = births + 1 /\ proc[p].kind = "free" /\ proc' = [proc EXCEPT ![p] = new]
      BY <1>0, <1>1 DEF Spawn, TypeOk
    <3>2. proc \in [Pid -> R] /\ new \in R
      BY <1>0, <3>1 DEF TypeOk, ProcType
    <3> HIDE DEF R, new
    <3>3. proc' \in [Pid -> R] /\ proc'[p] = new /\ \A q \in Pid \ {p} : proc'[q] = proc[q]
      BY <3>1, <3>2
    <3> QED
      BY <3>1, <3>3 DEF ProcType, R
  <2>4. new.kind = "vm" /\ new.birth = births + 1 /\ new.restricted = (step = "launch")
    OBVIOUS
  <2> HIDE DEF new
  <2>5. TypeOk'
    BY <1>0, <1>1, <2>2, <2>3 DEF TypeOk, StateType, Watch, spent
  <2>6. LineupsInv'
    BY <1>0, <1>1, <2>1, <2>2 DEF LineupsInv, OthersSame
  <2>7. BirthsInv'
    <3>1. births \in Nat /\ BirthsInv /\ state' = state /\ ProcType
      BY <1>0, <1>1 DEF QemuInv, AnyInv, TypeOk
    <3>2. \A q \in Pid : proc[q].birth \in Nat /\ proc[q].birth <= births
      BY <3>1 DEF BirthsInv, ProcType
    <3>3. \A q \in Pid : proc'[q].birth <= births'
      BY <2>3, <2>4, <3>1, <3>2
    <3>4. \A q \in Pid \ {p} : proc'[q].birth # births + 1 /\ proc'[q] = proc[q]
      BY <2>3, <3>1, <3>2
    <3>5. \A q, r \in Pid : q # r /\ _process_alive(q)' /\ _process_alive(r)' => proc'[q].birth # proc'[r].birth
      BY <2>3, <2>4, <3>1, <3>4 DEF BirthsInv, _process_alive
    <3>6. state'.pid_start # None =>
            state'.pid_start <= births' /\ \A q \in Pid : proc'[q].kind = "other" => proc'[q].birth # state'.pid_start
      <4> SUFFICES ASSUME state'.pid_start # None
                   PROVE  state'.pid_start <= births' /\ \A q \in Pid : proc'[q].kind = "other" => proc'[q].birth # state'.pid_start
        OBVIOUS
      <4>1. state.pid_start \in Nat /\ state.pid_start <= births
        BY <1>0, <3>1 DEF BirthsInv, TypeOk, StateType
      <4>2. \A q \in Pid : proc'[q].kind = "other" => proc'[q].birth # state'.pid_start
        BY <2>3, <2>4, <3>1 DEF BirthsInv
      <4> QED
        BY <2>3, <3>1, <4>1, <4>2
    <3> QED
      BY <3>3, <3>5, <3>6 DEF BirthsInv
  <2>8. NumbersInv'
    <3>1. \A q \in Pid : proc[q].kind # "other" => proc'[q].kind # "other"
      BY <2>3, <2>4
    <3>2. \A q \in Pid : pidFile' = q => proc'[q].kind # "other"
      BY <1>1, <2>3, <2>4
    <3>3. ASSUME NEW d \in Client, Before(d, Waits)'
          PROVE  client'[d].pid \in Pid /\ (client'[d].identity # None => proc'[client'[d].pid].kind # "other")
      <4>1. d # c
        BY <2>2, <3>3 DEF Before, Front, Waits
      <4>2. client'[d] = client[d] /\ Before(d, Waits)
        BY <2>2, <3>3, <4>1 DEF OthersSame, Before
      <4>3. client[d].pid \in Pid /\ (client[d].identity # None => proc[client[d].pid].kind # "other")
        BY <2>1, <4>2 DEF QemuInv, AnyInv, NumbersInv
      <4> QED
        BY <3>1, <4>2, <4>3
    <3> QED
      BY <3>2, <3>3 DEF NumbersInv
  <2>9. AnyInv'
    BY <1>0, <2>5, <2>6, <2>7, <2>8 DEF AnyInv
  <2>10. ASSUME ~overlapped'
         PROVE  /\ Alone' /\ ~overlapped
                /\ \A d \in Client \ {c} : client[d].todo = <<>> /\ client'[d].todo = <<>>
    BY <1>0, <2>1, <2>2, <2>10, OnlyOne
  <2>11. \A q \in Pid : proc'[q].kind = "vm" => q = p
    BY <1>1, <2>3 DEF QemuUp
  <2>12. ASSUME ~overlapped' PROVE TrackedInv' /\ RecordInv'
    <3>1. \A d \in Client : ~Before(d, Downs)' /\ ~Before(d, Waits)' /\ ~Before(d, {"look"})'
      BY <2>2, <2>10, <2>12 DEF Before, Front, Downs, Waits
    <3>2. Before(c, {"record"})'
      BY <2>2 DEF Before
    <3> QED
      BY <1>1, <2>1, <2>11, <3>1, <3>2 DEF TrackedInv, RecordInv
  <2>13. OneInv'
    BY <2>10, <2>12 DEF OneInv
  <2>14. OpenInv'
    <3> SUFFICES ASSUME Uninterrupted', FreshProvisions'
                 PROVE  /\ \A d \in Client : OpenThenStop(client'[d].todo)
                        /\ \A q \in Pid : proc'[q].kind = "vm" /\ ~proc'[q].restricted =>
                             \E d \in Client : KillIn(client'[d].todo)
      BY DEF OpenInv
    <3>1. \A d \in Client : OpenThenStop(client[d].todo)
      BY <1>0, <2>10 DEF OpenInv, Uninterrupted, OneAtATime, FreshProvisions, Provisioned, Watch
    <3>2. \A d \in Client : OpenThenStop(client'[d].todo)
      BY <2>2, <3>1 DEF OthersSame
    <3>3. ASSUME NEW q \in Pid, proc'[q].kind = "vm", ~proc'[q].restricted
          PROVE  KillIn(client'[c].todo)
      <4> DEFINE t == client[c].todo
      <4>1. step = "launchOpen"
        BY <2>3, <2>4, <2>11, <3>3
      <4>2. Lineup(t) /\ t # <<>> /\ Head(t) = "launchOpen"
        BY <1>0, <2>1, <4>1 DEF LineupsInv
      <4>3. t[1] = "launchOpen" /\ 1 \in 1 .. Len(t)
        <5>1. Len(t) \in Nat \ {0} /\ Head(t) = t[1]
          BY <4>2, FrontOf
        <5> QED
          BY <4>2, <5>1
      <4>4. KillIn(t)
        <5>1. PICK j \in 1 + 1 .. Len(t) : t[j] = "kill"
          BY <3>1, <4>3 DEF OpenThenStop
        <5>2. Len(t) \in Nat
          BY <4>2, FrontOf
        <5>3. j \in 1 .. Len(t)
          BY <5>1, <5>2
        <5> QED
          BY <5>1, <5>3 DEF KillIn
      <4> QED
        BY <2>2, <4>4 DEF KillAhead
    <3> QED
      BY <3>2, <3>3
  <2> QED
    BY <2>9, <2>13, <2>14 DEF QemuInv
<1>2. CASE (At(c, "launch") \/ At(c, "launchOpen")) /\ Fails(c) /\ escaped' = escaped
  <2>1. vmDir = "live" /\ ~Idle(c) /\ ~Before(c, {"record"})
    BY <1>2 DEF At, Idle, Before, Front
  <2>2. state'.error
    BY <1>0, <1>2 DEF Fails, TypeOk, StateType
  <2> QED
    BY <1>0, <1>2, <2>1, <2>2, EndStep DEF Fails
<1> QED
  BY <1>1, <1>2 DEF Launch

\* What is recorded is the start time of the QEMU in qemu.pid, or nothing.
LEMMA RecordKeeps ==
  ASSUME QemuInv, Watch, NEW c \in Client, Record(c)
  PROVE  QemuInv'
<1>0. /\ TypeOk /\ LineupsInv /\ OneInv /\ OpenInv /\ crashes' = crashes /\ RecordProtectsStrangers'
      /\ At(c, "record") /\ Skip(c, 1) /\ "record" \in Steps
  BY Truths DEF Record, PsAnswers, Fault, spent, seen, Steps
<1>1. /\ vmDir = "live" /\ ~Idle(c) /\ Before(c, {"record"})
      /\ vmDir' = vmDir /\ disk' = disk /\ pidFile' = pidFile /\ proc' = proc /\ births' = births
      /\ escaped' = escaped
  BY DEF Record, At, Before, Front, Idle, seen
<1>2. /\ ClientType' /\ OthersSame(c) /\ Lineup(client'[c].todo) /\ KillAhead(c)
      /\ OpenThenStop(client[c].todo) => OpenThenStop(client'[c].todo)
      /\ Front(client'[c].todo, {"mounts", "provision", "configure"})
  <2>1. /\ ClientType' /\ OthersSame(c) /\ Lineup(client'[c].todo)
        /\ OpenThenStop(client[c].todo) => OpenThenStop(client'[c].todo)
        /\ client'[c].todo = <<>> \/ Front(client'[c].todo, following["record"])
        /\ client'[c].todo = <<>> => "record" \in Last
        /\ "record" # "kill" => KillAhead(c)
    BY <1>0, StepOn
  <2>2. "record" \notin Last /\ "record" # "kill"
    BY DEF Last
  <2> QED
    BY <2>1, <2>2, FollowingIs, Zenon
<1>3. PICK start :
        /\ state' = [pid_start |-> start, error |-> FALSE, stopped |-> FALSE]
        /\ start = None \/ (start = proc[pidFile].birth /\ pidFile # None /\ _process_alive(pidFile))
  <2>1. PICK known \in BOOLEAN :
          state' = [pid_start |-> process_identity(known), error |-> FALSE, stopped |-> FALSE]
    BY DEF Record
  <2>2. \/ process_identity(known) = None
        \/ process_identity(known) = proc[pidFile].birth /\ pidFile # None /\ _process_alive(pidFile)
    BY DEF process_identity
  <2> QED
    BY <2>1, <2>2
<1>4. state'.pid_start = start /\ ~state'.stopped
  BY <1>3
<1>5. start # None =>
        /\ pidFile \in Pid /\ start = proc[pidFile].birth /\ start \in Nat /\ start <= births
        /\ proc[pidFile].kind # "other" /\ _process_alive(pidFile)
  <2> SUFFICES ASSUME start # None
               PROVE  /\ pidFile \in Pid /\ start = proc[pidFile].birth /\ start \in Nat /\ start <= births
                      /\ proc[pidFile].kind # "other" /\ _process_alive(pidFile)
    OBVIOUS
  <2>1. pidFile \in Pid /\ start = proc[pidFile].birth /\ _process_alive(pidFile)
    BY <1>0, <1>3 DEF TypeOk
  <2>2. start \in Nat /\ start <= births
    BY <1>0, <2>1 DEF TypeOk, ProcType, QemuInv, AnyInv, BirthsInv
  <2>3. proc[pidFile].kind # "other"
    BY <1>1, <2>1 DEF QemuInv, AnyInv, NumbersInv
  <2> QED
    BY <2>1, <2>2, <2>3
<1>6. TypeOk'
  <2>1. StateType'
    BY <1>3, <1>5 DEF StateType
  <2> QED
    BY <1>0, <1>1, <1>2, <2>1 DEF TypeOk, ProcType, Watch
<1>7. AnyInv'
  <2>1. LineupsInv'
    BY <1>0, <1>1, <1>2 DEF LineupsInv, OthersSame
  <2>2. BirthsInv'
    <3>1. BirthsInv
      BY DEF QemuInv, AnyInv
    <3>2. ASSUME NEW q \in Pid, proc[q].kind = "other", start # None PROVE proc[q].birth # start
      <4>1. q # pidFile /\ _process_alive(q)
        BY <1>5, <3>2 DEF _process_alive
      <4> QED
        BY <1>5, <3>1, <3>2, <4>1 DEF BirthsInv
    <3> QED
      BY <1>1, <1>4, <1>5, <3>1, <3>2 DEF BirthsInv, _process_alive
  <2>3. NumbersInv'
    <3>1. \A q \in Pid : pidFile' = q => proc'[q].kind # "other"
      BY <1>1 DEF QemuInv, AnyInv, NumbersInv
    <3>2. ASSUME NEW d \in Client, Before(d, Waits)'
          PROVE  client'[d].pid \in Pid /\ (client'[d].identity # None => proc'[client'[d].pid].kind # "other")
      <4>1. d # c
        BY <1>2, <3>2 DEF Before, Front, Waits
      <4>2. client'[d] = client[d] /\ Before(d, Waits)
        BY <1>2, <3>2, <4>1 DEF OthersSame, Before
      <4> QED
        BY <1>1, <4>2 DEF QemuInv, AnyInv, NumbersInv
    <3> QED
      BY <3>1, <3>2 DEF NumbersInv
  <2> QED
    BY <1>0, <1>6, <2>1, <2>2, <2>3 DEF AnyInv
<1>8. ASSUME ~overlapped'
      PROVE  /\ ~overlapped /\ TrackedInv /\ Alone'
             /\ \A d \in Client \ {c} : client[d].todo = <<>> /\ client'[d].todo = <<>>
  BY <1>0, <1>1, <1>2, <1>8, OnlyOne
<1>9. ASSUME ~overlapped' PROVE TrackedInv' /\ RecordInv'
  <2>1. \A d \in Client : ~Before(d, Downs)' /\ ~Before(d, Waits)' /\ ~Before(d, {"look"})'
    BY <1>2, <1>8, <1>9 DEF Before, Front, Downs, Waits
  <2>2. \A p \in Pid : proc[p].kind = "vm" => pidFile = p /\ vmDir = "live"
    BY <1>8, <1>9 DEF TrackedInv
  <2>3. TrackedInv'
    BY <1>1, <2>1, <2>2 DEF TrackedInv
  <2>4. RecordInv'
    BY <1>1, <1>3, <1>4, <2>2 DEF RecordInv
  <2> QED
    BY <2>3, <2>4
<1>10. OneInv'
  BY <1>8, <1>9 DEF OneInv
<1>11. OpenInv'
  <2> SUFFICES ASSUME Uninterrupted', FreshProvisions'
               PROVE  /\ \A d \in Client : OpenThenStop(client'[d].todo)
                      /\ \A q \in Pid : proc'[q].kind = "vm" /\ ~proc'[q].restricted =>
                           \E d \in Client : KillIn(client'[d].todo)
    BY DEF OpenInv
  <2>1. Uninterrupted /\ FreshProvisions
    BY <1>0, <1>8 DEF Uninterrupted, OneAtATime, FreshProvisions, Provisioned, Watch
  <2>2. \A d \in Client : OpenThenStop(client'[d].todo)
    BY <1>0, <1>2, <2>1 DEF OthersSame, OpenInv
  <2>3. ASSUME NEW q \in Pid, proc[q].kind = "vm", ~proc[q].restricted
        PROVE  \E d \in Client : KillIn(client'[d].todo)
    <3>1. \E d \in Client : KillIn(client[d].todo)
      BY <1>0, <1>1, <2>1, <2>3 DEF OpenInv
    <3> QED
      BY <1>2, <3>1 DEF OthersSame, KillAhead
  <2> QED
    BY <1>1, <2>2, <2>3
<1> QED
  BY <1>7, <1>10, <1>11 DEF QemuInv

\* A process ends, or all do: no command notices yet.
LEMMA ExitKeeps ==
  ASSUME QemuInv, Watch, client' = client, state' = state, vmDir' = vmDir, disk' = disk, struck' = struck,
         births' = births, crashes' = crashes, escaped' = escaped, pidFile' \in {pidFile, None},
         ProcType', \A p \in Pid : proc'[p] \in {proc[p], Free},
         \A p \in Pid : proc'[p].kind = "vm" /\ pidFile = p => pidFile' = p
  PROVE  QemuInv'
<1>1. TypeOk'
  BY DEF QemuInv, AnyInv, TypeOk, ClientType, StateType, Watch
<1>2. \A p \in Pid : /\ proc'[p].kind # "free" => proc'[p] = proc[p]
                     /\ proc'[p].birth <= births
                     /\ proc'[p].kind = "other" => proc[p].kind = "other"
  BY DEF QemuInv, AnyInv, BirthsInv, TypeOk, ProcType, Free
<1>3. BirthsInv'
  <2>1. \A p, q \in Pid : p # q /\ _process_alive(p)' /\ _process_alive(q)' => proc'[p].birth # proc'[q].birth
    BY <1>2 DEF QemuInv, AnyInv, BirthsInv, _process_alive
  <2>2. state'.pid_start # None =>
          state'.pid_start <= births /\ \A p \in Pid : proc'[p].kind = "other" => proc'[p].birth # state'.pid_start
    BY <1>2 DEF QemuInv, AnyInv, BirthsInv
  <2> QED
    BY <1>2, <2>1, <2>2 DEF BirthsInv
<1>4. NumbersInv'
  <2> SUFFICES ASSUME vmDir = "live" PROVE NumbersInv'
    BY DEF NumbersInv
  <2>1. (\E c \in Client : Before(c, {"record"})') => \A p \in Pid : pidFile' = p => proc'[p].kind # "other"
    BY <1>2, PidAssumption DEF QemuInv, AnyInv, NumbersInv, Before
  <2>2. \A c \in Client : Before(c, Waits)' =>
          client'[c].pid \in Pid /\ (client'[c].identity # None => proc'[client'[c].pid].kind # "other")
    BY <1>2 DEF QemuInv, AnyInv, NumbersInv, Before
  <2> QED
    BY <2>1, <2>2 DEF NumbersInv
<1>5. LineupsInv' /\ RecordProtectsStrangers'
  BY DEF QemuInv, AnyInv, LineupsInv, Idle, RecordProtectsStrangers
<1>6. \A p \in Pid : proc'[p].kind = "vm" => proc'[p] = proc[p]
  BY <1>2
<1>7. OneInv' /\ OpenInv'
  BY <1>6, WorldKeeps DEF QemuInv
<1> QED
  BY <1>1, <1>3, <1>4, <1>5, <1>7 DEF QemuInv, AnyInv

\* Another process is given a number that no command is watching.
LEMMA StrangerKeeps ==
  ASSUME QemuInv, Watch, NEW p \in Pid, StrangerStarts(p)
  PROVE  QemuInv'
<1>0. /\ TypeOk /\ births \in Nat /\ births' = births + 1 /\ proc[p].kind = "free"
      /\ client' = client /\ state' = state /\ vmDir' = vmDir /\ disk' = disk /\ struck' = struck
      /\ pidFile' = pidFile /\ crashes' = crashes /\ escaped' = escaped
  BY DEF StrangerStarts, Spawn, QemuInv, AnyInv, TypeOk, vm, spent, seen
<1>k. PICK kind \in {"other", "foreign"} : Spawn(p, kind, FALSE)
  BY <1>0, SitesAssumption DEF StrangerStarts, TypeOk
<1> DEFINE new == [kind |-> kind, birth |-> births + 1, restricted |-> FALSE]
<1>1. ProcType' /\ proc'[p] = new /\ \A q \in Pid \ {p} : proc'[q] = proc[q]
  <2> DEFINE R == [kind : {"free", "vm", "other", "foreign"}, birth : Nat, restricted : BOOLEAN]
  <2>1. proc \in [Pid -> R] /\ new \in R /\ proc' = [proc EXCEPT ![p] = new]
    BY <1>0, <1>k DEF TypeOk, ProcType, Spawn
  <2> HIDE DEF R, new
  <2>2. proc' \in [Pid -> R] /\ proc'[p] = new /\ \A q \in Pid \ {p} : proc'[q] = proc[q]
    BY <2>1
  <2> QED
    BY <2>2 DEF ProcType, R
<1>2. new.kind \in {"other", "foreign"} /\ new.birth = births + 1
  OBVIOUS
<1> HIDE DEF new
<1>3. TypeOk'
  BY <1>0, <1>1 DEF TypeOk, ClientType, StateType, Watch
<1>4. BirthsInv'
  <2>1. \A q \in Pid : proc[q].birth \in Nat /\ proc[q].birth <= births
    BY <1>0 DEF QemuInv, AnyInv, BirthsInv, TypeOk, ProcType
  <2>2. \A q \in Pid : proc'[q].birth <= births'
    BY <1>0, <1>1, <1>2, <2>1
  <2>3. \A q \in Pid \ {p} : proc'[q].birth # births + 1
    BY <1>0, <1>1, <2>1
  <2>4. \A q, r \in Pid : q # r /\ _process_alive(q)' /\ _process_alive(r)' => proc'[q].birth # proc'[r].birth
    BY <1>1, <1>2, <2>3 DEF QemuInv, AnyInv, BirthsInv, _process_alive
  <2>5. ASSUME state.pid_start # None
        PROVE  state.pid_start <= births' /\ \A q \in Pid : proc'[q].kind = "other" => proc'[q].birth # state.pid_start
    <3>1. state.pid_start \in Nat /\ state.pid_start <= births
      BY <1>0, <2>5 DEF QemuInv, AnyInv, BirthsInv, TypeOk, StateType
    <3>2. state.pid_start <= births' /\ state.pid_start # births + 1
      BY <1>0, <3>1
    <3>3. \A q \in Pid \ {p} : proc'[q].kind = "other" => proc'[q].birth # state.pid_start
      BY <1>1, <2>5 DEF QemuInv, AnyInv, BirthsInv
    <3> QED
      BY <1>1, <1>2, <3>2, <3>3
  <2> QED
    BY <1>0, <2>2, <2>4, <2>5 DEF BirthsInv
<1>5. NumbersInv'
  <2> SUFFICES ASSUME vmDir = "live" PROVE NumbersInv'
    BY <1>0 DEF NumbersInv
  <2>1. ASSUME NEW c \in Client, Before(c, {"record"}), NEW q \in Pid, pidFile = q
        PROVE  proc'[q].kind # "other"
    <3>1. At(c, "record")
      BY <2>1 DEF Before, Front, At, Idle
    <3>2. q # p
      BY <2>1, <3>1 DEF StrangerStarts
    <3> QED
      BY <1>1, <2>1, <3>2 DEF QemuInv, AnyInv, NumbersInv
  <2>2. ASSUME NEW c \in Client, Before(c, Waits)
        PROVE  client[c].pid \in Pid /\ (client[c].identity # None => proc'[client[c].pid].kind # "other")
    <3>1. Waiting(c)
      <4>1. 2 \in 2 .. 4 /\ 3 \in 2 .. 4 /\ 4 \in 2 .. 4
        OBVIOUS
      <4>2. At(c, "acpi") \/ At(c, "term") \/ At(c, "kill")
        BY <2>2 DEF Before, Front, At, Idle, Waits
      <4> QED
        BY <4>1, <4>2, WaitSteps DEF Waiting
    <3>2. client[c].pid # p
      BY <3>1 DEF StrangerStarts
    <3> QED
      BY <1>1, <2>2, <3>2 DEF QemuInv, AnyInv, NumbersInv
  <2> QED
    BY <1>0, <2>1, <2>2 DEF NumbersInv, Before
<1>6. LineupsInv' /\ RecordProtectsStrangers'
  BY <1>0 DEF QemuInv, AnyInv, LineupsInv, Idle, RecordProtectsStrangers
<1>7. \A q \in Pid : proc'[q].kind = "vm" => proc'[q] = proc[q]
  BY <1>1, <1>2
<1>8. OneInv' /\ OpenInv'
  BY <1>0, <1>7, WorldKeeps DEF QemuInv
<1> QED
  BY <1>3, <1>4, <1>5, <1>6, <1>8 DEF QemuInv, AnyInv

\* A process ends by itself.
LEMMA ExitSteps ==
  ASSUME QemuInv, Watch, NEW p \in Pid, GuestExits(p) \/ StrangerExits(p)
  PROVE  QemuInv'
<1> DEFINE R == [kind : {"free", "vm", "other", "foreign"}, birth : Nat, restricted : BOOLEAN]
<1>1. proc \in [Pid -> R] /\ Free \in R
  BY DEF QemuInv, AnyInv, TypeOk, ProcType, Free
<1> HIDE DEF R
<1>2. proc' = [proc EXCEPT ![p] = Free]
  BY DEF GuestExits, StrangerExits
<1>3. proc' \in [Pid -> R] /\ proc'[p] = Free /\ \A q \in Pid \ {p} : proc'[q] = proc[q]
  BY <1>1, <1>2
<1>4. pidFile' \in {pidFile, None} /\ (pidFile # p => pidFile' = pidFile)
  BY DEF GuestExits, StrangerExits, vm
<1>5. \A q \in Pid : proc'[q].kind = "vm" /\ pidFile = q => pidFile' = q
  BY <1>3, <1>4 DEF Free
<1>6. ProcType' /\ \A q \in Pid : proc'[q] \in {proc[q], Free}
  BY <1>3 DEF ProcType, R
<1>7. /\ client' = client /\ state' = state /\ vmDir' = vmDir /\ disk' = disk /\ struck' = struck
      /\ births' = births /\ crashes' = crashes /\ escaped' = escaped
  BY DEF GuestExits, StrangerExits, vm, spent, seen
<1> QED
  BY <1>4, <1>5, <1>6, <1>7, ExitKeeps

-----------------------------------------------------------------------------
(* The theorems.                                                            *)

LEMMA InitIsInvariant == Init => QemuInv
<1> SUFFICES ASSUME Init PROVE QemuInv
  OBVIOUS
<1>1. \A c \in Client : client[c] = Nothing /\ client[c].todo = <<>>
  BY DEF Init, Nothing
<1>2. \A p \in Pid : proc[p] = Free
  BY DEF Init
<1>3. TypeOk
  <2>1. ClientType
    <3> DEFINE S == Seq(Steps)
    <3>1. <<>> \in S
      OBVIOUS
    <3> HIDE DEF S
    <3>2. Nothing \in [todo : S, pid : Pid \union {None}, identity : Nat \union {None}]
      BY <3>1 DEF Nothing
    <3>3. client \in [Client -> [todo : S, pid : Pid \union {None}, identity : Nat \union {None}]]
      BY <3>2 DEF Init
    <3> QED
      BY <3>3 DEF ClientType, S
  <2>2. ProcType /\ StateType
    BY DEF Init, ProcType, StateType, Free
  <2> QED
    BY <2>1, <2>2 DEF Init, TypeOk
<1>4. LineupsInv
  BY <1>1, Empties DEF LineupsInv, Idle
<1>5. BirthsInv
  BY <1>2 DEF Init, BirthsInv, Free, _process_alive
<1>6. NumbersInv /\ RecordProtectsStrangers
  BY DEF Init, NumbersInv, RecordProtectsStrangers
<1>7. ~QemuUp /\ \A p \in Pid : proc[p].kind # "vm"
  BY <1>2 DEF QemuUp, Free
<1>8. \A c \in Client : Idle(c) /\ \A steps : ~Before(c, steps)
  BY <1>1 DEF Idle, Before, Front
<1>9. OneInv
  BY <1>7, <1>8 DEF OneInv, Alone, TrackedInv, RecordInv
<1>10. OpenInv
  BY <1>1, <1>7, Empties DEF OpenInv
<1> QED
  BY <1>3, <1>4, <1>5, <1>6, <1>9, <1>10 DEF QemuInv, AnyInv

LEMMA StutterKeeps ==
  ASSUME QemuInv, UNCHANGED vars
  PROVE  QemuInv'
<1>1. /\ client' = client /\ state' = state /\ vmDir' = vmDir /\ disk' = disk /\ struck' = struck
      /\ births' = births /\ crashes' = crashes /\ pidFile' = pidFile /\ proc' = proc /\ site' = site
      /\ overlapped' = overlapped /\ escaped' = escaped
  BY DEF vars, vm, spent, seen
<1>2. AnyInv'
  BY <1>1 DEF QemuInv, AnyInv, TypeOk, ClientType, ProcType, StateType, LineupsInv, Idle, BirthsInv, NumbersInv,
              Before, RecordProtectsStrangers, _process_alive
<1>3. OneInv'
  BY <1>1 DEF QemuInv, OneInv, Alone, Idle, TrackedInv, RecordInv, Before, QemuUp
<1>4. OpenInv'
  BY <1>1 DEF QemuInv, OpenInv, Uninterrupted, OneAtATime, FreshProvisions, Provisioned, Before
<1> QED
  BY <1>2, <1>3, <1>4 DEF QemuInv

\* What the commands of a machine keep at every step.
THEOREM LifecycleInvariant == Spec => []QemuInv
<1>1. QemuInv /\ [Next]_vars => QemuInv'
  <2> SUFFICES ASSUME QemuInv, Next PROVE QemuInv'
    BY StutterKeeps
  <2>0. Watch
    BY DEF Next, Watch
  <2>1. ASSUME NEW c \in Client,
               \E op \in {"create", "start", "stop", "kill", "rebuild", "fresh", "delete", "export"} : Run(c, op)
        PROVE  QemuInv'
    BY <2>0, <2>1, RunKeeps
  <2>2. ASSUME NEW c \in Client,
               Prepare(c) \/ Clear(c) \/ Finish(c) \/ MoveDisk(c) \/ Remove(c) \/ Copied(c)
        PROVE  QemuInv'
    BY <2>0, <2>2, SteppedDown
  <2>3. ASSUME NEW c \in Client, Mounts(c) \/ Provision(c) \/ Configure(c) PROVE QemuInv'
    BY <2>0, <2>3, InGuestKeeps, EscapeKeeps DEF Mounts, Provision, Configure
  <2>4. ASSUME NEW c \in Client,
               Look(c) \/ Launch(c) \/ Record(c) \/ Halt(c) \/ Await(c) \/ Slay(c) \/ Vanished(c) \/ Crash(c)
        PROVE  QemuInv'
    BY <2>0, <2>4, LookKeeps, LaunchKeeps, RecordKeeps, HaltKeeps, AwaitKeeps, SlayKeeps, VanishedKeeps, CrashKeeps
  <2>5. ASSUME NEW p \in Pid, GuestExits(p) \/ StrangerStarts(p) \/ StrangerExits(p) PROVE QemuInv'
    BY <2>0, <2>5, ExitSteps, StrangerKeeps
  <2>6. CASE Reboot
    <3>1. \A p \in Pid : proc'[p] = Free
      BY <2>6 DEF Reboot
    <3>2. /\ client' = client /\ state' = state /\ vmDir' = vmDir /\ disk' = disk /\ struck' = struck
          /\ births' = births /\ crashes' = crashes /\ pidFile' = pidFile /\ escaped' = escaped
          /\ proc' = [p \in Pid |-> Free]
      BY <2>6 DEF Reboot, vm, seen
    <3>3. ProcType' /\ \A p \in Pid : proc'[p] \in {proc[p], Free} /\ proc'[p].kind # "vm"
      BY <3>1, <3>2 DEF ProcType, Free
    <3> QED
      BY <2>0, <3>2, <3>3, ExitKeeps
  <2> QED
    BY <2>1, <2>2, <2>3, <2>4, <2>5, <2>6 DEF Next, Step
<1> QED
  BY <1>1, InitIsInvariant, PTL DEF Spec

\* A stop that has a start time to go by signals nothing but the machine's
\* QEMU, however commands overlap and whatever they are interrupted in
\* (qemu_backend.py stop).
THEOREM StrangersAreSafe == Spec => []RecordProtectsStrangers
<1>1. QemuInv => RecordProtectsStrangers
  BY DEF QemuInv, AnyInv
<1> QED
  BY <1>1, LifecycleInvariant, PTL

\* With commands given one at a time, a QEMU that runs between them is the one
\* qemu.pid names, also after interrupted commands (qemu_backend.py start,
\* stop and destroy).
THEOREM QemuIsTracked == Spec => []NoUntrackedQemu
<1>1. QemuInv => NoUntrackedQemu
  BY DEF QemuInv, OneInv, TrackedInv, NoUntrackedQemu, OneAtATime
<1> QED
  BY <1>1, LifecycleInvariant, PTL

\* A start or a stop that refuses the machine's QEMU has had no answer of ps.
LEMMA RefusedUnanswered ==
  ASSUME QemuInv, NEW c \in Client, Look(c) \/ Halt(c), Uninterrupted, TRUE \notin refused
  PROVE  TRUE \notin refused'
<1>1. ~Idle(c) /\ ~Before(c, {"record"})
  BY DEF Look, Halt, At, Idle, Before, Front
<1>2. CASE refused' = refused
  BY <1>2
<1>3. ASSUME NEW answers \in BOOLEAN, pidFile # None, _process_alive(pidFile),
             ~process_matches(pidFile, state.pid_start, answers), Refuses(answers)
      PROVE  TRUE \notin refused'
  <2>1. CASE proc[pidFile].kind # "vm"
    BY <1>3, <2>1 DEF Refuses
  <2>2. CASE proc[pidFile].kind = "vm"
    <3>1. pidFile \in Pid
      BY <1>3 DEF QemuInv, AnyInv, TypeOk
    <3>2. process_matches(pidFile, state.pid_start, TRUE)
      BY <1>1, <2>2, <3>1, UpIsRecorded DEF QemuUp
    <3> QED
      BY <1>3, <3>2 DEF Refuses
  <2> QED
    BY <2>1, <2>2
<1> QED
  BY <1>2, <1>3 DEF Look, Halt, seen

\* The machine's own QEMU is never taken for a stranger by a stop or a start
\* that ps answers (qemu_backend.py stop and start).
THEOREM OwnQemuIsAccepted == Spec => []OwnQemuAccepted
<1>1. Init => OwnQemuAccepted
  BY DEF Init, OwnQemuAccepted
<1>2. QemuInv /\ OwnQemuAccepted /\ [Next]_vars => OwnQemuAccepted'
  <2> SUFFICES ASSUME QemuInv, OwnQemuAccepted, [Next]_vars, Uninterrupted' PROVE TRUE \notin refused'
    BY DEF OwnQemuAccepted
  <2>1. CASE UNCHANGED vars
    BY <2>1 DEF vars, seen, spent, OwnQemuAccepted, Uninterrupted, OneAtATime
  <2>2. CASE Next
    <3>1. crashes \in Nat
      BY DEF QemuInv, AnyInv, TypeOk
    <3>2. crashes' = crashes \/ crashes' = crashes + 1
      BY <2>2 DEF Next, Step, Run, Prepare, Look, Clear, Launch, Record, Mounts, Provision, Configure, InGuest,
                  Escapes, Halt, Await, Finish, Slay, MoveDisk, Remove, Copied, Vanished, Crash, GuestExits,
                  StrangerStarts, StrangerExits, Reboot, Fault, FaultUnless, AsksPs, PsAnswers, Killed, spent
    <3>3. Uninterrupted
      <4>1. ~overlapped /\ crashes' = 0
        BY <2>2 DEF Next, Uninterrupted, OneAtATime
      <4> QED
        BY <3>1, <3>2, <4>1 DEF Uninterrupted, OneAtATime
    <3>4. (\E c \in Client : Look(c) \/ Halt(c)) \/ refused' = refused
      BY <2>2 DEF Next, Step, Run, Prepare, Clear, Launch, Record, Mounts, Provision, Configure, InGuest, Fails,
                  Escapes, Await, Finish, Slay, MoveDisk, Remove, Copied, Vanished, Crash, GuestExits,
                  StrangerStarts, StrangerExits, Reboot, seen
    <3> QED
      BY <3>3, <3>4, RefusedUnanswered DEF OwnQemuAccepted
  <2> QED
    BY <2>1, <2>2
<1> QED
  BY <1>1, <1>2, LifecycleInvariant, PTL DEF Spec

\* When state.yaml says the machine stopped, its QEMU is gone
\* (qemu_backend.py stop).
THEOREM StoppedQemuIsGone == Spec => []StoppedMeansExited
<1>1. QemuInv => StoppedMeansExited
  <2> SUFFICES ASSUME QemuInv, Uninterrupted, Settled PROVE state.stopped => ~QemuUp
    BY DEF StoppedMeansExited
  <2>1. RecordInv /\ \A c \in Client : ~Before(c, {"record"})
    BY DEF QemuInv, OneInv, Uninterrupted, OneAtATime, Settled, Idle, Before, Front
  <2> QED
    BY <2>1 DEF RecordInv
<1> QED
  BY <1>1, LifecycleInvariant, PTL

\* An export copies the disk of a machine that is down, as long as no other
\* command is given meanwhile (vm_snapshots.py export_vm).
THEOREM ExportsAreQuiesced == Spec => []ExportsQuiesced
<1>1. QemuInv => ExportsQuiesced
  <2> SUFFICES ASSUME QemuInv, ~overlapped, NEW c \in Client, At(c, "copy") PROVE ~QemuUp
    BY DEF ExportsQuiesced, OneAtATime
  <2>1. Before(c, Downs)
    BY DEF At, Idle, Before, Front, Downs
  <2> QED
    BY <2>1 DEF QemuInv, OneInv, TrackedInv
<1> QED
  BY <1>1, LifecycleInvariant, PTL

\* Where a rebuild from a fresh disk is only given for a machine that
\* provisions, what a command has left running without an error on record has
\* its network restricted (qemu_backend.py _apply_and_restrict and rebuild).
\* Without the assumption it is false: rebuild then leaves the network open.
THEOREM SettledIsRestricted ==
  ASSUME \A s \in Sites, c \in Client : "fresh" \in s.ops[c] => s.provisioned
  PROVE  Spec => []RestrictedWhenSettled
<1>1. QemuInv => RestrictedWhenSettled
  <2> SUFFICES ASSUME QemuInv, Uninterrupted, Settled, ~state.error, ~escaped, NEW p \in Pid, proc[p].kind = "vm"
               PROVE  proc[p].restricted
    BY DEF RestrictedWhenSettled
  <2>1. FreshProvisions
    BY DEF FreshProvisions, Provisioned, QemuInv, AnyInv, TypeOk
  <2>2. \A c \in Client : ~KillIn(client[c].todo)
    BY Empties DEF Settled, Idle
  <2> QED
    BY <2>1, <2>2 DEF QemuInv, OpenInv
<1> QED
  BY <1>1, LifecycleInvariant, PTL
=============================================================================
