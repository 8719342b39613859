-------------------------- MODULE QemuGuest_proofs --------------------------
(***************************************************************************)
(* What holds of the disks and guests of QEMU machines, for any number of  *)
(* machines, any vm.yaml, and commands in any order, interrupted or not.   *)
(*                                                                         *)
(* A command's steps are counted from the end: the number that is left     *)
(* tells which settings have been written, whether the disk is new and     *)
(* whether a restart is still to come.  What the settings on the disk and  *)
(* the units in the guest then are concerns one machine alone; the base    *)
(* image concerns all of them.                                             *)
(***************************************************************************)
EXTENDS QemuGuest, SequenceTheorems, TLAPS

ImageStep == {"fetch", "fetched", "verify", "convert", "converted"}
Steps == Setting \union ImageStep
           \union {"base", "overlay", "away", "launch", "halt", "shares", "mounts", "provision"}
Ops == {"none", "create", "rebuild", "fresh", "start", "stop"}
Making == {"create", "fresh"}
SettingUp == {"create", "fresh", "rebuild"}
Lasts == Ops \union {"failed", "edited"}

Task == [op : Ops, todo : Seq(Steps), last : Lasts, left : Int]
Guest == [runs : [Unit -> Nat], mounted : BOOLEAN, share : BOOLEAN]

-----------------------------------------------------------------------------
(* The plans, read from their end.                                          *)

\* Steps as numbers: the settings in the order they are written, what else
\* happens to the guest, and the way to a new disk.
number == [x \in Steps |->
  CASE x = "limits" -> 1 [] x = "policy" -> 2 [] x = "env" -> 3 [] x = "files" -> 4
    [] x = "ssh" -> 5 [] x = "provider" -> 6 [] x = "credentials" -> 7
    [] x = "openvpn" -> 8 [] x = "web" -> 9
    [] x = "mounts" -> 10 [] x = "shares" -> 11 [] x = "launch" -> 12
    [] x = "provision" -> 13 [] x = "halt" -> 14
    [] x = "away" -> 15 [] x = "base" -> 16 [] x = "fetch" -> 17 [] x = "fetched" -> 18
    [] x = "verify" -> 19 [] x = "convert" -> 20 [] x = "converted" -> 21
    [] x = "overlay" -> 22]

LEMMA NumberIs ==
  /\ number["limits"] = 1 /\ number["policy"] = 2 /\ number["env"] = 3 /\ number["files"] = 4
  /\ number["ssh"] = 5 /\ number["provider"] = 6 /\ number["credentials"] = 7
  /\ number["openvpn"] = 8 /\ number["web"] = 9
  /\ number["mounts"] = 10 /\ number["shares"] = 11 /\ number["launch"] = 12
  /\ number["provision"] = 13 /\ number["halt"] = 14
  /\ number["away"] = 15 /\ number["base"] = 16 /\ number["fetch"] = 17 /\ number["fetched"] = 18
  /\ number["verify"] = 19 /\ number["convert"] = 20 /\ number["converted"] = 21
  /\ number["overlay"] = 22
BY DEF number, Steps, Setting, ImageStep

\* Different steps have different numbers.
LEMMA NumbersDiffer ==
  /\ \A x \in Steps : number[x] \in 1 .. 22 /\ (number[x] <= 9 <=> x \in Setting)
  /\ \A x, y \in Steps : number[x] = number[y] => x = y
  /\ \A x \in Steps : number[x] \in 17 .. 21 <=> x \in ImageStep
<1>1. \A x \in Steps : number[x] \in 1 .. 22 /\ (number[x] <= 9 <=> x \in Setting)
  BY NumberIs DEF Steps, Setting, ImageStep
<1>2. \A x, y \in Steps : number[x] = number[y] => x = y
  BY NumberIs DEF Steps, Setting, ImageStep
<1>3. \A x \in Steps : number[x] \in 17 .. 21 <=> x \in ImageStep
  BY NumberIs DEF Steps, Setting, ImageStep
<1> QED
  BY <1>1, <1>2, <1>3

\* The number of the step of a plan with n left, itself among them.
step(all, n) == number[all[Len(all) - n + 1]]

\* Where in a plan a step may be: its number x, n of the plan left, itself among
\* them, b steps behind the settings.
Place(x, b, n) ==
  /\ x \in 1 .. 22
  /\ x <= 9 <=> n - b \in 1 .. 9
  /\ x <= 9 => n = b + 10 - x
  /\ n = b + 10 => x = 10

\* With the way to a new disk: m steps behind the overlay.
NewPlace(x, b, m, n) ==
  /\ Place(x, b, n)
  /\ x >= 16 <=> n - m \in 1 .. 7
  /\ x >= 15 => n = m + 23 - x
  /\ x \in 10 .. 13 => n <= m
  /\ x = 14 => n = m + 9 \/ (b = 4 /\ n = 4)
  /\ b = 4 /\ n = 1 => x = 10

\* The places of the steps in a plan that makes a new disk, and in one that does not.
NewPlaces(all, b, m) ==
  all \in Seq(Steps) /\ Len(all) > m + 6 /\ \A n \in 1 .. Len(all) : NewPlace(step(all, n), b, m, n)
OldPlaces(all) ==
  all \in Seq(Steps) /\ Len(all) > 10 /\ \A n \in 1 .. Len(all) : Place(step(all, n), 0, n) /\ step(all, n) <= 14

LEMMA CreateProvisioned == NewPlaces(create(TRUE), 4, 16)
<1> DEFINE all == create(TRUE)
<1>1. all \in Seq(Steps)
  BY DEF create, prepare_vm_storage, ensure_base_image, apply_guest_config, start, If, Steps, Setting, ImageStep
<1>2. /\ Len(all) = 23
      /\ all[1] = "base" /\ all[2] = "fetch" /\ all[3] = "fetched" /\ all[4] = "verify"
      /\ all[5] = "convert" /\ all[6] = "converted" /\ all[7] = "overlay" /\ all[8] = "launch"
      /\ all[9] = "provision" /\ all[10] = "mounts" /\ all[11] = "limits" /\ all[12] = "policy"
      /\ all[13] = "env" /\ all[14] = "files" /\ all[15] = "ssh" /\ all[16] = "provider"
      /\ all[17] = "credentials" /\ all[18] = "openvpn" /\ all[19] = "web" /\ all[20] = "halt"
      /\ all[21] = "launch" /\ all[22] = "shares" /\ all[23] = "mounts"
  BY DEF create, prepare_vm_storage, ensure_base_image, apply_guest_config, start, If
<1> HIDE DEF all
<1>3. /\ step(all, 1) = 10 /\ step(all, 2) = 11 /\ step(all, 3) = 12 /\ step(all, 4) = 14 /\ step(all, 5) = 9
      /\ step(all, 6) = 8 /\ step(all, 7) = 7 /\ step(all, 8) = 6 /\ step(all, 9) = 5 /\ step(all, 10) = 4
      /\ step(all, 11) = 3 /\ step(all, 12) = 2 /\ step(all, 13) = 1 /\ step(all, 14) = 10 /\ step(all, 15) = 13
      /\ step(all, 16) = 12 /\ step(all, 17) = 22 /\ step(all, 18) = 21 /\ step(all, 19) = 20 /\ step(all, 20) = 19
      /\ step(all, 21) = 18 /\ step(all, 22) = 17 /\ step(all, 23) = 16
  BY <1>2, NumberIs DEF step
<1>4. ASSUME NEW n \in 1 .. 23 PROVE NewPlace(step(all, n), 4, 16, n)
  BY <1>3 DEF Place, NewPlace
<1>5. NewPlaces(all, 4, 16)
  BY <1>1, <1>2, <1>4 DEF NewPlaces
<1> QED
  BY <1>5 DEF all

LEMMA CreatePlain == NewPlaces(create(FALSE), 0, 11)
<1> DEFINE all == create(FALSE)
<1>1. all \in Seq(Steps)
  BY DEF create, prepare_vm_storage, ensure_base_image, apply_guest_config, start, If, Steps, Setting, ImageStep
<1>2. /\ Len(all) = 18
      /\ all[1] = "base" /\ all[2] = "fetch" /\ all[3] = "fetched" /\ all[4] = "verify"
      /\ all[5] = "convert" /\ all[6] = "converted" /\ all[7] = "overlay" /\ all[8] = "launch"
      /\ all[9] = "mounts" /\ all[10] = "limits" /\ all[11] = "policy" /\ all[12] = "env"
      /\ all[13] = "files" /\ all[14] = "ssh" /\ all[15] = "provider" /\ all[16] = "credentials"
      /\ all[17] = "openvpn" /\ all[18] = "web"
  BY DEF create, prepare_vm_storage, ensure_base_image, apply_guest_config, start, If
<1> HIDE DEF all
<1>3. /\ step(all, 1) = 9 /\ step(all, 2) = 8 /\ step(all, 3) = 7 /\ step(all, 4) = 6 /\ step(all, 5) = 5
      /\ step(all, 6) = 4 /\ step(all, 7) = 3 /\ step(all, 8) = 2 /\ step(all, 9) = 1 /\ step(all, 10) = 10
      /\ step(all, 11) = 12 /\ step(all, 12) = 22 /\ step(all, 13) = 21 /\ step(all, 14) = 20 /\ step(all, 15) = 19
      /\ step(all, 16) = 18 /\ step(all, 17) = 17 /\ step(all, 18) = 16
  BY <1>2, NumberIs DEF step
<1>4. ASSUME NEW n \in 1 .. 18 PROVE NewPlace(step(all, n), 0, 11, n)
  BY <1>3 DEF Place, NewPlace
<1>5. NewPlaces(all, 0, 11)
  BY <1>1, <1>2, <1>4 DEF NewPlaces
<1> QED
  BY <1>5 DEF all

LEMMA RebuildProvisioned == OldPlaces(rebuild(FALSE, TRUE))
<1> DEFINE all == rebuild(FALSE, TRUE)
<1>1. all \in Seq(Steps)
  BY DEF rebuild, prepare_vm_storage, ensure_base_image, apply_guest_config, start, If, Steps, Setting, ImageStep
<1>2. /\ Len(all) = 15
      /\ all[1] = "halt" /\ all[2] = "launch" /\ all[3] = "shares" /\ all[4] = "mounts"
      /\ all[5] = "provision" /\ all[6] = "mounts" /\ all[7] = "limits" /\ all[8] = "policy"
      /\ all[9] = "env" /\ all[10] = "files" /\ all[11] = "ssh" /\ all[12] = "provider"
      /\ all[13] = "credentials" /\ all[14] = "openvpn" /\ all[15] = "web"
  BY DEF rebuild, prepare_vm_storage, ensure_base_image, apply_guest_config, start, If
<1> HIDE DEF all
<1>3. /\ step(all, 1) = 9 /\ step(all, 2) = 8 /\ step(all, 3) = 7 /\ step(all, 4) = 6 /\ step(all, 5) = 5
      /\ step(all, 6) = 4 /\ step(all, 7) = 3 /\ step(all, 8) = 2 /\ step(all, 9) = 1 /\ step(all, 10) = 10
      /\ step(all, 11) = 13 /\ step(all, 12) = 10 /\ step(all, 13) = 11 /\ step(all, 14) = 12 /\ step(all, 15) = 14
  BY <1>2, NumberIs DEF step
<1>4. ASSUME NEW n \in 1 .. 15 PROVE Place(step(all, n), 0, n) /\ step(all, n) <= 14
  BY <1>3 DEF Place
<1>5. OldPlaces(all)
  BY <1>1, <1>2, <1>4 DEF OldPlaces
<1> QED
  BY <1>5 DEF all

LEMMA RebuildPlain == OldPlaces(rebuild(FALSE, FALSE))
<1> DEFINE all == rebuild(FALSE, FALSE)
<1>1. all \in Seq(Steps)
  BY DEF rebuild, prepare_vm_storage, ensure_base_image, apply_guest_config, start, If, Steps, Setting, ImageStep
<1>2. /\ Len(all) = 14
      /\ all[1] = "halt" /\ all[2] = "launch" /\ all[3] = "shares" /\ all[4] = "mounts"
      /\ all[5] = "mounts" /\ all[6] = "limits" /\ all[7] = "policy" /\ all[8] = "env"
      /\ all[9] = "files" /\ all[10] = "ssh" /\ all[11] = "provider" /\ all[12] = "credentials"
      /\ all[13] = "openvpn" /\ all[14] = "web"
  BY DEF rebuild, prepare_vm_storage, ensure_base_image, apply_guest_config, start, If
<1> HIDE DEF all
<1>3. /\ step(all, 1) = 9 /\ step(all, 2) = 8 /\ step(all, 3) = 7 /\ step(all, 4) = 6 /\ step(all, 5) = 5
      /\ step(all, 6) = 4 /\ step(all, 7) = 3 /\ step(all, 8) = 2 /\ step(all, 9) = 1 /\ step(all, 10) = 10
      /\ step(all, 11) = 10 /\ step(all, 12) = 11 /\ step(all, 13) = 12 /\ step(all, 14) = 14
  BY <1>2, NumberIs DEF step
<1>4. ASSUME NEW n \in 1 .. 14 PROVE Place(step(all, n), 0, n) /\ step(all, n) <= 14
  BY <1>3 DEF Place
<1>5. OldPlaces(all)
  BY <1>1, <1>2, <1>4 DEF OldPlaces
<1> QED
  BY <1>5 DEF all

LEMMA FreshProvisioned == NewPlaces(rebuild(TRUE, TRUE), 4, 18)
<1> DEFINE all == rebuild(TRUE, TRUE)
<1>1. all \in Seq(Steps)
  BY DEF rebuild, prepare_vm_storage, ensure_base_image, apply_guest_config, start, If, Steps, Setting, ImageStep
<1>2. /\ Len(all) = 27
      /\ all[1] = "halt" /\ all[2] = "away" /\ all[3] = "base" /\ all[4] = "fetch"
      /\ all[5] = "fetched" /\ all[6] = "verify" /\ all[7] = "convert" /\ all[8] = "converted"
      /\ all[9] = "overlay" /\ all[10] = "launch" /\ all[11] = "shares" /\ all[12] = "mounts"
      /\ all[13] = "provision" /\ all[14] = "mounts" /\ all[15] = "limits" /\ all[16] = "policy"
      /\ all[17] = "env" /\ all[18] = "files" /\ all[19] = "ssh" /\ all[20] = "provider"
      /\ all[21] = "credentials" /\ all[22] = "openvpn" /\ all[23] = "web" /\ all[24] = "halt"
      /\ all[25] = "launch" /\ all[26] = "shares" /\ all[27] = "mounts"
  BY DEF rebuild, prepare_vm_storage, ensure_base_image, apply_guest_config, start, If
<1> HIDE DEF all
<1>3. /\ step(all, 1) = 10 /\ step(all, 2) = 11 /\ step(all, 3) = 12 /\ step(all, 4) = 14 /\ step(all, 5) = 9
      /\ step(all, 6) = 8 /\ step(all, 7) = 7 /\ step(all, 8) = 6 /\ step(all, 9) = 5 /\ step(all, 10) = 4
      /\ step(all, 11) = 3 /\ step(all, 12) = 2 /\ step(all, 13) = 1 /\ step(all, 14) = 10 /\ step(all, 15) = 13
      /\ step(all, 16) = 10 /\ step(all, 17) = 11 /\ step(all, 18) = 12 /\ step(all, 19) = 22 /\ step(all, 20) = 21
      /\ step(all, 21) = 20 /\ step(all, 22) = 19 /\ step(all, 23) = 18 /\ step(all, 24) = 17 /\ step(all, 25) = 16
      /\ step(all, 26) = 15 /\ step(all, 27) = 14
  BY <1>2, NumberIs DEF step
<1>4. ASSUME NEW n \in 1 .. 27 PROVE NewPlace(step(all, n), 4, 18, n)
  BY <1>3 DEF Place, NewPlace
<1>5. NewPlaces(all, 4, 18)
  BY <1>1, <1>2, <1>4 DEF NewPlaces
<1> QED
  BY <1>5 DEF all

LEMMA FreshPlain == NewPlaces(rebuild(TRUE, FALSE), 0, 13)
<1> DEFINE all == rebuild(TRUE, FALSE)
<1>1. all \in Seq(Steps)
  BY DEF rebuild, prepare_vm_storage, ensure_base_image, apply_guest_config, start, If, Steps, Setting, ImageStep
<1>2. /\ Len(all) = 22
      /\ all[1] = "halt" /\ all[2] = "away" /\ all[3] = "base" /\ all[4] = "fetch"
      /\ all[5] = "fetched" /\ all[6] = "verify" /\ all[7] = "convert" /\ all[8] = "converted"
      /\ all[9] = "overlay" /\ all[10] = "launch" /\ all[11] = "shares" /\ all[12] = "mounts"
      /\ all[13] = "mounts" /\ all[14] = "limits" /\ all[15] = "policy" /\ all[16] = "env"
      /\ all[17] = "files" /\ all[18] = "ssh" /\ all[19] = "provider" /\ all[20] = "credentials"
      /\ all[21] = "openvpn" /\ all[22] = "web"
  BY DEF rebuild, prepare_vm_storage, ensure_base_image, apply_guest_config, start, If
<1> HIDE DEF all
<1>3. /\ step(all, 1) = 9 /\ step(all, 2) = 8 /\ step(all, 3) = 7 /\ step(all, 4) = 6 /\ step(all, 5) = 5
      /\ step(all, 6) = 4 /\ step(all, 7) = 3 /\ step(all, 8) = 2 /\ step(all, 9) = 1 /\ step(all, 10) = 10
      /\ step(all, 11) = 10 /\ step(all, 12) = 11 /\ step(all, 13) = 12 /\ step(all, 14) = 22 /\ step(all, 15) = 21
      /\ step(all, 16) = 20 /\ step(all, 17) = 19 /\ step(all, 18) = 18 /\ step(all, 19) = 17 /\ step(all, 20) = 16
      /\ step(all, 21) = 15 /\ step(all, 22) = 14
  BY <1>2, NumberIs DEF step
<1>4. ASSUME NEW n \in 1 .. 22 PROVE NewPlace(step(all, n), 0, 13, n)
  BY <1>3 DEF Place, NewPlace
<1>5. NewPlaces(all, 0, 13)
  BY <1>1, <1>2, <1>4 DEF NewPlaces
<1> QED
  BY <1>5 DEF all

-----------------------------------------------------------------------------
(* What is left of a plan.                                                  *)

\* todo is the end of the plan all.
Remains(todo, all) ==
  /\ todo \in Seq(Steps) /\ Len(todo) <= Len(all)
  /\ \A i \in 1 .. Len(todo) : todo[i] = all[Len(all) - Len(todo) + i]

\* The next step, and what remains behind it, or behind k steps of it.
LEMMA RemainsHead ==
  ASSUME NEW all \in Seq(Steps), NEW todo, Remains(todo, all), todo # <<>>
  PROVE  /\ Head(todo) \in Steps /\ number[Head(todo)] = step(all, Len(todo))
         /\ Len(todo) \in 1 .. Len(all)
         /\ Remains(Tail(todo), all) /\ Len(Tail(todo)) = Len(todo) - 1
<1>1. /\ todo \in Seq(Steps) /\ Len(todo) \in 1 .. Len(all) /\ Head(todo) = todo[1] /\ todo[1] \in Steps
      /\ todo[1] = all[Len(all) - Len(todo) + 1]
  BY DEF Remains
<1> DEFINE rest == Tail(todo)
<1>2. /\ rest \in Seq(Steps) /\ Len(rest) = Len(todo) - 1
      /\ \A i \in 1 .. Len(rest) : rest[i] = todo[i + 1]
  BY <1>1
<1> HIDE DEF rest
<1>3. ASSUME NEW i \in 1 .. Len(rest) PROVE rest[i] = all[Len(all) - Len(rest) + i]
  <2>1. i + 1 \in 1 .. Len(todo)
    BY <1>1, <1>2
  <2>2. todo[i + 1] = all[Len(all) - Len(todo) + (i + 1)]
    BY <2>1 DEF Remains
  <2>3. Len(all) - Len(todo) + (i + 1) = Len(all) - Len(rest) + i
    BY <1>1, <1>2
  <2> QED
    BY <1>2, <2>2, <2>3
<1>4. Remains(rest, all)
  BY <1>1, <1>2, <1>3 DEF Remains
<1> QED
  BY <1>1, <1>2, <1>4 DEF step, rest

LEMMA RemainsBehind ==
  ASSUME NEW all \in Seq(Steps), NEW todo, Remains(todo, all), NEW k \in 1 .. Len(todo)
  PROVE  LET rest == SubSeq(todo, k + 1, Len(todo))
         IN  Remains(rest, all) /\ Len(rest) = Len(todo) - k
<1> DEFINE rest == SubSeq(todo, k + 1, Len(todo))
<1>1. todo \in Seq(Steps) /\ Len(todo) \in Nat /\ Len(all) \in Nat /\ Len(todo) <= Len(all)
  BY DEF Remains
<1>2. /\ rest \in Seq(Steps) /\ Len(rest) = Len(todo) - k
      /\ \A i \in 1 .. Len(rest) : rest[i] = todo[k + i]
  BY <1>1
<1> HIDE DEF rest
<1>3. ASSUME NEW i \in 1 .. Len(rest) PROVE rest[i] = all[Len(all) - Len(rest) + i]
  <2>1. k + i \in 1 .. Len(todo)
    BY <1>1, <1>2
  <2>2. todo[k + i] = all[Len(all) - Len(todo) + (k + i)]
    BY <2>1 DEF Remains
  <2>3. Len(all) - Len(todo) + (k + i) = Len(all) - Len(rest) + i
    BY <1>1, <1>2
  <2> QED
    BY <1>2, <2>2, <2>3
<1>4. Remains(rest, all)
  BY <1>1, <1>2, <1>3 DEF Remains
<1> QED
  BY <1>2, <1>4 DEF rest

-----------------------------------------------------------------------------
(* The plan of a command when c is the machine's vm.yaml.                   *)

Provisioned(c) == c.provision # "none"

\* The steps behind the settings: the restart of a new machine that was provisioned.
Behind(op, c) == IF op \in Making /\ Provisioned(c) THEN 4 ELSE 0

\* The steps behind the overlay.
Since(op, c) == (IF op = "create" THEN 11 ELSE 13) + (IF Provisioned(c) THEN 5 ELSE 0)

LEMMA NewPlan ==
  ASSUME NEW op \in Making, NEW c
  PROVE  NewPlaces(plan(op, Provisioned(c)), Behind(op, c), Since(op, c))
<1>1. CASE op = "create" /\ Provisioned(c)
  <2>1. Provisioned(c) = TRUE
    BY <1>1 DEF Provisioned
  <2>2. plan("create", TRUE) = create(TRUE)
    BY DEF plan
  <2>3. Behind(op, c) = 4 /\ Since(op, c) = 16
    BY <1>1 DEF Behind, Since, Making
  <2> QED
    BY <1>1, <2>1, <2>2, <2>3, CreateProvisioned
<1>2. CASE op = "create" /\ ~Provisioned(c)
  <2>1. Provisioned(c) = FALSE
    BY <1>2 DEF Provisioned
  <2>2. plan("create", FALSE) = create(FALSE)
    BY DEF plan
  <2>3. Behind(op, c) = 0 /\ Since(op, c) = 11
    BY <1>2 DEF Behind, Since, Making
  <2> QED
    BY <1>2, <2>1, <2>2, <2>3, CreatePlain
<1>3. CASE op = "fresh" /\ Provisioned(c)
  <2>1. Provisioned(c) = TRUE
    BY <1>3 DEF Provisioned
  <2>2. plan("fresh", TRUE) = rebuild(TRUE, TRUE)
    BY DEF plan
  <2>3. Behind(op, c) = 4 /\ Since(op, c) = 18
    BY <1>3 DEF Behind, Since, Making
  <2> QED
    BY <1>3, <2>1, <2>2, <2>3, FreshProvisioned
<1>4. CASE op = "fresh" /\ ~Provisioned(c)
  <2>1. Provisioned(c) = FALSE
    BY <1>4 DEF Provisioned
  <2>2. plan("fresh", FALSE) = rebuild(TRUE, FALSE)
    BY DEF plan
  <2>3. Behind(op, c) = 0 /\ Since(op, c) = 13
    BY <1>4 DEF Behind, Since, Making
  <2> QED
    BY <1>4, <2>1, <2>2, <2>3, FreshPlain
<1> QED
  BY <1>1, <1>2, <1>3, <1>4 DEF Making

LEMMA OldPlan ==
  ASSUME NEW c
  PROVE  OldPlaces(plan("rebuild", Provisioned(c)))
<1>1. plan("rebuild", TRUE) = rebuild(FALSE, TRUE) /\ plan("rebuild", FALSE) = rebuild(FALSE, FALSE)
  BY DEF plan
<1>2. Provisioned(c) = TRUE \/ Provisioned(c) = FALSE
  BY DEF Provisioned
<1> QED
  BY <1>1, <1>2, RebuildProvisioned, RebuildPlain

\* start ends with the mounts, and stop is one step.
LEMMA ShortPlans ==
  ASSUME NEW c
  PROVE  /\ plan("start", Provisioned(c)) \in Seq(Steps)
         /\ Len(plan("start", Provisioned(c))) = 3
         /\ step(plan("start", Provisioned(c)), 1) = 10
         /\ step(plan("start", Provisioned(c)), 2) = 11
         /\ step(plan("start", Provisioned(c)), 3) = 12
         /\ plan("stop", Provisioned(c)) \in Seq(Steps)
         /\ Len(plan("stop", Provisioned(c))) = 1
         /\ step(plan("stop", Provisioned(c)), 1) = 14
<1>1. plan("start", Provisioned(c)) = <<"launch", "shares", "mounts">>
  BY DEF plan, start
<1>2. plan("stop", Provisioned(c)) = <<"halt">>
  BY DEF plan
<1>3. /\ step(<<"launch", "shares", "mounts">>, 1) = 10 /\ step(<<"launch", "shares", "mounts">>, 2) = 11
      /\ step(<<"launch", "shares", "mounts">>, 3) = 12 /\ step(<<"halt">>, 1) = 14
  BY NumberIs DEF step
<1>4. /\ <<"launch", "shares", "mounts">> \in Seq(Steps) /\ Len(<<"launch", "shares", "mounts">>) = 3
      /\ <<"halt">> \in Seq(Steps) /\ Len(<<"halt">>) = 1
  BY DEF Steps
<1> QED
  BY <1>1, <1>2, <1>3, <1>4, Zenon

-----------------------------------------------------------------------------
(* A machine between two steps: n steps are left of its command, b of them   *)
(* behind the settings; d is its disk, g its guest and c its vm.yaml.        *)

\* The step that writes setting s has been done.
Past(n, b, s) == n <= b + 9 - number[s]

\* What vm.yaml says of a setting in the guest's files, with the host's opencode
\* directory over the provider's file once the credentials are written.
Value(n, b, c, s) ==
  IF s = "provider" /\ Past(n, b, "credentials") /\ c.credentials # 0 /\ HostConfig
  THEN 0 ELSE c[s]

\* A new disk has the settings that were written and no others, and its guest's
\* units run with them.
New(n, b, d, g, c) ==
  /\ d \in Disk
  /\ \A s \in Setting : d.has[s] = IF Past(n, b, s) THEN Value(n, b, c, s) ELSE 0
  /\ g # None => \A u \in Unit : g.runs[u] = d.has[u]

\* A command that makes the disk: there is no guest on the way to it.
NewAt(n, b, m, d, g, c) ==
  /\ n <= m => New(n, b, d, g, c)
  /\ n > m /\ n # m + 9 => g = None
  /\ g # None /\ (n = 0 \/ (b = 0 /\ n <= 9)) => g.mounted

\* A rebuild that keeps the disk.
KeptAt(n, d, g, c) ==
  /\ \A s \in Setting : Past(n, 0, s) /\ c[s] # 0 => d.has[s] = Value(n, 0, c, s)
  /\ g # None => \A u \in Unit : Past(n, 0, u) /\ c[u] # 0 => g.runs[u] # 0
  /\ g # None /\ n <= 9 => g.mounted
  /\ n <= 9 => d \in Disk

\* What a step, of number x, makes of the disk and the guest.
NoEffect(d, g, d2, g2) == d2 = d /\ g2 = g
Boots(d, g, d2, g2) ==
  /\ d \in Disk /\ d2 \in Disk /\ d2.has = d.has
  /\ g2 \in Guest /\ \A u \in Unit : g2.runs[u] = d.has[u]
InGuestOnly(d, g, d2, g2) ==
  /\ d \in Disk /\ d2 \in Disk /\ d2.has = d.has
  /\ g \in Guest /\ g2 \in Guest /\ g2.runs = g.runs
Writes(s, d, g, c, d2, g2) ==
  /\ d \in Disk /\ d2 \in Disk /\ g \in Guest /\ g2 \in Guest
  /\ g2.mounted = g.mounted
  /\ \/ c[s] = 0 /\ d2.has = d.has /\ g2.runs = g.runs
     \/ /\ c[s] # 0
        /\ \A r \in Setting :
             d2.has[r] = IF r = s THEN c[s]
                         ELSE IF r = "provider" /\ s = "credentials" /\ HostConfig THEN 0
                         ELSE d.has[r]
        /\ \A u \in Unit : g2.runs[u] = IF u = s /\ g.runs[u] = 0 THEN c[u] ELSE g.runs[u]

Effect(x, d, g, c, d2, g2) ==
  \/ x \in 16 .. 21 /\ NoEffect(d, g, d2, g2)
  \/ x = 15 /\ d2 = None /\ g2 = g
  \/ x = 22 /\ d2 \in Disk /\ (\A s \in Setting : d2.has[s] = 0) /\ g2 = g
  \/ x = 12 /\ Boots(d, g, d2, g2)
  \/ x = 14 /\ d2 = d /\ g2 = None
  \/ x \in {11, 13} /\ InGuestOnly(d, g, d2, g2) /\ g2.mounted = g.mounted
  \/ x = 10 /\ InGuestOnly(d, g, d2, g2) /\ g2.mounted
  \/ \E s \in Setting : x = number[s] /\ Writes(s, d, g, c, d2, g2)

LEMMA SettingNumbers ==
  /\ \A s \in Setting : number[s] \in 1 .. 9
  /\ \A s, r \in Setting : number[s] = number[r] => s = r
BY NumberIs DEF Setting

LEMMA SettingNames ==
  /\ "provider" \in Setting /\ "credentials" \in Setting /\ Unit \subseteq Setting
  /\ "provider" \notin Unit /\ "credentials" \notin Unit
BY DEF Setting, Unit

\* A step that writes no setting leaves the settings that were written.
LEMMA PastStays ==
  ASSUME NEW n \in Nat \ {0}, NEW b \in Nat, n - b \notin 1 .. 9, NEW c
  PROVE  \A s \in Setting : /\ Past(n - 1, b, s) <=> Past(n, b, s)
                            /\ Value(n - 1, b, c, s) = Value(n, b, c, s)
<1>1. ASSUME NEW s \in Setting PROVE Past(n - 1, b, s) <=> Past(n, b, s)
  BY SettingNumbers DEF Past
<1> QED
  BY <1>1, SettingNames DEF Value

\* The step that writes setting s makes it the only one that was not written before.
LEMMA PastMoves ==
  ASSUME NEW s \in Setting, NEW n \in Nat \ {0}, NEW b \in Nat, Place(number[s], b, n), NEW c
  PROVE  /\ ~Past(n, b, s) /\ Past(n - 1, b, s)
         /\ \A r \in Setting \ {s} : Past(n - 1, b, r) <=> Past(n, b, r)
         /\ Value(n - 1, b, c, s) = c[s]
         /\ \A r \in Setting \ {s} :
              Value(n - 1, b, c, r) = IF r = "provider" /\ s = "credentials" /\ c[s] # 0 /\ HostConfig
                                      THEN 0 ELSE Value(n, b, c, r)
<1>1. n = b + 10 - number[s] /\ number[s] \in 1 .. 9
  BY SettingNumbers DEF Place
<1>2. ~Past(n, b, s) /\ Past(n - 1, b, s)
  BY <1>1 DEF Past
<1>3. ASSUME NEW r \in Setting \ {s} PROVE Past(n - 1, b, r) <=> Past(n, b, r)
  <2>1. number[r] \in 1 .. 9 /\ number[r] # number[s]
    BY SettingNumbers
  <2> QED
    BY <1>1, <2>1 DEF Past
<1>4. s = "provider" => ~Past(n - 1, b, "credentials")
  BY <1>1, NumberIs DEF Past
<1>5. Value(n - 1, b, c, s) = c[s]
  BY <1>4 DEF Value
<1>6. ASSUME NEW r \in Setting \ {s}
      PROVE  Value(n - 1, b, c, r) = IF r = "provider" /\ s = "credentials" /\ c[s] # 0 /\ HostConfig
                                     THEN 0 ELSE Value(n, b, c, r)
  <2>1. CASE s = "credentials"
    BY <1>2, <2>1 DEF Value
  <2>2. CASE s # "credentials"
    <3>1. Past(n - 1, b, "credentials") <=> Past(n, b, "credentials")
      BY <1>3, <2>2, SettingNames
    <3> QED
      BY <2>2, <3>1 DEF Value
  <2> QED
    BY <2>1, <2>2
<1> QED
  BY <1>2, <1>3, <1>5, <1>6

LEMMA ValueMoves ==
  ASSUME NEW s \in Setting, NEW n \in Nat \ {0}, Place(number[s], 0, n), NEW c, NEW r \in Setting \ {s}
  PROVE  Value(n - 1, 0, c, r) = IF r = "provider" /\ s = "credentials" /\ c[s] # 0 /\ HostConfig
                                 THEN 0 ELSE Value(n, 0, c, r)
<1>1. 0 \in Nat
  OBVIOUS
<1> QED
  BY <1>1, PastMoves

\* The units of a guest run with what the disk has.
Follows(g, d) == g # None => \A u \in Unit : g.runs[u] = d.has[u]

\* A step that writes no setting and starts units only with what the disk has.
LEMMA NewStays ==
  ASSUME NEW n \in Nat \ {0}, NEW b \in Nat, n - b \notin 1 .. 9,
         NEW d, NEW g, NEW c, NEW d2, NEW g2,
         New(n, b, d, g, c), d2 \in Disk, d2.has = d.has, Follows(g2, d)
  PROVE  New(n - 1, b, d2, g2, c)
<1>1. ASSUME NEW s \in Setting
      PROVE  d2.has[s] = IF Past(n - 1, b, s) THEN Value(n - 1, b, c, s) ELSE 0
  <2>1. (Past(n - 1, b, s) <=> Past(n, b, s)) /\ Value(n - 1, b, c, s) = Value(n, b, c, s)
    BY PastStays
  <2> QED
    BY <2>1 DEF New
<1> QED
  BY <1>1 DEF New, Follows

\* A setting is written on a new disk, whose guest runs with what the disk has.
LEMMA NewIsWritten ==
  ASSUME NEW s \in Setting, NEW n \in Nat \ {0}, NEW b \in Nat, Place(number[s], b, n),
         NEW d, NEW g, NEW c, NEW d2, NEW g2,
         g # None, New(n, b, d, g, c), Writes(s, d, g, c, d2, g2)
  PROVE  New(n - 1, b, d2, g2, c)
<1>1. d.has[s] = 0 /\ (s \in Unit => g.runs[s] = 0)
  BY PastMoves DEF New
<1>2. ASSUME NEW r \in Setting
      PROVE  d2.has[r] = IF Past(n - 1, b, r) THEN Value(n - 1, b, c, r) ELSE 0
  <2>1. CASE r = s
    BY <1>1, <2>1, PastMoves DEF New, Writes
  <2>2. CASE r # s
    <3>1. d.has[r] = IF Past(n, b, r) THEN Value(n, b, c, r) ELSE 0
      BY DEF New
    <3>2. Past(n - 1, b, r) <=> Past(n, b, r)
      BY <2>2, PastMoves
    <3>3. Value(n - 1, b, c, r) = IF r = "provider" /\ s = "credentials" /\ c[s] # 0 /\ HostConfig
                                  THEN 0 ELSE Value(n, b, c, r)
      BY <2>2, PastMoves
    <3>4. d2.has[r] = IF r = "provider" /\ s = "credentials" /\ c[s] # 0 /\ HostConfig THEN 0 ELSE d.has[r]
      BY <2>2 DEF Writes
    <3> QED
      BY <3>1, <3>2, <3>3, <3>4
  <2> QED
    BY <2>1, <2>2
<1>3. ASSUME NEW u \in Unit PROVE g2.runs[u] = d2.has[u]
  <2>1. u \in Setting /\ u # "provider" /\ g.runs[u] = d.has[u]
    BY SettingNames DEF New
  <2>2. CASE c[s] = 0
    BY <2>1, <2>2 DEF Writes
  <2>3. CASE c[s] # 0
    <3>1. /\ d2.has[u] = IF u = s THEN c[s] ELSE d.has[u]
          /\ g2.runs[u] = IF u = s /\ g.runs[u] = 0 THEN c[u] ELSE g.runs[u]
      BY <2>1, <2>3 DEF Writes
    <3> QED
      BY <1>1, <2>1, <3>1
  <2> QED
    BY <2>2, <2>3
<1> QED
  BY <1>2, <1>3 DEF New, Writes

\* A step of create or rebuild --fresh.
LEMMA EffectOnNew ==
  ASSUME NEW x, NEW n \in Nat \ {0}, NEW b \in {0, 4}, NEW m \in Nat, m > b + 10, NewPlace(x, b, m, n),
         NEW d, NEW g, NEW c, NEW d2, NEW g2,
         NewAt(n, b, m, d, g, c), Effect(x, d, g, c, d2, g2), x \in 1 .. 13 \ {12} => g # None
  PROVE  NewAt(n - 1, b, m, d2, g2, c)
<1>0. Place(x, b, n) /\ x \in 1 .. 22
  BY DEF NewPlace, Place
<1>1. CASE x \in 16 .. 21 /\ NoEffect(d, g, d2, g2)
  <2>1. n = m + 23 - x
    BY <1>1 DEF NewPlace
  <2>2. n - 1 > m /\ n - 1 # m + 9 /\ n > m /\ n # m + 9 /\ ~(n - 1 = 0 \/ n - 1 <= 9)
    BY <1>1, <2>1
  <2> QED
    BY <1>1, <2>2 DEF NewAt, NoEffect
<1>2. CASE x = 15 /\ d2 = None /\ g2 = g
  <2>1. n = m + 8
    BY <1>2 DEF NewPlace
  <2> QED
    BY <1>2, <2>1 DEF NewAt
<1>3. CASE x = 22 /\ d2 \in Disk /\ (\A s \in Setting : d2.has[s] = 0) /\ g2 = g
  <2>1. n = m + 1 /\ g = None
    BY <1>3 DEF NewPlace, NewAt
  <2>2. \A s \in Setting : ~Past(m, b, s)
    BY SettingNumbers DEF Past
  <2>3. New(m, b, d2, g2, c)
    BY <1>3, <2>1, <2>2 DEF New
  <2> QED
    BY <1>3, <2>1, <2>3 DEF NewAt
<1>4. CASE x = 12 /\ Boots(d, g, d2, g2)
  <2>1. n <= m /\ ~(n - 1 <= 9 /\ b = 0) /\ n - 1 # 0
    BY <1>0, <1>4 DEF NewPlace, Place
  <2>2. New(n - 1, b, d2, g2, c)
    <3>1. New(n, b, d, g, c) /\ d2 \in Disk /\ d2.has = d.has /\ Follows(g2, d)
      BY <1>4, <2>1, SettingNames DEF NewAt, New, Boots, Follows
    <3>2. n - b \notin 1 .. 9 /\ b \in Nat
      BY <1>0, <1>4 DEF Place
    <3> QED
      BY <3>1, <3>2, NewStays
  <2> QED
    BY <2>1, <2>2 DEF NewAt
<1>5. CASE x = 14 /\ d2 = d /\ g2 = None
  <2>1. n = m + 9 \/ n = 4
    BY <1>5 DEF NewPlace
  <2>2. n - 1 <= m => n <= m
    BY <2>1
  <2>3. ASSUME n <= m PROVE New(n - 1, b, d2, g2, c)
    <3>1. New(n, b, d, g, c) /\ d2 \in Disk /\ d2.has = d.has /\ Follows(g2, d)
      BY <1>5, <2>3 DEF NewAt, New, Follows
    <3>2. n - b \notin 1 .. 9 /\ b \in Nat
      BY <1>0, <1>5 DEF Place
    <3> QED
      BY <3>1, <3>2, NewStays
  <2> QED
    BY <1>5, <2>2, <2>3 DEF NewAt
<1>6. CASE x \in {11, 13} /\ InGuestOnly(d, g, d2, g2) /\ g2.mounted = g.mounted
  <2>1. n <= m /\ ~(n - 1 <= 9 /\ b = 0) /\ n - 1 # 0
    BY <1>0, <1>6 DEF NewPlace, Place
  <2>2. New(n - 1, b, d2, g2, c)
    <3>1. New(n, b, d, g, c) /\ d2 \in Disk /\ d2.has = d.has /\ Follows(g2, d)
      BY <1>6, <2>1, SettingNames DEF NewAt, New, InGuestOnly, Follows
    <3>2. n - b \notin 1 .. 9 /\ b \in Nat
      BY <1>0, <1>6 DEF Place
    <3> QED
      BY <3>1, <3>2, NewStays
  <2> QED
    BY <2>1, <2>2 DEF NewAt
<1>7. CASE x = 10 /\ InGuestOnly(d, g, d2, g2) /\ g2.mounted
  <2>1. n <= m
    BY <1>7 DEF NewPlace
  <2>2. New(n - 1, b, d2, g2, c)
    <3>1. New(n, b, d, g, c) /\ d2 \in Disk /\ d2.has = d.has /\ Follows(g2, d)
      BY <1>7, <2>1, SettingNames DEF NewAt, New, InGuestOnly, Follows
    <3>2. n - b \notin 1 .. 9 /\ b \in Nat
      BY <1>0, <1>7 DEF Place
    <3> QED
      BY <3>1, <3>2, NewStays
  <2> QED
    BY <1>7, <2>1, <2>2 DEF NewAt
<1>8. ASSUME NEW s \in Setting, x = number[s], Writes(s, d, g, c, d2, g2)
      PROVE  NewAt(n - 1, b, m, d2, g2, c)
  <2>1. n = b + 10 - x /\ x \in 1 .. 9
    BY <1>0, <1>8, SettingNumbers DEF Place
  <2>2. n <= m /\ g # None
    BY <2>1
  <2>3. New(n - 1, b, d2, g2, c)
    BY <1>0, <1>8, <2>2, NewIsWritten DEF NewAt
  <2>4. n - 1 = 0 => b = 0
    BY <2>1
  <2>5. g2.mounted = g.mounted
    BY <1>8 DEF Writes
  <2> QED
    BY <2>1, <2>2, <2>3, <2>4, <2>5 DEF NewAt
<1> QED
  BY <1>1, <1>2, <1>3, <1>4, <1>5, <1>6, <1>7, <1>8 DEF Effect

\* A step of a rebuild that keeps the disk.
LEMMA EffectOnKept ==
  ASSUME NEW x, NEW n \in Nat \ {0}, Place(x, 0, n), x <= 14,
         NEW d, NEW g, NEW c, NEW d2, NEW g2,
         KeptAt(n, d, g, c), Effect(x, d, g, c, d2, g2), x \in 1 .. 13 \ {12} => g # None
  PROVE  KeptAt(n - 1, d2, g2, c)
<1>0. x \in 1 .. 22
  BY DEF Place
<1>1. CASE x = 12 /\ Boots(d, g, d2, g2)
  <2>1. ~(n - 1 <= 9)
    BY <1>1 DEF Place
  <2>2. \A s \in Setting : ~Past(n - 1, 0, s)
    BY <2>1, SettingNumbers DEF Past
  <2> QED
    BY <2>1, <2>2, SettingNames DEF KeptAt
<1>2. CASE x = 14 /\ d2 = d /\ g2 = None
  <2>1. n - 0 \notin 1 .. 9 /\ n > 10
    BY <1>2 DEF Place
  <2> QED
    BY <1>2, <2>1, PastStays DEF KeptAt
<1>3. CASE x \in {11, 13} /\ InGuestOnly(d, g, d2, g2) /\ g2.mounted = g.mounted
  <2>1. ~(n - 1 <= 9)
    BY <1>3 DEF Place
  <2>2. \A s \in Setting : ~Past(n - 1, 0, s)
    BY <2>1, SettingNumbers DEF Past
  <2> QED
    BY <2>1, <2>2, SettingNames DEF KeptAt
<1>4. CASE x = 10 /\ InGuestOnly(d, g, d2, g2) /\ g2.mounted
  <2>1. \A s \in Setting : (Past(n - 1, 0, s) <=> Past(n, 0, s)) /\ Value(n - 1, 0, c, s) = Value(n, 0, c, s)
    <3>1. n - 0 \notin 1 .. 9
      BY <1>4 DEF Place
    <3> QED
      BY <3>1, PastStays
  <2>2. g # None /\ d2.has = d.has /\ g2.runs = g.runs /\ g2.mounted /\ d2 \in Disk
    BY <1>4 DEF InGuestOnly
  <2> QED
    BY <2>1, <2>2, SettingNames DEF KeptAt
<1>5. ASSUME NEW s \in Setting, x = number[s], Writes(s, d, g, c, d2, g2)
      PROVE  KeptAt(n - 1, d2, g2, c)
  <2>1. n = 10 - x /\ x \in 1 .. 9 /\ g # None /\ g.mounted /\ g2.mounted = g.mounted /\ d2 \in Disk
    BY <1>5, SettingNumbers DEF Place, KeptAt, Writes
  <2>2. ASSUME NEW r \in Setting, Past(n - 1, 0, r), c[r] # 0
        PROVE  d2.has[r] = Value(n - 1, 0, c, r)
    <3>1. CASE r = s
      BY <1>5, <2>2, <3>1, PastMoves DEF Writes
    <3>2. CASE r # s
      <4>0. r \in Setting \ {s} /\ Place(number[s], 0, n)
        BY <1>5, <3>2
      <4>1. Past(n, 0, r) /\ d.has[r] = Value(n, 0, c, r)
        BY <2>2, <4>0, PastMoves DEF KeptAt
      <4>2. Value(n - 1, 0, c, r) = IF r = "provider" /\ s = "credentials" /\ c[s] # 0 /\ HostConfig
                                    THEN 0 ELSE Value(n, 0, c, r)
        BY <4>0, ValueMoves
      <4>3. d2.has[r] = IF r = "provider" /\ s = "credentials" /\ c[s] # 0 /\ HostConfig THEN 0 ELSE d.has[r]
        BY <1>5, <3>2 DEF Writes
      <4> QED
        BY <4>1, <4>2, <4>3
    <3> QED
      BY <3>1, <3>2
  <2>3. ASSUME NEW u \in Unit, Past(n - 1, 0, u), c[u] # 0
        PROVE  g2.runs[u] # 0
    <3>1. u \in Setting
      BY SettingNames
    <3>2. CASE u = s
      <4>1. c[s] # 0
        BY <2>3, <3>2
      <4>2. g2.runs[u] = IF u = s /\ g.runs[u] = 0 THEN c[u] ELSE g.runs[u]
        BY <1>5, <4>1, Zenon DEF Writes
      <4> QED
        BY <2>3, <3>2, <4>2
    <3>3. CASE u # s
      <4>1. Past(n - 1, 0, u) <=> Past(n, 0, u)
        <5>1. number[s] \in 1 .. 9 /\ number[u] \in 1 .. 9 /\ number[u] # number[s]
          BY <3>1, <3>3, SettingNumbers
        <5> QED
          BY <1>5, <2>1, <5>1 DEF Past
      <4>3. Past(n, 0, u) /\ g.runs[u] # 0
        BY <2>1, <2>3, <4>1 DEF KeptAt
      <4>2. g2.runs[u] = g.runs[u]
        <5>1. \/ g2.runs = g.runs
              \/ g2.runs[u] = IF u = s /\ g.runs[u] = 0 THEN c[u] ELSE g.runs[u]
          BY <1>5, Zenon DEF Writes
        <5> QED
          BY <3>3, <5>1
      <4> QED
        BY <4>2, <4>3
    <3> QED
      BY <3>2, <3>3
  <2> QED
    BY <2>1, <2>2, <2>3 DEF KeptAt
<1> QED
  BY <1>0, <1>1, <1>2, <1>3, <1>4, <1>5 DEF Effect

-----------------------------------------------------------------------------
(* A machine whose last command has set it up.                              *)

\* AsWritten, of a vm.yaml.
Written(c) == [s \in Setting |-> IF s = "provider" /\ c.credentials # 0 /\ HostConfig THEN 0 ELSE c[s]]

\* What the machine was set up as, by the command that is last.
SetUp(last, d, g, c) ==
  /\ last \in Making => d \in Disk /\ d.has = Written(c) /\ Follows(g, d)
  /\ last = "rebuild" =>
       /\ d \in Disk
       /\ \A s \in Setting : Written(c)[s] # 0 => d.has[s] = Written(c)[s]
       /\ g # None => \A u \in Unit : c[u] # 0 => g.runs[u] # 0

LEMMA PastAll ==
  ASSUME NEW b \in Nat, NEW c
  PROVE  \A s \in Setting : Past(0, b, s) /\ Value(0, b, c, s) = Written(c)[s]
<1>1. \A s \in Setting : Past(0, b, s)
  BY SettingNumbers DEF Past
<1> QED
  BY <1>1, SettingNames DEF Value, Written

\* A unit's setting is what vm.yaml has.
LEMMA WrittenUnits ==
  ASSUME NEW c, NEW u \in Unit
  PROVE  u \in Setting /\ Written(c)[u] = c[u]
BY SettingNames DEF Written

\* At the end of its last step a command has set the machine up.
LEMMA NewEnds ==
  ASSUME NEW b \in Nat, NEW m \in Nat, NEW d, NEW g, NEW c, NewAt(0, b, m, d, g, c), NEW last \in Making
  PROVE  SetUp(last, d, g, c) /\ (g # None => g.mounted)
<1>1. New(0, b, d, g, c)
  BY DEF NewAt
<1>2. d \in Disk /\ Follows(g, d) /\ d.has \in [Setting -> Nat]
  BY <1>1 DEF New, Follows, Disk
<1>3. d.has = Written(c)
  BY <1>1, <1>2, PastAll DEF New, Written
<1>4. last # "rebuild"
  BY DEF Making
<1> QED
  BY <1>2, <1>3, <1>4 DEF SetUp, NewAt

LEMMA KeptEnds ==
  ASSUME NEW d, NEW g, NEW c, KeptAt(0, d, g, c)
  PROVE  SetUp("rebuild", d, g, c) /\ (g # None => g.mounted)
<1>1. "rebuild" \notin Making
  BY DEF Making
<1>2. \A s \in Setting : Written(c)[s] # 0 => c[s] # 0
  BY DEF Written
<1>3. \A s \in Setting : Written(c)[s] # 0 => d.has[s] = Written(c)[s]
  BY <1>2, PastAll DEF KeptAt
<1>4. g # None => \A u \in Unit : c[u] # 0 => g.runs[u] # 0
  BY PastAll, SettingNames DEF KeptAt
<1> QED
  BY <1>1, <1>3, <1>4 DEF SetUp, KeptAt

\* start and stop leave it so.
LEMMA EffectOnSetUp ==
  ASSUME NEW last, NEW x \in {10, 11, 12, 14}, NEW d, NEW g, NEW c, NEW d2, NEW g2,
         SetUp(last, d, g, c), Effect(x, d, g, c, d2, g2), x \in {10, 11} => g # None
  PROVE  SetUp(last, d2, g2, c)
<1>1. \A s \in Setting : x # number[s]
  BY SettingNumbers
<1>2. CASE x = 12 /\ Boots(d, g, d2, g2)
  <2>1. d2 \in Disk /\ d2.has = d.has /\ \A u \in Unit : g2.runs[u] = d.has[u]
    BY <1>2 DEF Boots
  <2>2. last \in Making => d2.has = Written(c) /\ Follows(g2, d2)
    BY <2>1 DEF SetUp, Follows
  <2>3. last = "rebuild" => \A s \in Setting : Written(c)[s] # 0 => d2.has[s] = Written(c)[s]
    BY <2>1 DEF SetUp
  <2>4. last = "rebuild" => \A u \in Unit : c[u] # 0 => g2.runs[u] # 0
    BY <2>1, WrittenUnits DEF SetUp
  <2> QED
    BY <2>1, <2>2, <2>3, <2>4 DEF SetUp
<1>3. CASE x = 14 /\ d2 = d /\ g2 = None
  BY <1>3 DEF SetUp, Follows
<1>4. CASE x \in {10, 11} /\ InGuestOnly(d, g, d2, g2)
  BY <1>4 DEF SetUp, Follows, InGuestOnly
<1> QED
  BY <1>1, <1>2, <1>3, <1>4 DEF Effect

-----------------------------------------------------------------------------
(* What holds of each machine by itself: t is its task.                     *)

LocalTypes(t, d, g) ==
  /\ t \in Task /\ d \in Disk \union {None} /\ g \in Guest \union {None}
  /\ g # None => d \in Disk

AtWork(t, d, g, c) ==
  t.todo # <<>> =>
    /\ t.op # "none"
    /\ Remains(t.todo, plan(t.op, Provisioned(c)))
    /\ t.op \in SettingUp => t.last = "none"
    /\ t.op \in Making => NewAt(Len(t.todo), Behind(t.op, c), Since(t.op, c), d, g, c)
    /\ t.op = "rebuild" => KeptAt(Len(t.todo), d, g, c)

Local(t, d, g, c) ==
  /\ LocalTypes(t, d, g)
  /\ t.op = "none" => t.last \notin SettingUp /\ g = None
  /\ AtWork(t, d, g, c)
  /\ SetUp(t.last, d, g, c)
  /\ t.last \in SettingUp /\ g # None /\ (t.todo = <<>> \/ t.op = "stop") => g.mounted

\* The task of a command that fails.
Failed(t) == [t EXCEPT !.todo = <<>>, !.last = "failed"]

LEMMA OpNames ==
  /\ Making \subseteq SettingUp /\ SettingUp \subseteq Ops /\ Ops \subseteq Lasts
  /\ {"failed", "edited"} \subseteq Lasts \ SettingUp
  /\ "none" \in Ops \ SettingUp /\ "start" \in Ops \ SettingUp /\ "stop" \in Ops \ SettingUp
  /\ "rebuild" \in SettingUp \ Making
  /\ Ops = SettingUp \union {"none", "start", "stop"}
  /\ SettingUp = Making \union {"rebuild"}
BY DEF Making, SettingUp, Ops, Lasts

LEMMA TailOfSteps ==
  ASSUME NEW s \in Seq(Steps), s # <<>>
  PROVE  Tail(s) \in Seq(Steps) /\ (Tail(s) = <<>> <=> Len(s) = 1)
<1>1. Tail(s) \in Seq(Steps) /\ Len(Tail(s)) = Len(s) - 1
  OBVIOUS
<1>2. Tail(s) = <<>> <=> Len(Tail(s)) = 0
  BY <1>1, EmptySeq
<1> QED
  BY <1>1, <1>2

LEMMA AfterIs ==
  ASSUME NEW t \in Task, t.todo # <<>>
  PROVE  /\ After(t) \in Task /\ After(t).op = t.op /\ After(t).todo = Tail(t.todo)
         /\ After(t).last = IF Len(t.todo) = 1 /\ t.op \notin {"start", "stop"} THEN t.op ELSE t.last
         /\ After(t).todo = <<>> <=> Len(t.todo) = 1
<1> DEFINE S == Seq(Steps)
           rest == Tail(t.todo)
           last == IF Len(t.todo) = 1 /\ t.op \notin {"start", "stop"} THEN t.op ELSE t.last
<1>1. t.todo \in Seq(Steps) /\ t.op \in Ops /\ t.last \in Lasts
  BY DEF Task
<1>2. rest \in S /\ (rest = <<>> <=> Len(t.todo) = 1)
  BY <1>1, TailOfSteps
<1>3. last \in Lasts
  BY <1>1, OpNames
<1>4. Task = [op : Ops, todo : S, last : Lasts, left : Int]
  BY DEF Task
<1>5. After(t) = [t EXCEPT !.todo = rest, !.last = last]
  BY DEF After
<1> HIDE DEF S, rest, last
<1>6. /\ After(t) \in Task /\ After(t).op = t.op /\ After(t).todo = rest /\ After(t).last = last
  BY <1>2, <1>3, <1>4, <1>5
<1> QED
  BY <1>2, <1>6 DEF rest, last

LEMMA FailedIs ==
  ASSUME NEW t \in Task
  PROVE  Failed(t) \in Task /\ Failed(t).op = t.op /\ Failed(t).todo = <<>> /\ Failed(t).last = "failed"
<1> DEFINE S == Seq(Steps)
<1>1. <<>> \in S /\ "failed" \in Lasts
  BY OpNames
<1>2. Task = [op : Ops, todo : S, last : Lasts, left : Int]
  BY DEF Task
<1> HIDE DEF S
<1> QED
  BY <1>1, <1>2 DEF Failed

\* A command that fails leaves nothing to be said of the machine but types.
LEMMA LocalFails ==
  ASSUME NEW t, NEW d, NEW g, NEW c, Local(t, d, g, c), t.todo # <<>>,
         NEW d2 \in Disk \union {None}, g # None => d2 \in Disk
  PROVE  Local(Failed(t), d2, g, c)
<1>1. t \in Task /\ t.op # "none" /\ g \in Guest \union {None}
  BY DEF Local, LocalTypes, AtWork
<1>2. "failed" \notin SettingUp /\ "failed" \notin Making /\ "failed" # "rebuild"
  BY OpNames
<1> QED
  BY <1>1, <1>2, FailedIs DEF Local, LocalTypes, AtWork, SetUp

LEMMA LocalDown ==
  ASSUME NEW t, NEW d, NEW g, NEW c, Local(t, d, g, c)
  PROVE  Local(t, d, None, c)
<1>1. ASSUME NEW n, NEW b, NEW m, NewAt(n, b, m, d, g, c) PROVE NewAt(n, b, m, d, None, c)
  BY <1>1 DEF NewAt, New
<1>2. ASSUME NEW n, KeptAt(n, d, g, c) PROVE KeptAt(n, d, None, c)
  BY <1>2 DEF KeptAt
<1>3. AtWork(t, d, None, c)
  BY <1>1, <1>2 DEF Local, AtWork
<1>4. SetUp(t.last, d, None, c)
  BY DEF Local, SetUp, Follows
<1> QED
  BY <1>3, <1>4 DEF Local, LocalTypes

LEMMA LocalEdited ==
  ASSUME NEW t, NEW d, NEW g, NEW c, NEW e, Local(t, d, g, c), t.todo = <<>>
  PROVE  Local([t EXCEPT !.last = "edited"], d, g, e)
<1> DEFINE S == Seq(Steps)
           new == [t EXCEPT !.last = "edited"]
<1>1. Task = [op : Ops, todo : S, last : Lasts, left : Int] /\ t \in Task
  BY DEF Task, Local, LocalTypes
<1>2. "edited" \in Lasts /\ "edited" \notin SettingUp /\ "edited" \notin Making /\ "edited" # "rebuild"
  BY OpNames
<1> HIDE DEF S
<1>3. new \in Task /\ new.op = t.op /\ new.todo = t.todo /\ new.last = "edited"
  BY <1>1, <1>2
<1> HIDE DEF new
<1>4. Local(new, d, g, e)
  BY <1>2, <1>3 DEF Local, LocalTypes, AtWork, SetUp
<1> QED
  BY <1>4 DEF new

\* What the next step of a command is.
LEMMA NextStep ==
  ASSUME NEW t, NEW d, NEW g, NEW c, Local(t, d, g, c), t.todo # <<>>
  PROVE  LET all == plan(t.op, Provisioned(c))
             n == Len(t.todo)
         IN  /\ t \in Task /\ all \in Seq(Steps) /\ n \in 1 .. Len(all)
             /\ Head(t.todo) \in Steps /\ number[Head(t.todo)] = step(all, n)
             /\ Remains(Tail(t.todo), all) /\ Len(Tail(t.todo)) = n - 1
<1> DEFINE all == plan(t.op, Provisioned(c))
<1>1. t \in Task /\ t.op \in Ops /\ t.op # "none" /\ Remains(t.todo, all)
  BY DEF Local, LocalTypes, AtWork, Task
<1>2. CASE t.op \in Making
  <2>1. all \in Seq(Steps)
    BY <1>2, NewPlan DEF NewPlaces
  <2> QED
    BY <1>1, <2>1, RemainsHead
<1>3. CASE t.op \in {"rebuild", "start", "stop"}
  <2>1. all \in Seq(Steps)
    BY <1>3, OldPlan, ShortPlans DEF OldPlaces
  <2> QED
    BY <1>1, <2>1, RemainsHead
<1> QED
  BY <1>1, <1>2, <1>3, OpNames

\* The places of a command that makes a new disk.
LEMMA MakingPlace ==
  ASSUME NEW op \in Making, NEW c, NEW n \in 1 .. Len(plan(op, Provisioned(c)))
  PROVE  /\ NewPlace(step(plan(op, Provisioned(c)), n), Behind(op, c), Since(op, c), n)
         /\ Behind(op, c) \in {0, 4} /\ Since(op, c) \in Nat /\ Since(op, c) > Behind(op, c) + 10
<1>1. NewPlaces(plan(op, Provisioned(c)), Behind(op, c), Since(op, c))
  BY NewPlan
<1>2. Behind(op, c) \in {0, 4} /\ Since(op, c) \in Nat /\ Since(op, c) > Behind(op, c) + 10
  BY DEF Behind, Since
<1> QED
  BY <1>1, <1>2 DEF NewPlaces

\* What a step needs of the guest.
Needs(x, g) == x \in 1 .. 13 \ {12} => g # None

\* The types of what a step leaves.
LEMMA EffectTypes ==
  ASSUME NEW x, NEW d, NEW g, NEW c, NEW d2, NEW g2, NEW t, LocalTypes(t, d, g),
         Effect(x, d, g, c, d2, g2), x \in {15, 22} => g = None, NEW t2 \in Task
  PROVE  LocalTypes(t2, d2, g2)
<1>1. CASE x \in 16 .. 21 /\ NoEffect(d, g, d2, g2)
  BY <1>1 DEF LocalTypes, NoEffect
<1>2. CASE x = 15 /\ d2 = None /\ g2 = g
  BY <1>2 DEF LocalTypes
<1>3. CASE x = 22 /\ d2 \in Disk /\ (\A s \in Setting : d2.has[s] = 0) /\ g2 = g
  BY <1>3 DEF LocalTypes
<1>4. CASE x = 12 /\ Boots(d, g, d2, g2)
  BY <1>4 DEF LocalTypes, Boots
<1>5. CASE x = 14 /\ d2 = d /\ g2 = None
  BY <1>5 DEF LocalTypes
<1>6. CASE InGuestOnly(d, g, d2, g2)
  BY <1>6 DEF LocalTypes, InGuestOnly
<1>7. ASSUME NEW s \in Setting, Writes(s, d, g, c, d2, g2) PROVE LocalTypes(t2, d2, g2)
  BY <1>7 DEF LocalTypes, Writes
<1> QED
  BY <1>1, <1>2, <1>3, <1>4, <1>5, <1>6, <1>7 DEF Effect

\* A step of create or rebuild --fresh, and the last one.
LEMMA MakingStep ==
  ASSUME NEW t, NEW d, NEW g, NEW c, Local(t, d, g, c), t.todo # <<>>, t.op \in Making,
         NEW d2, NEW g2, Effect(number[Head(t.todo)], d, g, c, d2, g2), Needs(number[Head(t.todo)], g)
  PROVE  Local(After(t), d2, g2, c)
<1> DEFINE all == plan(t.op, Provisioned(c))
           n == Len(t.todo)
           x == number[Head(t.todo)]
           b == Behind(t.op, c)
           m == Since(t.op, c)
           next == After(t)
<1>1. /\ t \in Task /\ n \in 1 .. Len(all) /\ x = step(all, n)
      /\ Remains(Tail(t.todo), all) /\ Len(Tail(t.todo)) = n - 1
  BY NextStep
<1>2. NewPlace(x, b, m, n) /\ b \in {0, 4} /\ m \in Nat /\ m > b + 10
  BY <1>1, MakingPlace
<1>3. NewAt(n, b, m, d, g, c) /\ t.last = "none" /\ t.op # "none" /\ LocalTypes(t, d, g)
  BY OpNames DEF Local, AtWork
<1>4. /\ next \in Task /\ next.op = t.op /\ next.todo = Tail(t.todo)
      /\ next.last = IF n = 1 THEN t.op ELSE "none"
      /\ next.todo = <<>> <=> n = 1
  <2>1. t.op \notin {"start", "stop"}
    BY OpNames
  <2> QED
    BY <1>1, <1>3, <2>1, AfterIs
<1>5. t.op # "rebuild" /\ "none" \notin SettingUp /\ "none" \notin Making /\ t.op # "stop"
  BY OpNames
<1> HIDE DEF all, n, x, b, m, next
<1>6. NewAt(n - 1, b, m, d2, g2, c)
  <2>1. n \in Nat \ {0}
    BY <1>1
  <2>2. Effect(x, d, g, c, d2, g2) /\ (x \in 1 .. 13 \ {12} => g # None)
    BY DEF x, Needs
  <2> QED
    BY <1>2, <1>3, <2>1, <2>2, EffectOnNew
<1>7. x \in {15, 22} => g = None
  <2>1. n \in Nat
    BY <1>1
  <2>2. x \in {15, 22} => n = m + 23 - x
    BY <1>2 DEF NewPlace
  <2>3. x \in {15, 22} => n > m /\ n # m + 9
    BY <1>2, <2>1, <2>2
  <2> QED
    BY <1>3, <2>3 DEF NewAt
<1>8. LocalTypes(next, d2, g2)
  BY <1>3, <1>4, <1>7, EffectTypes DEF x
<1>9. CASE n = 1
  <2>1. NewAt(0, b, m, d2, g2, c) /\ b \in Nat
    BY <1>2, <1>6, <1>9
  <2>2. SetUp(t.op, d2, g2, c) /\ (g2 # None => g2.mounted)
    BY <1>2, <2>1, NewEnds
  <2>3. Local(next, d2, g2, c)
    BY <1>3, <1>4, <1>8, <1>9, <2>2 DEF Local, AtWork
  <2> QED
    BY <2>3 DEF next
<1>10. CASE n # 1
  <2>1. SetUp("none", d2, g2, c)
    BY <1>5 DEF SetUp
  <2>2. AtWork(next, d2, g2, c)
    <3>1. Remains(next.todo, plan(next.op, Provisioned(c))) /\ Len(next.todo) = n - 1
      BY <1>1, <1>4 DEF all
    <3>2. NewAt(Len(next.todo), Behind(next.op, c), Since(next.op, c), d2, g2, c)
      BY <1>4, <1>6, <3>1 DEF b, m
    <3> QED
      BY <1>3, <1>4, <1>5, <1>10, <3>1, <3>2 DEF AtWork
  <2>3. Local(next, d2, g2, c)
    BY <1>3, <1>4, <1>5, <1>8, <1>10, <2>1, <2>2 DEF Local
  <2> QED
    BY <2>3 DEF next
<1> QED
  BY <1>9, <1>10

\* A step of a rebuild that keeps the disk, and the last one.
LEMMA RebuildStep ==
  ASSUME NEW t, NEW d, NEW g, NEW c, Local(t, d, g, c), t.todo # <<>>, t.op = "rebuild",
         NEW d2, NEW g2, Effect(number[Head(t.todo)], d, g, c, d2, g2), Needs(number[Head(t.todo)], g)
  PROVE  Local(After(t), d2, g2, c)
<1> DEFINE all == plan("rebuild", Provisioned(c))
           n == Len(t.todo)
           x == number[Head(t.todo)]
           next == After(t)
<1>1. /\ t \in Task /\ n \in 1 .. Len(all) /\ x = step(all, n)
      /\ Remains(Tail(t.todo), all) /\ Len(Tail(t.todo)) = n - 1
  BY NextStep
<1>2. Place(x, 0, n) /\ x <= 14 /\ n \in Nat \ {0}
  BY <1>1, OldPlan DEF OldPlaces
<1>3. KeptAt(n, d, g, c) /\ t.last = "none" /\ LocalTypes(t, d, g)
  BY OpNames DEF Local, AtWork
<1>4. /\ next \in Task /\ next.op = "rebuild" /\ next.todo = Tail(t.todo)
      /\ next.last = IF n = 1 THEN "rebuild" ELSE "none"
      /\ next.todo = <<>> <=> n = 1
  BY <1>1, <1>3, AfterIs
<1>5. /\ "rebuild" \notin Making /\ "none" \notin SettingUp /\ "none" \notin Making
      /\ "rebuild" # "none" /\ "rebuild" # "stop" /\ "rebuild" \in SettingUp
  BY OpNames
<1> HIDE DEF all, n, x, next
<1>6. KeptAt(n - 1, d2, g2, c)
  <2>1. Effect(x, d, g, c, d2, g2) /\ (x \in 1 .. 13 \ {12} => g # None)
    BY DEF x, Needs
  <2> QED
    BY <1>2, <1>3, <2>1, EffectOnKept
<1>7. x \notin {15, 22}
  BY <1>2
<1>8. LocalTypes(next, d2, g2)
  BY <1>3, <1>4, <1>7, EffectTypes DEF x
<1>9. CASE n = 1
  <2>1. KeptAt(0, d2, g2, c)
    BY <1>6, <1>9
  <2>2. SetUp("rebuild", d2, g2, c) /\ (g2 # None => g2.mounted)
    BY <2>1, KeptEnds
  <2>3. Local(next, d2, g2, c)
    BY <1>4, <1>5, <1>8, <1>9, <2>2 DEF Local, AtWork
  <2> QED
    BY <2>3 DEF next
<1>10. CASE n # 1
  <2>1. SetUp("none", d2, g2, c)
    BY <1>5 DEF SetUp
  <2>2. AtWork(next, d2, g2, c)
    <3>1. Remains(next.todo, plan(next.op, Provisioned(c))) /\ Len(next.todo) = n - 1
      BY <1>1, <1>4 DEF all
    <3> QED
      BY <1>4, <1>5, <1>6, <1>10, <3>1 DEF AtWork
  <2>3. Local(next, d2, g2, c)
    BY <1>4, <1>5, <1>8, <1>10, <2>1, <2>2 DEF Local
  <2> QED
    BY <2>3 DEF next
<1> QED
  BY <1>9, <1>10

\* A step of start, and the one of stop.
LEMMA ShortStep ==
  ASSUME NEW t, NEW d, NEW g, NEW c, Local(t, d, g, c), t.todo # <<>>, t.op \in {"start", "stop"},
         NEW d2, NEW g2, Effect(number[Head(t.todo)], d, g, c, d2, g2), Needs(number[Head(t.todo)], g)
  PROVE  Local(After(t), d2, g2, c)
<1> DEFINE all == plan(t.op, Provisioned(c))
           n == Len(t.todo)
           x == number[Head(t.todo)]
           next == After(t)
<1>1. /\ t \in Task /\ n \in 1 .. Len(all) /\ x = step(all, n)
      /\ Remains(Tail(t.todo), all) /\ Len(Tail(t.todo)) = n - 1
  BY NextStep
<1>2. /\ x \in {10, 11, 12, 14}
      /\ t.op = "stop" => x = 14
      /\ t.op = "start" /\ n = 1 => x = 10
  <2>1. CASE t.op = "start"
    <3>1. Len(all) = 3 /\ step(all, 1) = 10 /\ step(all, 2) = 11 /\ step(all, 3) = 12
      BY <2>1, ShortPlans
    <3> HIDE DEF all, n, x
    <3>2. n \in 1 .. 3
      BY <1>1, <3>1
    <3> QED
      BY <1>1, <2>1, <3>1, <3>2
  <2>2. CASE t.op = "stop"
    <3>1. Len(all) = 1 /\ step(all, 1) = 14
      BY <2>2, ShortPlans
    <3> HIDE DEF all, n, x
    <3>2. n = 1
      BY <1>1, <3>1
    <3> QED
      BY <1>1, <2>2, <3>1, <3>2
  <2> QED
    BY <2>1, <2>2
<1>3. LocalTypes(t, d, g) /\ SetUp(t.last, d, g, c)
  BY DEF Local
<1>4. /\ next \in Task /\ next.op = t.op /\ next.todo = Tail(t.todo) /\ next.last = t.last
      /\ next.todo = <<>> <=> n = 1
  BY <1>1, AfterIs
<1>5. t.op \notin SettingUp /\ t.op \notin Making /\ t.op # "rebuild" /\ t.op # "none"
  BY OpNames
<1> HIDE DEF all, n, x, next
<1>6. Effect(x, d, g, c, d2, g2) /\ (x \in {10, 11} => g # None)
  BY DEF x, Needs
<1>7. SetUp(next.last, d2, g2, c)
  BY <1>2, <1>3, <1>4, <1>6, EffectOnSetUp
<1>8. x \notin {15, 22}
  BY <1>2
<1>9. LocalTypes(next, d2, g2)
  BY <1>3, <1>4, <1>6, <1>8, EffectTypes
<1>10. AtWork(next, d2, g2, c)
  BY <1>1, <1>4, <1>5 DEF AtWork, all
<1>11. next.todo = <<>> \/ next.op = "stop" => g2 = None \/ g2.mounted
  <2>1. x = 14 => g2 = None
    <3>1. \A s \in Setting : number[s] # 14
      BY SettingNumbers
    <3> QED
      BY <1>6, <3>1 DEF Effect
  <2>2. x = 10 => g2.mounted
    <3>1. \A s \in Setting : number[s] # 10
      BY SettingNumbers
    <3> QED
      BY <1>6, <3>1 DEF Effect
  <2> QED
    BY <1>2, <1>4, <2>1, <2>2
<1>12. Local(next, d2, g2, c)
  BY <1>4, <1>5, <1>7, <1>9, <1>10, <1>11 DEF Local
<1> QED
  BY <1>12 DEF next

LEMMA LocalStep ==
  ASSUME NEW t, NEW d, NEW g, NEW c, Local(t, d, g, c), t.todo # <<>>,
         NEW d2, NEW g2, Effect(number[Head(t.todo)], d, g, c, d2, g2), Needs(number[Head(t.todo)], g)
  PROVE  Local(After(t), d2, g2, c)
<1>1. t.op \in Ops /\ t.op # "none"
  BY DEF Local, LocalTypes, Task, AtWork
<1> QED
  BY <1>1, MakingStep, RebuildStep, ShortStep, OpNames

-----------------------------------------------------------------------------
(* A command begins.                                                        *)

\* What remains before the first step is the plan.
LEMMA RemainsAll ==
  ASSUME NEW all \in Seq(Steps)
  PROVE  Remains(all, all)
BY DEF Remains

LEMMA Sums == 18 + 9 = 27 /\ 13 + 9 = 22
OBVIOUS

LEMMA FreshLength ==
  ASSUME NEW c
  PROVE  Len(plan("fresh", Provisioned(c))) = Since("fresh", c) + 9
<1>1. Len(rebuild(TRUE, TRUE)) = 27 /\ Len(rebuild(TRUE, FALSE)) = 22
  BY DEF rebuild, prepare_vm_storage, ensure_base_image, apply_guest_config, start, If
<1>2. plan("fresh", TRUE) = rebuild(TRUE, TRUE) /\ plan("fresh", FALSE) = rebuild(TRUE, FALSE)
  BY DEF plan
<1>3. CASE Provisioned(c)
  <2>1. Provisioned(c) = TRUE
    BY <1>3 DEF Provisioned
  <2>2. Since("fresh", c) = 18
    BY <1>3 DEF Since
  <2>3. Len(plan("fresh", Provisioned(c))) = 27
    BY <1>1, <1>2, <2>1
  <2> QED
    BY <2>2, <2>3, Sums
<1>4. CASE ~Provisioned(c)
  <2>1. Provisioned(c) = FALSE
    BY <1>4 DEF Provisioned
  <2>2. Since("fresh", c) = 13
    BY <1>4 DEF Since
  <2>3. Len(plan("fresh", Provisioned(c))) = 22
    BY <1>1, <1>2, <2>1
  <2> QED
    BY <2>2, <2>3, Sums
<1> QED
  BY <1>3, <1>4

\* The record that Run makes.
LEMMA LocalRun ==
  ASSUME NEW t, NEW d, NEW g, NEW c, Local(t, d, g, c), t.todo = <<>>,
         NEW op \in Ops \ {"none"}, op = "create" => t.op = "none",
         NEW t2, t2 \in Task, t2.op = op, t2.todo = plan(op, Provisioned(c)),
         t2.last = IF op \in {"start", "stop"} THEN t.last ELSE "none"
  PROVE  Local(t2, d, g, c)
<1> DEFINE all == plan(op, Provisioned(c))
           b == Behind(op, c)
           m == Since(op, c)
<1>1. LocalTypes(t2, d, g)
  BY DEF Local, LocalTypes
<1>2. SetUp(t2.last, d, g, c)
  BY OpNames DEF Local, SetUp
<1>3. t2.last \in SettingUp /\ g # None /\ (t2.todo = <<>> \/ t2.op = "stop") => g.mounted
  BY OpNames DEF Local
<1>4. CASE op \in Making
  <2>1. /\ all \in Seq(Steps) /\ Len(all) > m + 6 /\ m \in Nat /\ b \in {0, 4} /\ m > b + 10
    BY <1>4, NewPlan DEF NewPlaces, Behind, Since
  <2>2. op = "create" => g = None
    BY DEF Local
  <2>3. op = "fresh" => Len(all) = m + 9
    BY FreshLength
  <2>4. op = "create" \/ op = "fresh"
    BY <1>4 DEF Making
  <2> HIDE DEF all, b, m
  <2>5. NewAt(Len(all), b, m, d, g, c)
    <3>1. Len(all) \in Nat /\ ~(Len(all) <= m) /\ ~(Len(all) = 0 \/ Len(all) <= 9)
      BY <2>1
    <3> QED
      BY <2>2, <2>3, <2>4, <3>1 DEF NewAt
  <2>6. Remains(all, all) /\ all = t2.todo
    BY <2>1, RemainsAll DEF all
  <2>7. AtWork(t2, d, g, c)
    BY <1>4, <2>5, <2>6, OpNames DEF AtWork, all, b, m
  <2> QED
    BY <1>1, <1>2, <1>3, <2>7 DEF Local
<1>5. CASE op = "rebuild"
  <2>1. all \in Seq(Steps) /\ Len(all) > 10 /\ Len(all) \in Nat
    BY <1>5, OldPlan DEF OldPlaces
  <2> HIDE DEF all
  <2>2. \A s \in Setting : ~Past(Len(all), 0, s)
    BY <2>1, SettingNumbers DEF Past
  <2>3. KeptAt(Len(all), d, g, c)
    BY <2>1, <2>2, SettingNames DEF KeptAt
  <2>4. Remains(all, all) /\ all = t2.todo
    BY <2>1, RemainsAll DEF all
  <2>5. AtWork(t2, d, g, c)
    BY <1>5, <2>3, <2>4, OpNames DEF AtWork, all
  <2> QED
    BY <1>1, <1>2, <1>3, <2>5 DEF Local
<1>6. CASE op \in {"start", "stop"}
  <2>1. Remains(t2.todo, plan(t2.op, Provisioned(c)))
    BY <1>6, ShortPlans, RemainsAll
  <2>2. t2.op \notin SettingUp /\ t2.op \notin Making /\ t2.op # "rebuild" /\ t2.op # "none"
    BY <1>6, OpNames
  <2>3. AtWork(t2, d, g, c)
    BY <2>1, <2>2 DEF AtWork
  <2>4. t2.last = t.last
    BY <1>6
  <2> QED
    BY <1>1, <1>2, <1>3, <2>2, <2>3 DEF Local
<1> QED
  BY <1>4, <1>5, <1>6, OpNames

\* The base image is there: its six steps are passed over.
LEMMA LocalSkips ==
  ASSUME NEW t, NEW d, NEW g, NEW c, Local(t, d, g, c), t.todo # <<>>, Head(t.todo) = "base"
  PROVE  LET t2 == [t EXCEPT !.todo = SubSeq(@, 7, Len(@))]
         IN  Local(t2, d, g, c) /\ t.op \in Making /\ Len(t.todo) = Since(t.op, c) + 7
<1> DEFINE all == plan(t.op, Provisioned(c))
           n == Len(t.todo)
           b == Behind(t.op, c)
           m == Since(t.op, c)
           rest == SubSeq(t.todo, 7, Len(t.todo))
           t2 == [t EXCEPT !.todo = SubSeq(@, 7, Len(@))]
<1>1. /\ t \in Task /\ n \in 1 .. Len(all) /\ step(all, n) = 16 /\ all \in Seq(Steps) /\ Remains(t.todo, all)
  <2>1. /\ t \in Task /\ n \in 1 .. Len(all) /\ number[Head(t.todo)] = step(all, n) /\ all \in Seq(Steps)
    BY NextStep
  <2>2. number[Head(t.todo)] = 16
    BY NumberIs
  <2>3. Remains(t.todo, all)
    BY DEF Local, AtWork
  <2> QED
    BY <2>1, <2>2, <2>3
<1>2. t.op \in Making
  <2>1. t.op # "rebuild"
    BY <1>1, OldPlan DEF OldPlaces
  <2>2. t.op # "start"
    <3>1. SUFFICES ASSUME t.op = "start" PROVE FALSE
      OBVIOUS
    <3>2. Len(all) = 3 /\ step(all, 1) = 10 /\ step(all, 2) = 11 /\ step(all, 3) = 12
      BY <3>1, ShortPlans
    <3> HIDE DEF all, n
    <3>3. n \in 1 .. 3
      BY <1>1, <3>2
    <3> QED
      BY <1>1, <3>2, <3>3
  <2>4. t.op # "stop"
    <3>1. SUFFICES ASSUME t.op = "stop" PROVE FALSE
      OBVIOUS
    <3>2. Len(all) = 1 /\ step(all, 1) = 14
      BY <3>1, ShortPlans
    <3> HIDE DEF all, n
    <3>3. n = 1
      BY <1>1, <3>2
    <3> QED
      BY <1>1, <3>2, <3>3
  <2>3. t.op \in Ops /\ t.op # "none"
    BY DEF Local, LocalTypes, Task, AtWork
  <2> QED
    BY <2>1, <2>2, <2>3, <2>4, OpNames
<1>3. n = m + 7 /\ m \in Nat /\ b \in {0, 4} /\ m > b + 10 /\ n \in Nat
  <2>1. NewPlace(step(all, n), b, m, n) /\ b \in {0, 4} /\ m \in Nat /\ m > b + 10
    BY <1>1, <1>2, MakingPlace
  <2> HIDE DEF all, n, b, m
  <2> QED
    BY <1>1, <2>1 DEF NewPlace
<1>4. NewAt(n, b, m, d, g, c) /\ t.last = "none" /\ LocalTypes(t, d, g)
  BY <1>2, OpNames DEF Local, AtWork
<1>5. Remains(rest, all) /\ Len(rest) = n - 6 /\ rest \in Seq(Steps)
  <2>1. 6 \in 1 .. n
    BY <1>3
  <2>2. LET r == SubSeq(t.todo, 6 + 1, Len(t.todo)) IN Remains(r, all) /\ Len(r) = n - 6
    BY <1>1, <2>1, RemainsBehind
  <2>3. 6 + 1 = 7
    OBVIOUS
  <2> QED
    BY <2>2, <2>3 DEF Remains
<1>6. t2 \in Task /\ t2.op = t.op /\ t2.last = t.last /\ t2.todo = rest
  <2> DEFINE S == Seq(Steps)
  <2>1. Task = [op : Ops, todo : S, last : Lasts, left : Int] /\ rest \in S
    BY <1>5 DEF Task
  <2>2. t2 = [t EXCEPT !.todo = rest]
    OBVIOUS
  <2> HIDE DEF S, rest, t2
  <2> QED
    BY <1>1, <2>1, <2>2
<1> HIDE DEF all, n, b, m, rest, t2
<1>7. NewAt(n - 6, b, m, d, g, c)
  <2>1. n > m /\ n # m + 9 /\ n - 6 = m + 1 /\ ~(n - 6 <= m) /\ ~(n - 6 = 0 \/ n - 6 <= 9)
    BY <1>3
  <2>2. g = None
    BY <1>4, <2>1 DEF NewAt
  <2> QED
    BY <2>1, <2>2 DEF NewAt
<1>8. t2.todo # <<>>
  BY <1>3, <1>5, <1>6
<1>9. AtWork(t2, d, g, c)
  <2>1. NewAt(Len(t2.todo), Behind(t2.op, c), Since(t2.op, c), d, g, c)
    BY <1>5, <1>6, <1>7 DEF b, m
  <2>2. Remains(t2.todo, plan(t2.op, Provisioned(c)))
    BY <1>5, <1>6 DEF all
  <2> QED
    BY <1>2, <1>4, <1>6, <2>1, <2>2, OpNames DEF AtWork
<1>10. Local(t2, d, g, c)
  BY <1>2, <1>4, <1>6, <1>8, <1>9, OpNames DEF Local, LocalTypes, SetUp
<1> QED
  BY <1>2, <1>3, <1>10 DEF t2, n, m

-----------------------------------------------------------------------------
(* The machines together.                                                   *)

TypeOK ==
  /\ image \in Image /\ raw \in Image
  /\ conf \in [Machine -> UNION {Confs[v] : v \in Machine}]
  /\ \A v \in Machine : conf[v] \in Confs[v]
  /\ disk \in [Machine -> Disk \union {None}]
  /\ guest \in [Machine -> Guest \union {None}]
  /\ task \in [Machine -> Task]

MachineInv == TypeOK /\ \A v \in Machine : Local(task[v], disk[v], guest[v], conf[v])

\* new is old, a function of the machines, with y for v.
Only(new, old, S, v, y) ==
  new \in [Machine -> S] /\ new[v] = y /\ \A w \in Machine \ {v} : new[w] = old[w]

LEMMA OnlyAt ==
  ASSUME NEW S, NEW old \in [Machine -> S], NEW v \in Machine, NEW y \in S
  PROVE  Only([old EXCEPT ![v] = y], old, S, v, y)
BY DEF Only

LEMMA OnlySame ==
  ASSUME NEW S, NEW old \in [Machine -> S], NEW v \in Machine
  PROVE  Only(old, old, S, v, old[v])
BY DEF Only

\* A step of machine v keeps what holds of the others.
LEMMA Frame ==
  ASSUME MachineInv, NEW v \in Machine, NEW t, NEW d, NEW g,
         image' \in Image, raw' \in Image, conf' = conf,
         Only(task', task, Task, v, t), Only(disk', disk, Disk \union {None}, v, d),
         Only(guest', guest, Guest \union {None}, v, g),
         Local(t, d, g, conf[v])
  PROVE  MachineInv'
<1>1. TypeOK'
  BY DEF MachineInv, TypeOK, Only
<1>2. ASSUME NEW w \in Machine PROVE Local(task[w], disk[w], guest[w], conf[w])'
  <2>1. CASE w = v
    BY <2>1 DEF Only
  <2>2. CASE w # v
    <3>1. task'[w] = task[w] /\ disk'[w] = disk[w] /\ guest'[w] = guest[w] /\ conf'[w] = conf[w]
      BY <2>2 DEF Only
    <3>2. Local(task[w], disk[w], guest[w], conf[w])
      BY DEF MachineInv
    <3> QED
      BY <3>1, <3>2
  <2> QED
    BY <2>1, <2>2
<1> QED
  BY <1>1, <1>2 DEF MachineInv

LEMMA DoneIs ==
  ASSUME MachineInv, NEW v \in Machine, task[v].todo # <<>>, Done(v)
  PROVE  Only(task', task, Task, v, After(task[v]))
<1>2. task \in [Machine -> Task] /\ task[v] \in Task
  BY DEF MachineInv, TypeOK
<1>1. task' = [task EXCEPT ![v] = After(task[v])]
  BY DEF Done
<1>3. After(task[v]) \in Task
  BY <1>2, AfterIs
<1> QED
  BY <1>1, <1>2, <1>3, OnlyAt

LEMMA FailsIs ==
  ASSUME MachineInv, NEW v \in Machine, Fails(v)
  PROVE  Only(task', task, Task, v, Failed(task[v]))
<1>1. task \in [Machine -> Task] /\ task[v] \in Task
  BY DEF MachineInv, TypeOK
<1>2. task' = [task EXCEPT ![v] = Failed(task[v])]
  <2> DEFINE T == Task
  <2>1. task \in [Machine -> T] /\ task' = [task EXCEPT ![v].todo = <<>>, ![v].last = "failed"]
    BY <1>1 DEF Fails
  <2> HIDE DEF T
  <2> QED
    BY <2>1 DEF Failed
<1>3. Failed(task[v]) \in Task
  BY <1>1, FailedIs
<1> QED
  BY <1>1, <1>2, <1>3, OnlyAt

\* A step that is done.
LEMMA DoneKeeps ==
  ASSUME MachineInv, NEW v \in Machine, NEW d, NEW g,
         task[v].todo # <<>>, Done(v), image' \in Image, raw' \in Image, conf' = conf,
         Only(disk', disk, Disk \union {None}, v, d), Only(guest', guest, Guest \union {None}, v, g),
         Effect(number[Head(task[v].todo)], disk[v], guest[v], conf[v], d, g),
         Needs(number[Head(task[v].todo)], guest[v])
  PROVE  MachineInv'
<1>1. Local(task[v], disk[v], guest[v], conf[v])
  BY DEF MachineInv
<1>2. Local(After(task[v]), d, g, conf[v])
  BY <1>1, LocalStep
<1>3. Only(task', task, Task, v, After(task[v]))
  BY DoneIs
<1> QED
  BY <1>2, <1>3, Frame

\* A step that fails.
LEMMA FailsKeeps ==
  ASSUME MachineInv, NEW v \in Machine, NEW d,
         task[v].todo # <<>>, Fails(v), image' \in Image, raw' \in Image, conf' = conf, guest' = guest,
         Only(disk', disk, Disk \union {None}, v, d), guest[v] # None => d \in Disk
  PROVE  MachineInv'
<1>1. Local(task[v], disk[v], guest[v], conf[v])
  BY DEF MachineInv
<1>2. d \in Disk \union {None}
  BY DEF Only
<1>3. Local(Failed(task[v]), d, guest[v], conf[v])
  BY <1>1, <1>2, LocalFails
<1>4. Only(task', task, Task, v, Failed(task[v]))
  BY FailsIs
<1>5. Only(guest', guest, Guest \union {None}, v, guest[v])
  BY OnlySame DEF MachineInv, TypeOK
<1> QED
  BY <1>3, <1>4, <1>5, Frame

\* A machine's records, and what it takes to change none.
LEMMA MachineTypes ==
  ASSUME MachineInv, NEW v \in Machine
  PROVE  /\ LocalTypes(task[v], disk[v], guest[v])
         /\ image \in Image /\ raw \in Image
         /\ disk \in [Machine -> Disk \union {None}] /\ guest \in [Machine -> Guest \union {None}]
         /\ Only(disk, disk, Disk \union {None}, v, disk[v])
         /\ Only(guest, guest, Guest \union {None}, v, guest[v])
         /\ \A s \in Setting : conf[v][s] \in Nat
<1>1. TypeOK /\ LocalTypes(task[v], disk[v], guest[v])
  BY DEF MachineInv, Local
<1> QED
  BY <1>1, OnlySame, ConfAssumption DEF TypeOK

-----------------------------------------------------------------------------
(* The actions of the base image and the disk.                              *)

LEMMA AtIs ==
  ASSUME NEW v \in Machine, NEW x, At(v, x)
  PROVE  task[v].todo # <<>> /\ Head(task[v].todo) = x
BY DEF At

\* Steps that touch neither the disk nor the guest.
LEMMA ImageSteps ==
  ASSUME MachineInv, NEW v \in Machine, NEW x \in ImageStep \union {"base"}, At(v, x), Done(v),
         image' \in Image, raw' \in Image, UNCHANGED <<conf, disk, guest>>
  PROVE  MachineInv'
<1>1. number[x] \in 16 .. 21
  BY NumberIs DEF ImageStep
<1>2. Effect(number[x], disk[v], guest[v], conf[v], disk[v], guest[v]) /\ Needs(number[x], guest[v])
  BY <1>1 DEF Effect, NoEffect, Needs
<1> QED
  BY <1>2, AtIs, MachineTypes, DoneKeeps

LEMMA BaseThereKeeps ==
  ASSUME MachineInv, NEW v \in Machine, BaseThere(v)
  PROVE  MachineInv'
<1>1. At(v, "base") /\ image' = image /\ raw' = raw /\ conf' = conf /\ disk' = disk /\ guest' = guest
  BY DEF BaseThere
<1>2. image' \in Image /\ raw' \in Image
  BY <1>1, MachineTypes
<1>3. CASE Done(v)
  BY <1>1, <1>2, <1>3, ImageSteps
<1>4. CASE DoneAll(v, Len(ensure_base_image))
  <2> DEFINE t == task[v]
             t2 == [t EXCEPT !.todo = SubSeq(@, 7, Len(@))]
  <2>1. Len(ensure_base_image) + 1 = 7
    BY DEF ensure_base_image
  <2>2. task' = [task EXCEPT ![v] = t2]
    BY <1>4, <2>1 DEF DoneAll
  <2>3. Local(t, disk[v], guest[v], conf[v])
    BY DEF MachineInv
  <2>4. Local(t2, disk[v], guest[v], conf[v])
    BY <1>1, <2>3, AtIs, LocalSkips
  <2> HIDE DEF t2
  <2>5. Only(task', task, Task, v, t2)
    BY <2>2, <2>4, OnlyAt DEF MachineInv, TypeOK, Local, LocalTypes
  <2> QED
    BY <1>1, <1>2, <2>4, <2>5, MachineTypes, Frame
<1> QED
  BY <1>3, <1>4 DEF BaseThere

LEMMA DownloadKeeps ==
  ASSUME MachineInv, NEW v \in Machine, _download_file(v)
  PROVE  MachineInv'
<1>1. PICK x \in {"fetch", "fetched"} : At(v, x) /\ Done(v)
  BY DEF _download_file
<1>2. image' \in Image /\ raw' \in Image /\ UNCHANGED <<conf, disk, guest>>
  BY MachineTypes DEF _download_file, Image
<1>3. x \in ImageStep \union {"base"}
  BY DEF ImageStep
<1> QED
  BY <1>1, <1>2, <1>3, ImageSteps

LEMMA VerifyKeeps ==
  ASSUME MachineInv, NEW v \in Machine, _verify_sha256(v)
  PROVE  MachineInv'
<1>1. At(v, "verify") /\ image' \in Image /\ raw' \in Image /\ UNCHANGED <<conf, disk, guest>>
  BY MachineTypes DEF _verify_sha256, store
<1>2. CASE Done(v)
  BY <1>1, <1>2, ImageSteps DEF ImageStep
<1>3. CASE Fails(v)
  BY <1>1, <1>3, AtIs, MachineTypes, FailsKeeps DEF LocalTypes
<1> QED
  BY <1>2, <1>3 DEF _verify_sha256

LEMMA ConvertKeeps ==
  ASSUME MachineInv, NEW v \in Machine, Convert(v)
  PROVE  MachineInv'
<1>1. image' \in Image /\ raw' \in Image /\ UNCHANGED <<conf, disk, guest>>
  BY MachineTypes DEF Convert, Image
<1>2. PICK x \in {"convert", "converted"} : At(v, x) /\ (Done(v) \/ Fails(v))
  BY DEF Convert
<1>3. CASE Done(v)
  BY <1>1, <1>2, <1>3, ImageSteps DEF ImageStep
<1>4. CASE Fails(v)
  BY <1>1, <1>2, <1>4, AtIs, MachineTypes, FailsKeeps DEF LocalTypes
<1> QED
  BY <1>2, <1>3, <1>4

LEMMA OverlayKeeps ==
  ASSUME MachineInv, NEW v \in Machine, create_overlay(v)
  PROVE  MachineInv'
<1> DEFINE d == [base |-> image, booted |-> FALSE, work |-> FALSE,
                 trusted |-> FALSE, has |-> [s \in Setting |-> 0]]
<1>1. At(v, "overlay") /\ Done(v) /\ UNCHANGED <<store, conf, guest>> /\ disk' = [disk EXCEPT ![v] = d]
  BY DEF create_overlay
<1>2. d \in Disk /\ \A s \in Setting : d.has[s] = 0
  BY MachineTypes DEF Disk
<1> HIDE DEF d
<1>3. Effect(22, disk[v], guest[v], conf[v], d, guest[v]) /\ Needs(22, guest[v])
  BY <1>2 DEF Effect, Needs
<1>4. Only(disk', disk, Disk \union {None}, v, d)
  BY <1>1, <1>2, MachineTypes, OnlyAt
<1>5. image' \in Image /\ raw' \in Image
  BY <1>1, MachineTypes DEF store
<1>6. task[v].todo # <<>> /\ number[Head(task[v].todo)] = 22
  BY <1>1, AtIs, NumberIs
<1>7. Only(guest', guest, Guest \union {None}, v, guest[v])
  BY <1>1, MachineTypes
<1> QED
  BY <1>1, <1>3, <1>4, <1>5, <1>6, <1>7, DoneKeeps

LEMMA MoveAwayKeeps ==
  ASSUME MachineInv, NEW v \in Machine, MoveAway(v)
  PROVE  MachineInv'
<1>1. At(v, "away") /\ Done(v) /\ UNCHANGED <<store, conf, guest>> /\ disk' = [disk EXCEPT ![v] = None]
  BY DEF MoveAway
<1>2. Effect(15, disk[v], guest[v], conf[v], None, guest[v]) /\ Needs(15, guest[v])
  BY DEF Effect, Needs
<1>3. Only(disk', disk, Disk \union {None}, v, None)
  BY <1>1, MachineTypes, OnlyAt
<1>4. image' \in Image /\ raw' \in Image
  BY <1>1, MachineTypes DEF store
<1>5. task[v].todo # <<>> /\ number[Head(task[v].todo)] = 15
  BY <1>1, AtIs, NumberIs
<1>6. Only(guest', guest, Guest \union {None}, v, guest[v])
  BY <1>1, MachineTypes
<1> QED
  BY <1>1, <1>2, <1>3, <1>4, <1>5, <1>6, DoneKeeps

-----------------------------------------------------------------------------
(* The actions of QEMU and the guest.                                       *)

LEMMA LaunchKeeps ==
  ASSUME MachineInv, NEW v \in Machine, Launch(v)
  PROVE  MachineInv'
<1> DEFINE g == [runs |-> [u \in Unit |-> disk[v].has[u]], mounted |-> FALSE, share |-> write_cloud_init(v)]
           d == [disk[v] EXCEPT !.booted = TRUE]
<1>1. At(v, "launch") /\ UNCHANGED <<store, conf>>
  BY DEF Launch
<1>2. image' \in Image /\ raw' \in Image
  BY <1>1, MachineTypes DEF store
<1>3. task[v].todo # <<>> /\ number[Head(task[v].todo)] = 12
  BY <1>1, AtIs, NumberIs
<1>4. CASE Fails(v) /\ UNCHANGED <<disk, guest>>
  BY <1>1, <1>2, <1>3, <1>4, MachineTypes, FailsKeeps DEF LocalTypes
<1>5. CASE /\ disk[v] # None /\ Done(v)
           /\ guest' = [guest EXCEPT ![v] = g]
           /\ disk' = [disk EXCEPT ![v].booted = TRUE]
  <2>1. disk[v] \in Disk /\ guest \in [Machine -> Guest \union {None}] /\ disk \in [Machine -> Disk \union {None}]
    BY <1>5, MachineTypes
  <2>2. g \in Guest /\ \A u \in Unit : g.runs[u] = disk[v].has[u]
    <3>1. \A u \in Unit : disk[v].has[u] \in Nat
      BY <2>1, SettingNames DEF Disk
    <3>2. write_cloud_init(v) \in BOOLEAN
      BY <2>1 DEF write_cloud_init, Disk
    <3> HIDE DEF write_cloud_init
    <3> QED
      BY <3>1, <3>2 DEF Guest
  <2>3. d \in Disk /\ d.has = disk[v].has
    BY <2>1 DEF Disk
  <2>4. disk' = [disk EXCEPT ![v] = d]
    BY <1>5
  <2> HIDE DEF g, d
  <2>5. Only(disk', disk, Disk \union {None}, v, d)
    BY <2>1, <2>3, <2>4, OnlyAt
  <2>8. Only(guest', guest, Guest \union {None}, v, g)
    BY <1>5, <2>1, <2>2, OnlyAt
  <2>6. Boots(disk[v], guest[v], d, g)
    BY <2>1, <2>2, <2>3 DEF Boots
  <2>7. Effect(12, disk[v], guest[v], conf[v], d, g) /\ Needs(12, guest[v])
    BY <2>6 DEF Effect, Needs
  <2> QED
    BY <1>1, <1>2, <1>3, <1>5, <2>5, <2>7, <2>8, DoneKeeps
<1> QED
  BY <1>4, <1>5 DEF Launch

LEMMA HaltKeeps ==
  ASSUME MachineInv, NEW v \in Machine, Halt(v)
  PROVE  MachineInv'
<1>1. At(v, "halt") /\ Done(v) /\ UNCHANGED <<store, conf, disk>> /\ guest' = [guest EXCEPT ![v] = None]
  BY DEF Halt
<1>2. Effect(14, disk[v], guest[v], conf[v], disk[v], None) /\ Needs(14, guest[v])
  BY DEF Effect, Needs
<1>3. Only(guest', guest, Guest \union {None}, v, None)
  BY <1>1, MachineTypes, OnlyAt
<1>4. image' \in Image /\ raw' \in Image
  BY <1>1, MachineTypes DEF store
<1>5. task[v].todo # <<>> /\ number[Head(task[v].todo)] = 14
  BY <1>1, AtIs, NumberIs
<1>6. Only(disk', disk, Disk \union {None}, v, disk[v])
  BY <1>1, MachineTypes
<1> QED
  BY <1>1, <1>2, <1>3, <1>4, <1>5, <1>6, DoneKeeps

\* A step in the guest: the guest is up and the disk is there.
LEMMA InGuestIs ==
  ASSUME MachineInv, NEW v \in Machine, NEW x, InGuest(v, x)
  PROVE  /\ task[v].todo # <<>> /\ Head(task[v].todo) = x
         /\ guest[v] # None /\ guest[v] \in Guest /\ disk[v] \in Disk
         /\ image' \in Image /\ raw' \in Image /\ conf' = conf
         /\ Needs(number[x], guest[v])
<1>1. guest[v] # None /\ At(v, x) /\ UNCHANGED <<store, conf>>
  BY DEF InGuest
<1> QED
  BY <1>1, AtIs, MachineTypes DEF LocalTypes, store, Needs

LEMMA SharesKeeps ==
  ASSUME MachineInv, NEW v \in Machine, apply_host_shares(v)
  PROVE  MachineInv'
<1> DEFINE g == [guest[v] EXCEPT !.share = conf[v].provision # "none"]
<1>1. InGuest(v, "shares") /\ Done(v) /\ disk' = disk /\ guest' = [guest EXCEPT ![v] = g]
  BY DEF apply_host_shares
<1>2. /\ task[v].todo # <<>> /\ number[Head(task[v].todo)] = 11
      /\ guest[v] \in Guest /\ disk[v] \in Disk
      /\ image' \in Image /\ raw' \in Image /\ conf' = conf /\ Needs(11, guest[v])
  BY <1>1, InGuestIs, NumberIs
<1>3. g \in Guest /\ g.runs = guest[v].runs /\ g.mounted = guest[v].mounted
  BY <1>2 DEF Guest
<1> HIDE DEF g
<1>4. Effect(11, disk[v], guest[v], conf[v], disk[v], g)
  BY <1>2, <1>3 DEF Effect, InGuestOnly
<1>5. Only(guest', guest, Guest \union {None}, v, g)
  BY <1>1, <1>3, MachineTypes, OnlyAt
<1>6. Only(disk', disk, Disk \union {None}, v, disk[v])
  BY <1>1, MachineTypes
<1> QED
  BY <1>1, <1>2, <1>4, <1>5, <1>6, DoneKeeps

LEMMA MountsKeeps ==
  ASSUME MachineInv, NEW v \in Machine, _apply_mounts(v)
  PROVE  MachineInv'
<1> DEFINE g == [guest[v] EXCEPT !.mounted = TRUE]
<1>1. InGuest(v, "mounts") /\ Done(v) /\ disk' = disk /\ guest' = [guest EXCEPT ![v] = g]
  BY DEF _apply_mounts
<1>2. /\ task[v].todo # <<>> /\ number[Head(task[v].todo)] = 10
      /\ guest[v] \in Guest /\ disk[v] \in Disk
      /\ image' \in Image /\ raw' \in Image /\ conf' = conf /\ Needs(10, guest[v])
  BY <1>1, InGuestIs, NumberIs
<1>3. g \in Guest /\ g.runs = guest[v].runs /\ g.mounted
  BY <1>2 DEF Guest
<1> HIDE DEF g
<1>4. Effect(10, disk[v], guest[v], conf[v], disk[v], g)
  BY <1>2, <1>3 DEF Effect, InGuestOnly
<1>5. Only(guest', guest, Guest \union {None}, v, g)
  BY <1>1, <1>3, MachineTypes, OnlyAt
<1>6. Only(disk', disk, Disk \union {None}, v, disk[v])
  BY <1>1, MachineTypes
<1> QED
  BY <1>1, <1>2, <1>4, <1>5, <1>6, DoneKeeps

LEMMA ProvisionKeeps ==
  ASSUME MachineInv, NEW v \in Machine, provision_guest(v)
  PROVE  MachineInv'
<1> DEFINE d == [disk[v] EXCEPT !.work = TRUE, !.trusted = conf[v].provision = "guard"]
<1>1. InGuest(v, "provision") /\ guest' = guest
  BY DEF provision_guest
<1>2. /\ task[v].todo # <<>> /\ number[Head(task[v].todo)] = 13
      /\ guest[v] \in Guest /\ disk[v] \in Disk
      /\ image' \in Image /\ raw' \in Image /\ conf' = conf /\ Needs(13, guest[v])
  BY <1>1, InGuestIs, NumberIs
<1>3. Only(guest', guest, Guest \union {None}, v, guest[v])
  BY <1>1, MachineTypes
<1>4. CASE Fails(v) /\ disk' = disk
  BY <1>1, <1>2, <1>4, MachineTypes, FailsKeeps DEF LocalTypes
<1>5. CASE disk' = [disk EXCEPT ![v].work = TRUE, ![v].trusted = conf[v].provision = "guard"] /\ Done(v)
  <2>1. disk \in [Machine -> Disk \union {None}]
    BY MachineTypes
  <2>2. d \in Disk /\ d.has = disk[v].has
    BY <1>2 DEF Disk
  <2>3. disk' = [disk EXCEPT ![v] = d]
    BY <1>5, <2>1
  <2> HIDE DEF d
  <2>4. Effect(13, disk[v], guest[v], conf[v], d, guest[v])
    BY <1>2, <2>2 DEF Effect, InGuestOnly
  <2>5. Only(disk', disk, Disk \union {None}, v, d)
    BY <2>1, <2>2, <2>3, OnlyAt
  <2> QED
    BY <1>2, <1>3, <1>5, <2>4, <2>5, DoneKeeps
<1> QED
  BY <1>4, <1>5 DEF provision_guest

\* The settings of the disk when one of them is written.
LEMMA WrittenIs ==
  ASSUME MachineInv, NEW v \in Machine, disk[v] \in Disk, NEW s \in Setting
  PROVE  /\ [disk[v] EXCEPT !.has = written(v, s)] \in Disk
         /\ \A r \in Setting :
              written(v, s)[r] = IF r = s THEN conf[v][s]
                                 ELSE IF r = "provider" /\ s = "credentials" /\ HostConfig THEN 0
                                 ELSE disk[v].has[r]
<1>1. disk[v].has \in [Setting -> Nat] /\ \A r \in Setting : conf[v][r] \in Nat
  BY MachineTypes DEF Disk
<1>2. written(v, s) \in [Setting -> Nat]
  BY <1>1, SettingNames DEF written
<1>3. \A r \in Setting :
        written(v, s)[r] = IF r = s THEN conf[v][s]
                           ELSE IF r = "provider" /\ s = "credentials" /\ HostConfig THEN 0
                           ELSE disk[v].has[r]
  BY <1>1, SettingNames DEF written
<1>4. [disk[v] EXCEPT !.has = written(v, s)] \in Disk
  BY <1>2 DEF Disk
<1> QED
  BY <1>3, <1>4

LEMMA ApplyKeeps ==
  ASSUME MachineInv, NEW v \in Machine, NEW s \in Setting, Apply(v, s)
  PROVE  MachineInv'
<1> DEFINE d == [disk[v] EXCEPT !.has = written(v, s)]
           g == IF s \in Unit /\ guest[v].runs[s] = 0
                THEN [guest[v] EXCEPT !.runs = [@ EXCEPT ![s] = conf[v][s]]] ELSE guest[v]
<1>1. InGuest(v, s)
  BY DEF Apply
<1>2. /\ task[v].todo # <<>> /\ number[Head(task[v].todo)] = number[s]
      /\ guest[v] \in Guest /\ disk[v] \in Disk
      /\ image' \in Image /\ raw' \in Image /\ conf' = conf /\ Needs(number[s], guest[v])
  BY <1>1, InGuestIs
<1>3. /\ Only(disk, disk, Disk \union {None}, v, disk[v]) /\ Only(guest, guest, Guest \union {None}, v, guest[v])
      /\ disk \in [Machine -> Disk \union {None}] /\ guest \in [Machine -> Guest \union {None}]
  BY MachineTypes
<1>4. CASE conf[v][s] = 0 /\ Done(v) /\ UNCHANGED <<disk, guest>>
  <2>1. Effect(number[s], disk[v], guest[v], conf[v], disk[v], guest[v])
    BY <1>2, <1>4 DEF Effect, Writes
  <2> QED
    BY <1>2, <1>3, <1>4, <2>1, DoneKeeps
<1>5. CASE Fails(v) /\ UNCHANGED <<disk, guest>>
  BY <1>2, <1>3, <1>5, MachineTypes, FailsKeeps DEF LocalTypes
<1>6. CASE /\ conf[v][s] # 0 /\ Done(v)
           /\ disk' = [disk EXCEPT ![v].has = written(v, s)]
           /\ guest' = IF s \in Unit /\ guest[v].runs[s] = 0
                       THEN [guest EXCEPT ![v].runs[s] = conf[v][s]] ELSE guest
  <2>1. d \in Disk /\ d.has = written(v, s)
    BY <1>2, WrittenIs DEF Disk
  <2>2. /\ g \in Guest /\ g.mounted = guest[v].mounted
        /\ \A u \in Unit : g.runs[u] = IF u = s /\ guest[v].runs[u] = 0 THEN conf[v][u] ELSE guest[v].runs[u]
    <3>1. conf[v][s] \in Nat
      BY MachineTypes
    <3> QED
      BY <1>2, <3>1 DEF Guest
  <2>3. disk' = [disk EXCEPT ![v] = d]
    BY <1>6
  <2>4. guest' = [guest EXCEPT ![v] = g]
    BY <1>3, <1>6
  <2>5. \A r \in Setting :
          d.has[r] = IF r = s THEN conf[v][s]
                     ELSE IF r = "provider" /\ s = "credentials" /\ HostConfig THEN 0
                     ELSE disk[v].has[r]
    BY <1>2, <2>1, WrittenIs
  <2> HIDE DEF d, g
  <2>6. Writes(s, disk[v], guest[v], conf[v], d, g)
    BY <1>2, <1>6, <2>1, <2>2, <2>5 DEF Writes
  <2>7. Effect(number[s], disk[v], guest[v], conf[v], d, g)
    BY <2>6 DEF Effect
  <2>8. Only(disk', disk, Disk \union {None}, v, d)
    BY <1>3, <2>1, <2>3, OnlyAt
  <2>9. Only(guest', guest, Guest \union {None}, v, g)
    BY <1>3, <2>2, <2>4, OnlyAt
  <2> QED
    BY <1>2, <1>6, <2>7, <2>8, <2>9, DoneKeeps
<1> QED
  BY <1>4, <1>5, <1>6 DEF Apply

-----------------------------------------------------------------------------
(* What goes wrong, and the commands' beginnings.                           *)

\* While a setting is being written the machine has its disk.
LEMMA DiskThere ==
  ASSUME MachineInv, NEW v \in Machine, NEW s \in Setting, At(v, s)
  PROVE  disk[v] \in Disk
<1> DEFINE t == task[v]
           all == plan(t.op, Provisioned(conf[v]))
           n == Len(t.todo)
           b == Behind(t.op, conf[v])
           m == Since(t.op, conf[v])
           x == number[s]
<1>1. Local(t, disk[v], guest[v], conf[v]) /\ t.todo # <<>> /\ Head(t.todo) = s
  BY AtIs DEF MachineInv
<1>2. x = step(all, n) /\ n \in 1 .. Len(all) /\ t \in Task
  BY <1>1, NextStep
<1>3. x \in 1 .. 9
  BY SettingNumbers
<1>4. t.op \in Ops /\ t.op # "none"
  BY <1>1, <1>2 DEF Local, AtWork, Task
<1>5. CASE t.op \in Making
  <2>1. NewPlace(x, b, m, n) /\ b \in {0, 4} /\ m \in Nat /\ m > b + 10
    BY <1>2, <1>5, MakingPlace
  <2>2. NewAt(n, b, m, disk[v], guest[v], conf[v])
    BY <1>1, <1>5 DEF Local, AtWork
  <2> HIDE DEF t, all, n, b, m, x
  <2>3. n <= m
    BY <1>2, <1>3, <2>1 DEF NewPlace, Place
  <2> QED
    BY <2>2, <2>3 DEF NewAt, New
<1>6. CASE t.op = "rebuild"
  <2>1. Place(x, 0, n)
    BY <1>2, <1>6, OldPlan DEF OldPlaces
  <2>2. KeptAt(n, disk[v], guest[v], conf[v])
    BY <1>1, <1>6 DEF Local, AtWork
  <2> HIDE DEF t, all, n, b, m, x
  <2>3. n <= 9
    BY <1>2, <1>3, <2>1 DEF Place
  <2> QED
    BY <2>2, <2>3 DEF KeptAt
<1>7. CASE t.op = "start"
  <2>1. Len(all) = 3 /\ step(all, 1) = 10 /\ step(all, 2) = 11 /\ step(all, 3) = 12
    BY <1>7, ShortPlans
  <2> HIDE DEF t, all, n, b, m, x
  <2>2. n \in 1 .. 3
    BY <1>2, <2>1
  <2> QED
    BY <1>2, <1>3, <2>1, <2>2
<1>8. CASE t.op = "stop"
  <2>1. Len(all) = 1 /\ step(all, 1) = 14
    BY <1>8, ShortPlans
  <2> HIDE DEF t, all, n, b, m, x
  <2>2. n = 1
    BY <1>2, <2>1
  <2> QED
    BY <1>2, <1>3, <2>1, <2>2
<1> QED
  BY <1>4, <1>5, <1>6, <1>7, <1>8, OpNames

LEMMA StepFailsKeeps ==
  ASSUME MachineInv, NEW v \in Machine, StepFails(v)
  PROVE  MachineInv'
<1>1. /\ task[v].todo # <<>> /\ Fails(v) /\ UNCHANGED <<image, raw, conf, guest>>
      /\ image' \in Image /\ raw' \in Image
  BY MachineTypes DEF StepFails
<1>2. CASE disk' = disk
  BY <1>1, <1>2, MachineTypes, FailsKeeps DEF LocalTypes
<1>3. ASSUME NEW s \in Setting, At(v, s), disk' = [disk EXCEPT ![v].has = written(v, s)]
      PROVE  MachineInv'
  <2> DEFINE d == [disk[v] EXCEPT !.has = written(v, s)]
  <2>1. disk[v] \in Disk /\ disk \in [Machine -> Disk \union {None}]
    BY <1>3, DiskThere, MachineTypes
  <2>2. d \in Disk
    BY <2>1, WrittenIs
  <2>3. disk' = [disk EXCEPT ![v] = d]
    BY <1>3
  <2> HIDE DEF d
  <2>4. Only(disk', disk, Disk \union {None}, v, d)
    BY <2>1, <2>2, <2>3, OnlyAt
  <2> QED
    BY <1>1, <2>2, <2>4, FailsKeeps
<1> QED
  BY <1>2, <1>3 DEF StepFails

LEMMA GuestDownKeeps ==
  ASSUME MachineInv, NEW v \in Machine, GuestDown(v)
  PROVE  MachineInv'
<1>1. UNCHANGED <<store, conf, disk, task>> /\ guest' = [guest EXCEPT ![v] = None]
  BY DEF GuestDown
<1>2. image' \in Image /\ raw' \in Image
  BY <1>1, MachineTypes DEF store
<1>3. Only(guest', guest, Guest \union {None}, v, None)
  BY <1>1, MachineTypes, OnlyAt
<1>4. Only(disk', disk, Disk \union {None}, v, disk[v])
  BY <1>1, MachineTypes
<1>5. Only(task', task, Task, v, task[v])
  BY <1>1, OnlySame DEF MachineInv, TypeOK
<1>6. Local(task[v], disk[v], None, conf[v])
  BY LocalDown DEF MachineInv
<1> QED
  BY <1>1, <1>2, <1>3, <1>4, <1>5, <1>6, Frame

LEMMA UnreachableKeeps ==
  ASSUME MachineInv, NEW v \in Machine, Unreachable(v)
  PROVE  MachineInv'
<1>1. UNCHANGED <<store, conf, disk, guest>> /\ Fails(v) /\ task[v].todo # <<>>
  BY DEF Unreachable, At
<1>2. image' \in Image /\ raw' \in Image
  BY <1>1, MachineTypes DEF store
<1> QED
  BY <1>1, <1>2, MachineTypes, FailsKeeps DEF LocalTypes

\* A plan is a sequence of steps.
LEMMA PlanType ==
  ASSUME NEW op \in Ops \ {"none"}, NEW c
  PROVE  plan(op, Provisioned(c)) \in Seq(Steps)
<1>1. CASE op \in Making
  BY <1>1, NewPlan DEF NewPlaces
<1>2. CASE op = "rebuild"
  BY <1>2, OldPlan DEF OldPlaces
<1>3. CASE op \in {"start", "stop"}
  BY <1>3, ShortPlans
<1> QED
  BY <1>1, <1>2, <1>3, OpNames

LEMMA RunKeeps ==
  ASSUME MachineInv, NEW v \in Machine,
         NEW op \in {"create", "rebuild", "fresh", "start", "stop"}, Run(v, op)
  PROVE  MachineInv'
<1> DEFINE t == task[v]
           all == plan(op, Provisioned(conf[v]))
           last == IF op \in {"start", "stop"} THEN t.last ELSE "none"
           t2 == [op |-> op, todo |-> all, last |-> last, left |-> t.left - 1]
           S == Seq(Steps)
<1>1. /\ t.todo = <<>> /\ (op = "create" => t.op = "none") /\ UNCHANGED <<store, conf, disk, guest>>
      /\ task' = [task EXCEPT ![v] = t2]
  BY DEF Run, Provisioned
<1>2. op \in Ops \ {"none"}
  BY DEF Ops
<1>3. t \in Task /\ t.last \in Lasts /\ t.left \in Int
  BY DEF MachineInv, TypeOK, Task
<1>4. last \in Lasts
  BY <1>3, OpNames
<1>5. all \in S
  BY <1>2, PlanType
<1>6. Task = [op : Ops, todo : S, last : Lasts, left : Int]
  BY DEF Task
<1> HIDE DEF all, last, S
<1>7. t2 \in Task /\ t2.op = op /\ t2.todo = all /\ t2.last = last
  BY <1>2, <1>3, <1>4, <1>5, <1>6
<1> HIDE DEF t2
<1>8. Local(t, disk[v], guest[v], conf[v])
  BY DEF MachineInv
<1>9. Local(t2, disk[v], guest[v], conf[v])
  BY <1>1, <1>2, <1>7, <1>8, LocalRun DEF all, last
<1>10. Only(task', task, Task, v, t2)
  BY <1>1, <1>7, OnlyAt DEF MachineInv, TypeOK
<1>11. image' \in Image /\ raw' \in Image
  BY <1>1, MachineTypes DEF store
<1>12. Only(disk', disk, Disk \union {None}, v, disk[v]) /\ Only(guest', guest, Guest \union {None}, v, guest[v])
  BY <1>1, MachineTypes
<1> QED
  BY <1>1, <1>9, <1>10, <1>11, <1>12, Frame

LEMMA EditKeeps ==
  ASSUME MachineInv, NEW v \in Machine, NEW c \in Confs[v], Edit(v, c)
  PROVE  MachineInv'
<1> DEFINE t2 == [task[v] EXCEPT !.last = "edited"]
           C == UNION {Confs[w] : w \in Machine}
<1>1. /\ task[v].todo = <<>> /\ UNCHANGED <<store, disk, guest>>
      /\ conf' = [conf EXCEPT ![v] = c] /\ task' = [task EXCEPT ![v] = t2]
  BY DEF Edit
<1>2. Local(t2, disk[v], guest[v], c)
  BY <1>1, LocalEdited DEF MachineInv
<1> HIDE DEF t2
<1>3. Only(task', task, Task, v, t2)
  BY <1>1, <1>2, OnlyAt DEF MachineInv, TypeOK, Local, LocalTypes
<1>4. conf \in [Machine -> C] /\ c \in C
  BY DEF MachineInv, TypeOK
<1> HIDE DEF C
<1>5. conf' \in [Machine -> C] /\ conf'[v] = c /\ \A w \in Machine \ {v} : conf'[w] = conf[w]
  BY <1>1, <1>4
<1>6. TypeOK'
  BY <1>1, <1>3, <1>5 DEF MachineInv, TypeOK, Only, store, C
<1>7. ASSUME NEW w \in Machine PROVE Local(task[w], disk[w], guest[w], conf[w])'
  <2>1. CASE w = v
    BY <1>1, <1>2, <1>3, <1>5, <2>1 DEF Only
  <2>2. CASE w # v
    <3>1. task'[w] = task[w] /\ disk'[w] = disk[w] /\ guest'[w] = guest[w] /\ conf'[w] = conf[w]
      BY <1>1, <1>3, <1>5, <2>2 DEF Only
    <3>2. Local(task[w], disk[w], guest[w], conf[w])
      BY DEF MachineInv
    <3> QED
      BY <3>1, <3>2
  <2> QED
    BY <2>1, <2>2
<1> QED
  BY <1>6, <1>7 DEF MachineInv

LEMMA InitMachines == GuestInit => MachineInv
<1> SUFFICES ASSUME GuestInit PROVE MachineInv
  OBVIOUS
<1> DEFINE t0(n) == [op |-> "none", todo |-> <<>>, last |-> "none", left |-> n]
           S == Seq(Steps)
<1>1. PICK k \in MaxCommands : task = [v \in Machine |-> t0(k[v])]
  BY DEF GuestInit
<1>2. k \in [Machine -> Nat]
  BY <1>1, ConfAssumption
<1>3. ASSUME NEW n \in Nat
      PROVE  t0(n) \in Task /\ t0(n).op = "none" /\ t0(n).todo = <<>> /\ t0(n).last = "none"
  <2>1. Task = [op : Ops, todo : S, last : Lasts, left : Int] /\ <<>> \in S
    BY DEF Task
  <2>2. "none" \in Ops /\ "none" \in Lasts
    BY OpNames
  <2> HIDE DEF S
  <2> QED
    BY <2>1, <2>2
<1> HIDE DEF t0
<1>4. ASSUME NEW v \in Machine PROVE Local(task[v], disk[v], guest[v], conf[v])
  <2>1. task[v] = t0(k[v]) /\ k[v] \in Nat /\ disk[v] = None /\ guest[v] = None
    BY <1>1, <1>2 DEF GuestInit
  <2>2. task[v] \in Task /\ task[v].op = "none" /\ task[v].todo = <<>> /\ task[v].last = "none"
    BY <1>3, <2>1
  <2> QED
    BY <2>1, <2>2, OpNames DEF Local, LocalTypes, AtWork, SetUp
<1>5. TypeOK
  <2>1. task \in [Machine -> Task]
    BY <1>1, <1>2, <1>3
  <2> QED
    BY <2>1 DEF GuestInit, TypeOK, Image
<1> QED
  BY <1>4, <1>5 DEF MachineInv

LEMMA NextMachines == MachineInv /\ [GuestNext]_guestVars => MachineInv'
<1> SUFFICES ASSUME MachineInv, [GuestNext]_guestVars PROVE MachineInv'
  OBVIOUS
<1>1. CASE UNCHANGED guestVars
  BY <1>1 DEF guestVars, store, spent, MachineInv, TypeOK
<1>2. ASSUME NEW v \in Machine, NEW op \in {"create", "rebuild", "fresh", "start", "stop"}, Run(v, op)
      PROVE  MachineInv'
  BY <1>2, RunKeeps
<1>3. ASSUME NEW v \in Machine, NEW c \in Confs[v], Edit(v, c) PROVE MachineInv'
  BY <1>3, EditKeeps
<1>4. ASSUME NEW v \in Machine,
             BaseThere(v) \/ _download_file(v) \/ _verify_sha256(v) \/ Convert(v)
               \/ create_overlay(v) \/ MoveAway(v)
      PROVE  MachineInv'
  BY <1>4, BaseThereKeeps, DownloadKeeps, VerifyKeeps, ConvertKeeps, OverlayKeeps, MoveAwayKeeps
<1>5. ASSUME NEW v \in Machine,
             Launch(v) \/ Halt(v) \/ apply_host_shares(v) \/ _apply_mounts(v) \/ provision_guest(v)
      PROVE  MachineInv'
  BY <1>5, LaunchKeeps, HaltKeeps, SharesKeeps, MountsKeeps, ProvisionKeeps
<1>6. ASSUME NEW v \in Machine, NEW s \in Setting, Apply(v, s) PROVE MachineInv'
  BY <1>6, ApplyKeeps
<1>7. ASSUME NEW v \in Machine, StepFails(v) \/ GuestDown(v) \/ Unreachable(v) PROVE MachineInv'
  BY <1>7, StepFailsKeeps, GuestDownKeeps, UnreachableKeeps
<1> QED
  BY <1>1, <1>2, <1>3, <1>4, <1>5, <1>6, <1>7 DEF GuestNext

\* What is known of every machine at every moment: the types, what is left of
\* its command and, by that number, what its disk and its units have.
THEOREM MachineInvariant == GuestSpec => []MachineInv
<1>1. GuestInit => MachineInv
  BY InitMachines
<1>2. MachineInv /\ [GuestNext]_guestVars => MachineInv'
  BY NextMachines
<1> QED
  BY <1>1, <1>2, PTL DEF GuestSpec

\* create and rebuild --fresh leave a machine with exactly the settings of its
\* vm.yaml, its units running with them and its mounts in place, whatever the
\* other machines' commands did meanwhile (qemu_backend.py create, rebuild).
THEOREM FreshIsAsWritten == GuestSpec => []FreshAsWritten
<1>1. MachineInv => FreshAsWritten
  <2> SUFFICES ASSUME MachineInv, NEW v \in Machine, task[v].todo = <<>>, task[v].last \in Making
               PROVE  /\ disk[v].has = AsWritten(v)
                      /\ guest[v] # None =>
                           guest[v].mounted /\ guest[v].runs = [u \in Unit |-> conf[v][u]]
    BY DEF FreshAsWritten, Making
  <2>1. Local(task[v], disk[v], guest[v], conf[v]) /\ LocalTypes(task[v], disk[v], guest[v])
    BY DEF MachineInv, Local
  <2>2. disk[v].has = Written(conf[v]) /\ Follows(guest[v], disk[v])
    BY <2>1 DEF Local, SetUp
  <2>3. Written(conf[v]) = AsWritten(v)
    BY DEF Written, AsWritten
  <2>4. ASSUME guest[v] # None PROVE guest[v].mounted /\ guest[v].runs = [u \in Unit |-> conf[v][u]]
    <3>1. guest[v].mounted
      BY <2>1, <2>4, OpNames DEF Local
    <3>2. guest[v].runs \in [Unit -> Nat]
      BY <2>1, <2>4 DEF LocalTypes, Guest
    <3>3. \A u \in Unit : guest[v].runs[u] = conf[v][u]
      BY <2>2, <2>4, WrittenUnits DEF Follows
    <3> QED
      BY <3>1, <3>2, <3>3
  <2> QED
    BY <2>2, <2>3, <2>4
<1> QED
  BY <1>1, MachineInvariant, PTL

\* A rebuild on the old disk brings every setting of vm.yaml to it, and a unit
\* for each that needs one runs (qemu_guest_config.py).
THEOREM RebuildIsAsWritten == GuestSpec => []RebuildCarriesWritten
<1>1. MachineInv => RebuildCarriesWritten
  <2> SUFFICES ASSUME MachineInv, NEW v \in Machine, task[v].todo = <<>>, task[v].last = "rebuild"
               PROVE  /\ \A s \in Setting : AsWritten(v)[s] # 0 => disk[v].has[s] = AsWritten(v)[s]
                      /\ guest[v] # None =>
                           guest[v].mounted /\ \A u \in Unit : conf[v][u] # 0 => guest[v].runs[u] # 0
    BY DEF RebuildCarriesWritten
  <2>1. Local(task[v], disk[v], guest[v], conf[v])
    BY DEF MachineInv
  <2>2. SetUp("rebuild", disk[v], guest[v], conf[v]) /\ (guest[v] # None => guest[v].mounted)
    BY <2>1, OpNames DEF Local
  <2>3. Written(conf[v]) = AsWritten(v)
    BY DEF Written, AsWritten
  <2> QED
    BY <2>2, <2>3 DEF SetUp
<1> QED
  BY <1>1, MachineInvariant, PTL

-----------------------------------------------------------------------------
(* The base image, which all machines share.                                *)

\* Where the machine's command is: the number of its next step, 0 when it has ended.
place(v) == IF task[v].todo = <<>> THEN 0 ELSE number[Head(task[v].todo)]

\* One command at most is at the image, which is whole or absent when none is; the
\* download it converts is whole, and so is what a disk is made on.
PinnedImage ==
  /\ \A v, w \in Machine : place(v) \in 17 .. 21 /\ place(w) \in 17 .. 21 => v = w
  /\ \A v \in Machine : /\ place(v) \in 17 .. 20 => image = "absent"
                        /\ place(v) = 21 => image = "partial"
                        /\ place(v) \in {20, 21} => raw = "whole"
                        /\ place(v) = 22 => image = "whole"
  /\ (\A v \in Machine : place(v) \notin 17 .. 21) => image \in {"absent", "whole"}
PinnedDisks == \A v \in Machine : disk[v] # None => disk[v].base = "whole"
PinInv == Digest = "pinned" /\ ~spoilt => PinnedImage /\ PinnedDisks

LEMMA PlaceOf ==
  ASSUME NEW v \in Machine, NEW x, At(v, x)
  PROVE  place(v) = number[x]
BY DEF At, place

\* A command at a step of the image is in the way of every other one.
LEMMA PlaceOverlaps ==
  ASSUME MachineInv, NEW v \in Machine, ~Overlaps(v), NEW w \in Machine \ {v}
  PROVE  place(w) \notin 17 .. 21
<1> SUFFICES ASSUME place(w) \in 17 .. 21 PROVE FALSE
  OBVIOUS
<1>1. task[w].todo # <<>> /\ place(w) = number[Head(task[w].todo)]
  BY DEF place
<1>2. Head(task[w].todo) \in Steps
  BY <1>1, NextStep DEF MachineInv
<1>3. Head(task[w].todo) \in ImageStep
  BY <1>1, <1>2, NumbersDiffer
<1> QED
  BY <1>1, <1>3 DEF Overlaps, At, ImageStep

\* The places of the two next steps of a plan that makes a disk.
LEMMA PlaceMoves ==
  ASSUME NEW x \in Int, NEW y \in Int, NEW b, NEW m \in Nat, NEW n \in Nat,
         NewPlace(x, b, m, n), NewPlace(y, b, m, n - 1)
  PROVE  IF x \in 16 .. 21 THEN y = x + 1 ELSE y \notin 17 .. 22
BY DEF NewPlace

\* A command reaches the image only by the step before, and goes through all its steps.
LEMMA DonePlace ==
  ASSUME MachineInv, NEW v \in Machine, task[v].todo # <<>>, Done(v)
  PROVE  /\ IF place(v) \in 16 .. 21 THEN place(v)' = place(v) + 1 ELSE place(v)' \notin 17 .. 22
         /\ \A w \in Machine \ {v} : place(w)' = place(w)
<1> DEFINE t == task[v]
           all == plan(t.op, Provisioned(conf[v]))
           n == Len(t.todo)
           x == place(v)
           y == place(v)'
<1>1. Only(task', task, Task, v, After(t)) /\ Local(t, disk[v], guest[v], conf[v])
  BY DoneIs DEF MachineInv
<1>2. /\ t \in Task /\ all \in Seq(Steps) /\ n \in 1 .. Len(all)
      /\ Head(t.todo) \in Steps /\ number[Head(t.todo)] = step(all, n)
      /\ Remains(Tail(t.todo), all) /\ Len(Tail(t.todo)) = n - 1
  BY <1>1, NextStep
<1>3. x = step(all, n) /\ x \in 1 .. 22
  BY <1>2, NumbersDiffer DEF place
<1>4. task'[v].todo = Tail(t.todo)
  BY <1>1, <1>2, AfterIs DEF Only
<1>4a. Tail(t.todo) = <<>> <=> n = 1
  <2>1. t.todo \in Seq(Steps)
    BY <1>2 DEF Task
  <2> QED
    BY <2>1, TailOfSteps
<1>5. IF n = 1 THEN y = 0 ELSE y = step(all, n - 1) /\ y \in 1 .. 22 /\ n - 1 \in 1 .. Len(all)
  <2>1. CASE Tail(t.todo) = <<>>
    <3>1. n = 1
      BY <1>4a, <2>1
    <3> QED
      BY <1>4, <2>1, <3>1 DEF place
  <2>2. CASE Tail(t.todo) # <<>>
    <3> DEFINE rest == Tail(t.todo)
    <3>1. Remains(rest, all) /\ rest # <<>> /\ Len(rest) = n - 1
      BY <1>2, <2>2
    <3> HIDE DEF rest
    <3>2. Head(rest) \in Steps /\ number[Head(rest)] = step(all, Len(rest)) /\ Len(rest) \in 1 .. Len(all)
      BY <1>2, <3>1, RemainsHead
    <3>3. y = number[Head(rest)]
      BY <1>4, <2>2 DEF place, rest
    <3>4. y \in 1 .. 22 /\ y = step(all, n - 1) /\ n - 1 \in 1 .. Len(all)
      BY <3>1, <3>2, <3>3, NumbersDiffer
    <3>5. n # 1
      BY <1>4a, <2>2
    <3> QED
      BY <3>4, <3>5
  <2> QED
    BY <2>1, <2>2
<1>6. t.op \in Ops /\ t.op # "none"
  BY <1>1, <1>2 DEF Local, AtWork, Task
<1>7. CASE t.op \in Making
  <2> DEFINE b == Behind(t.op, conf[v])
             m == Since(t.op, conf[v])
  <2>1. NewPlace(x, b, m, n) /\ m \in Nat
    BY <1>2, <1>3, <1>7, MakingPlace
  <2>2. n # 1 => NewPlace(y, b, m, n - 1)
    BY <1>5, <1>7, MakingPlace
  <2> HIDE DEF t, all, n, x, y, b, m
  <2>3. ASSUME n = 1 PROVE IF x \in 16 .. 21 THEN y = x + 1 ELSE y \notin 17 .. 22
    <3>1. x \notin 16 .. 21
      BY <1>3, <2>1, <2>3 DEF NewPlace
    <3> QED
      BY <1>5, <2>3, <3>1
  <2>4. ASSUME n # 1 PROVE IF x \in 16 .. 21 THEN y = x + 1 ELSE y \notin 17 .. 22
    <3>1. x \in Int /\ y \in Int /\ n \in Nat
      BY <1>2, <1>3, <1>5, <2>4
    <3> QED
      BY <2>1, <2>2, <2>4, <3>1, PlaceMoves
  <2>5. IF x \in 16 .. 21 THEN y = x + 1 ELSE y \notin 17 .. 22
    BY <2>3, <2>4
  <2>6. \A w \in Machine \ {v} : place(w)' = place(w)
    BY <1>1 DEF Only, place
  <2> QED
    BY <2>5, <2>6 DEF x, y
<1>8. CASE t.op \notin Making
  <2>1. \A k \in 1 .. Len(all) : step(all, k) <= 14
    <3>1. CASE t.op = "rebuild"
      BY <3>1, OldPlan DEF OldPlaces
    <3>2. CASE t.op = "start"
      <4>1. Len(all) = 3 /\ step(all, 1) = 10 /\ step(all, 2) = 11 /\ step(all, 3) = 12
        BY <3>2, ShortPlans
      <4> HIDE DEF all
      <4> QED
        BY <4>1
    <3>3. CASE t.op = "stop"
      <4>1. Len(all) = 1 /\ step(all, 1) = 14
        BY <3>3, ShortPlans
      <4> HIDE DEF all
      <4> QED
        BY <4>1
    <3> QED
      BY <1>6, <1>8, <3>1, <3>2, <3>3, OpNames
  <2> HIDE DEF t, all, n, x, y
  <2>2. x \notin 16 .. 21 /\ y \notin 17 .. 22
    BY <1>2, <1>3, <1>5, <2>1
  <2>3. \A w \in Machine \ {v} : place(w)' = place(w)
    BY <1>1 DEF Only, place
  <2> QED
    BY <2>2, <2>3 DEF x, y
<1> QED
  BY <1>7, <1>8

LEMMA FailsPlace ==
  ASSUME MachineInv, NEW v \in Machine, Fails(v)
  PROVE  place(v)' = 0 /\ \A w \in Machine \ {v} : place(w)' = place(w)
<1>1. Only(task', task, Task, v, Failed(task[v])) /\ task[v] \in Task
  BY FailsIs DEF MachineInv, TypeOK
<1>2. Failed(task[v]).todo = <<>>
  BY <1>1, FailedIs
<1> QED
  BY <1>1, <1>2 DEF Only, place

\* A machine's step that is neither at the image nor next to be.
LEMMA AwayFromImage ==
  ASSUME PinInv, NEW v \in Machine, ~spoilt' => ~spoilt, image' = image, raw' = raw,
         place(v) \notin 17 .. 21, place(v)' \notin 17 .. 22,
         \A w \in Machine \ {v} : place(w)' = place(w),
         PinnedDisks => PinnedDisks'
  PROVE  PinInv'
<1> SUFFICES ASSUME Digest = "pinned", ~spoilt' PROVE PinnedImage' /\ PinnedDisks'
  BY DEF PinInv
<1>1. PinnedImage /\ PinnedDisks
  BY DEF PinInv
<1>2. \A w \in Machine : place(w)' \in 17 .. 22 => place(w)' = place(w)
  OBVIOUS
<1>3. \A w \in Machine : place(w) \in 17 .. 21 => place(w)' = place(w)
  OBVIOUS
<1>4. PinnedImage'
  <2>1. \A w, u \in Machine : place(w)' \in 17 .. 21 /\ place(u)' \in 17 .. 21 => w = u
    BY <1>1, <1>2 DEF PinnedImage
  <2>2. ASSUME NEW w \in Machine
        PROVE  /\ place(w)' \in 17 .. 20 => image = "absent"
               /\ place(w)' = 21 => image = "partial"
               /\ place(w)' \in {20, 21} => raw = "whole"
               /\ place(w)' = 22 => image = "whole"
    <3>1. CASE place(w)' = place(w)
      BY <1>1, <3>1 DEF PinnedImage
    <3>2. CASE place(w)' \notin 17 .. 22
      BY <3>2
    <3> QED
      BY <1>2, <3>1, <3>2
  <2>3. (\A w \in Machine : place(w)' \notin 17 .. 21) => image \in {"absent", "whole"}
    BY <1>1, <1>3 DEF PinnedImage
  <2> QED
    BY <2>1, <2>2, <2>3 DEF PinnedImage
<1> QED
  BY <1>1, <1>4

\* A command leaves the image alone, at a step that has not begun to write it.
LEMMA LeavesImage ==
  ASSUME PinInv, NEW v \in Machine, ~spoilt' => ~spoilt /\ place(v) # 21, image' = image, raw' = raw,
         place(v)' = 0, \A w \in Machine \ {v} : place(w)' = place(w),
         PinnedDisks => PinnedDisks'
  PROVE  PinInv'
<1>1. CASE place(v) \notin 17 .. 21
  BY <1>1, AwayFromImage
<1>2. CASE place(v) \in 17 .. 21
  <2> SUFFICES ASSUME Digest = "pinned", ~spoilt' PROVE PinnedImage' /\ PinnedDisks'
    BY DEF PinInv
  <2>1. PinnedImage /\ PinnedDisks
    BY DEF PinInv
  <2>2. image = "absent"
    BY <1>2, <2>1 DEF PinnedImage
  <2>3. \A w \in Machine : place(w)' \notin 17 .. 22
    <3>1. ASSUME NEW w \in Machine \ {v} PROVE place(w) \notin 17 .. 22
      BY <1>2, <2>1, <2>2 DEF PinnedImage
    <3> QED
      BY <3>1
  <2>4. PinnedImage'
    BY <2>2, <2>3 DEF PinnedImage
  <2> QED
    BY <2>1, <2>4
<1> QED
  BY <1>1, <1>2

LEMMA OverlayPlace ==
  ASSUME NEW x, NEW b, NEW m \in Nat, NewPlace(x, b, m, m + 1)
  PROVE  x = 22
<1>1. x \in 1 .. 22 /\ (x >= 16 <=> m + 1 - m \in 1 .. 7) /\ (x >= 15 => m + 1 = m + 23 - x)
  BY DEF NewPlace, Place
<1> QED
  BY <1>1

LEMMA BaseTherePins ==
  ASSUME MachineInv, PinInv, NEW v \in Machine, BaseThere(v)
  PROVE  PinInv'
<1> SUFFICES ASSUME Digest = "pinned", ~spoilt' PROVE PinnedImage' /\ PinnedDisks'
  BY DEF PinInv
<1>1. /\ At(v, "base") /\ task[v].todo # <<>> /\ Head(task[v].todo) = "base"
      /\ ~spoilt /\ ~Overlaps(v) /\ image' = image /\ raw' = raw /\ disk' = disk
  BY DEF BaseThere, At
<1>2. PinnedImage /\ PinnedDisks
  BY <1>1 DEF PinInv
<1>3. place(v) = 16 /\ \A w \in Machine \ {v} : place(w) \notin 17 .. 21
  BY <1>1, PlaceOf, PlaceOverlaps, NumberIs
<1>4. image \in {"absent", "whole"}
  BY <1>2, <1>3 DEF PinnedImage
<1>5. PinnedDisks'
  BY <1>1, <1>2 DEF PinnedDisks
<1>6. CASE image # "absent" /\ DoneAll(v, Len(ensure_base_image))
  <2> DEFINE t == task[v]
             t2 == [t EXCEPT !.todo = SubSeq(@, 7, Len(@))]
             m == Since(t.op, conf[v])
  <2>1. Len(ensure_base_image) + 1 = 7
    BY DEF ensure_base_image
  <2>2. task' = [task EXCEPT ![v] = t2]
    BY <1>6, <2>1 DEF DoneAll
  <2>3. Local(t, disk[v], guest[v], conf[v])
    BY DEF MachineInv
  <2>4. Local(t2, disk[v], guest[v], conf[v]) /\ t.op \in Making /\ Len(t.todo) = m + 7
    BY <1>1, <2>3, LocalSkips
  <2>5. t2.op = t.op /\ t2.todo = SubSeq(t.todo, 7, Len(t.todo)) /\ t.todo \in Seq(Steps)
    BY <2>3 DEF Local, LocalTypes, Task
  <2>6. m \in Nat
    BY <2>4 DEF Since
  <2>7. t2.todo # <<>> /\ Len(t2.todo) = m + 1
    <3> HIDE DEF t, t2, m
    <3>1. Len(t2.todo) = m + 1
      BY <2>4, <2>5, <2>6
    <3> QED
      BY <2>6, <3>1
  <2> HIDE DEF t2
  <2>8. number[Head(t2.todo)] = 22
    <3> DEFINE all == plan(t2.op, Provisioned(conf[v]))
    <3>1. number[Head(t2.todo)] = step(all, m + 1) /\ m + 1 \in 1 .. Len(all)
      BY <2>4, <2>7, NextStep
    <3>2. NewPlace(step(all, m + 1), Behind(t.op, conf[v]), m, m + 1)
      BY <2>4, <2>5, <3>1, MakingPlace
    <3> QED
      BY <2>6, <3>1, <3>2, OverlayPlace
  <2>9. task'[v] = t2 /\ \A w \in Machine \ {v} : task'[w] = task[w]
    BY <2>2 DEF MachineInv, TypeOK
  <2>10. place(v)' = 22 /\ \A w \in Machine \ {v} : place(w)' = place(w)
    BY <2>7, <2>8, <2>9 DEF place
  <2>11. image' = "whole"
    BY <1>1, <1>4, <1>6
  <2>12. \A w \in Machine : place(w)' \notin 17 .. 21
    BY <1>3, <2>10
  <2>13. \A w \in Machine : place(w)' # 20 /\ place(w)' # 21 /\ place(w)' \notin 17 .. 20
    BY <2>12
  <2>14. PinnedImage'
    BY <2>11, <2>12, <2>13 DEF PinnedImage
  <2> QED
    BY <1>5, <2>14
<1>7. CASE image = "absent" /\ Done(v)
  <2>1. place(v)' = 17 /\ \A w \in Machine \ {v} : place(w)' = place(w)
    BY <1>1, <1>3, <1>7, DonePlace
  <2>2. \A w \in Machine \ {v} : place(w)' \notin 17 .. 22
    <3>1. ASSUME NEW w \in Machine \ {v} PROVE place(w) # 22
      BY <1>2, <1>7 DEF PinnedImage
    <3> QED
      BY <1>3, <2>1, <3>1
  <2>3. image' = "absent"
    BY <1>1, <1>7
  <2>4. PinnedImage'
    BY <2>1, <2>2, <2>3 DEF PinnedImage
  <2> QED
    BY <1>5, <2>4
<1> QED
  BY <1>6, <1>7 DEF BaseThere

\* The command at the image goes on: no other is there, nor about to make a disk.
LEMMA Alone ==
  ASSUME PinnedImage, NEW v \in Machine, place(v) \in 17 .. 21,
         \A w \in Machine \ {v} : place(w)' = place(w)
  PROVE  \A w \in Machine \ {v} : place(w)' \notin 17 .. 22
<1>1. ASSUME NEW w \in Machine \ {v} PROVE place(w) \notin 17 .. 21 /\ place(w) # 22
  BY DEF PinnedImage
<1> QED
  BY <1>1

LEMMA DownloadPins ==
  ASSUME MachineInv, PinInv, NEW v \in Machine, _download_file(v)
  PROVE  PinInv'
<1> SUFFICES ASSUME Digest = "pinned", ~spoilt' PROVE PinnedImage' /\ PinnedDisks'
  BY DEF PinInv
<1>1. PICK x \in {"fetch", "fetched"} : At(v, x)
  BY DEF _download_file
<1>2. Done(v) /\ ~spoilt /\ image' = image /\ disk' = disk
  BY DEF _download_file
<1>3. PinnedImage /\ PinnedDisks
  BY <1>2 DEF PinInv
<1>4. place(v) \in {17, 18} /\ task[v].todo # <<>>
  BY <1>1, PlaceOf, NumberIs DEF At
<1>5. place(v)' \in {18, 19} /\ \A w \in Machine \ {v} : place(w)' = place(w)
  BY <1>2, <1>4, DonePlace
<1>6. \A w \in Machine \ {v} : place(w)' \notin 17 .. 22
  BY <1>3, <1>4, <1>5, Alone
<1>7. image' = "absent"
  BY <1>2, <1>3, <1>4 DEF PinnedImage
<1>8. PinnedImage'
  BY <1>5, <1>6, <1>7 DEF PinnedImage
<1> QED
  BY <1>2, <1>3, <1>8 DEF PinnedDisks

LEMMA VerifyPins ==
  ASSUME MachineInv, PinInv, NEW v \in Machine, _verify_sha256(v)
  PROVE  PinInv'
<1>1. At(v, "verify") /\ spoilt' = spoilt /\ image' = image /\ raw' = raw /\ disk' = disk
  BY DEF _verify_sha256, store
<1>2. place(v) = 19 /\ task[v].todo # <<>>
  BY <1>1, PlaceOf, NumberIs DEF At
<1>3. PinnedDisks => PinnedDisks'
  BY <1>1 DEF PinnedDisks
<1>4. CASE Fails(v)
  BY <1>1, <1>2, <1>3, <1>4, FailsPlace, LeavesImage
<1>5. CASE Done(v) /\ (Digest = "pinned" => raw = "whole")
  <2> SUFFICES ASSUME Digest = "pinned", ~spoilt' PROVE PinnedImage' /\ PinnedDisks'
    BY DEF PinInv
  <2>1. PinnedImage /\ PinnedDisks
    BY <1>1 DEF PinInv
  <2>2. place(v)' = 20 /\ \A w \in Machine \ {v} : place(w)' = place(w)
    BY <1>2, <1>5, DonePlace
  <2>3. \A w \in Machine \ {v} : place(w)' \notin 17 .. 22
    BY <1>2, <2>1, <2>2, Alone
  <2>4. image' = "absent" /\ raw' = "whole"
    BY <1>1, <1>2, <1>5, <2>1 DEF PinnedImage
  <2>5. PinnedImage'
    BY <2>2, <2>3, <2>4 DEF PinnedImage
  <2> QED
    BY <1>3, <2>1, <2>5
<1> QED
  BY <1>4, <1>5 DEF _verify_sha256

LEMMA ConvertPins ==
  ASSUME MachineInv, PinInv, NEW v \in Machine, Convert(v)
  PROVE  PinInv'
<1> SUFFICES ASSUME Digest = "pinned", ~spoilt' PROVE PinnedImage' /\ PinnedDisks'
  BY DEF PinInv
<1>1. ~spoilt /\ disk' = disk
  BY DEF Convert
<1>2. PinnedImage /\ PinnedDisks
  BY <1>1 DEF PinInv
<1>3. PinnedDisks'
  BY <1>1, <1>2 DEF PinnedDisks
<1>4. CASE At(v, "convert") /\ raw' = raw
           /\ IF raw = "absent" THEN Fails(v) /\ UNCHANGED image ELSE Done(v) /\ image' = "partial"
  <2>1. place(v) = 20 /\ task[v].todo # <<>>
    BY <1>4, PlaceOf, NumberIs DEF At
  <2>2. raw = "whole"
    BY <1>2, <2>1 DEF PinnedImage
  <2>3. Done(v) /\ image' = "partial" /\ raw' = "whole"
    BY <1>4, <2>2
  <2>4. place(v)' = 21 /\ \A w \in Machine \ {v} : place(w)' = place(w)
    BY <2>1, <2>3, DonePlace
  <2>5. \A w \in Machine \ {v} : place(w)' \notin 17 .. 22
    BY <1>2, <2>1, <2>4, Alone
  <2>6. PinnedImage'
    BY <2>3, <2>4, <2>5 DEF PinnedImage
  <2> QED
    BY <1>3, <2>6
<1>5. CASE At(v, "converted") /\ Done(v)
           /\ image' \in IF spoilt THEN {"partial", "wrong", "whole"} ELSE {raw}
  <2>1. place(v) = 21 /\ task[v].todo # <<>>
    BY <1>5, PlaceOf, NumberIs DEF At
  <2>2. raw = "whole"
    BY <1>2, <2>1 DEF PinnedImage
  <2>3. image' = "whole"
    BY <1>1, <1>5, <2>2
  <2>4. place(v)' = 22 /\ \A w \in Machine \ {v} : place(w)' = place(w)
    BY <1>5, <2>1, DonePlace
  <2>5. \A w \in Machine \ {v} : place(w)' \notin 17 .. 22
    BY <1>2, <2>1, <2>4, Alone
  <2>6. PinnedImage'
    BY <2>3, <2>4, <2>5 DEF PinnedImage
  <2> QED
    BY <1>3, <2>6
<1> QED
  BY <1>4, <1>5 DEF Convert

LEMMA OverlayPins ==
  ASSUME MachineInv, PinInv, NEW v \in Machine, create_overlay(v)
  PROVE  PinInv'
<1> DEFINE d == [base |-> image, booted |-> FALSE, work |-> FALSE,
                 trusted |-> FALSE, has |-> [s \in Setting |-> 0]]
<1>1. /\ At(v, "overlay") /\ Done(v) /\ disk' = [disk EXCEPT ![v] = d]
      /\ spoilt' = spoilt /\ image' = image /\ raw' = raw
  BY DEF create_overlay, store
<1>2. place(v) = 22 /\ task[v].todo # <<>>
  BY <1>1, PlaceOf, NumberIs DEF At
<1>3. place(v)' \notin 17 .. 22 /\ \A w \in Machine \ {v} : place(w)' = place(w)
  BY <1>1, <1>2, DonePlace
<1>4. ASSUME Digest = "pinned", ~spoilt, PinnedDisks PROVE PinnedDisks'
  <2>1. d.base = "whole"
    BY <1>2, <1>4 DEF PinInv, PinnedImage
  <2> HIDE DEF d
  <2>2. ASSUME NEW w \in Machine, disk'[w] # None PROVE disk'[w].base = "whole"
    BY <1>1, <1>4, <2>1, <2>2, MachineTypes DEF PinnedDisks
  <2> QED
    BY <2>2 DEF PinnedDisks
<1>5. CASE Digest = "pinned" /\ ~spoilt
  <2>1. PinnedDisks => PinnedDisks'
    BY <1>4, <1>5
  <2> QED
    BY <1>1, <1>2, <1>3, <2>1, AwayFromImage
<1>6. CASE ~(Digest = "pinned" /\ ~spoilt)
  BY <1>1, <1>6 DEF PinInv
<1> QED
  BY <1>5, <1>6

\* A disk that a step keeps is on the same image.
LEMMA SameBases ==
  ASSUME PinnedDisks, NEW v \in Machine, MachineInv,
         \E d : disk' = [disk EXCEPT ![v] = d] /\ (d = None \/ (disk[v] # None /\ d.base = disk[v].base))
  PROVE  PinnedDisks'
<1>1. PICK d : disk' = [disk EXCEPT ![v] = d] /\ (d = None \/ (disk[v] # None /\ d.base = disk[v].base))
  OBVIOUS
<1>2. ASSUME NEW w \in Machine, disk'[w] # None PROVE disk'[w].base = "whole"
  <2>1. CASE w = v
    BY <1>1, <1>2, <2>1, MachineTypes DEF PinnedDisks
  <2>2. CASE w # v
    BY <1>1, <1>2, <2>2, MachineTypes DEF PinnedDisks
  <2> QED
    BY <2>1, <2>2
<1> QED
  BY <1>2 DEF PinnedDisks

\* A step of the machine that is neither at the image nor at the overlay.
LEMMA OtherDonePins ==
  ASSUME MachineInv, PinInv, NEW v \in Machine, NEW x, At(v, x), number[x] <= 15, number[x] \in Int,
         Done(v) \/ Fails(v), UNCHANGED store, PinnedDisks => PinnedDisks'
  PROVE  PinInv'
<1>1. place(v) = number[x] /\ task[v].todo # <<>>
  BY PlaceOf DEF At
<1>2. place(v) \notin 17 .. 21 /\ place(v) \notin 16 .. 21
  BY <1>1
<1>3. place(v)' \notin 17 .. 22 /\ \A w \in Machine \ {v} : place(w)' = place(w)
  <2>1. CASE Done(v)
    BY <1>1, <1>2, <2>1, DonePlace
  <2>2. CASE Fails(v)
    BY <2>2, FailsPlace
  <2> QED
    BY <2>1, <2>2
<1> QED
  BY <1>2, <1>3, AwayFromImage DEF store

\* Written settings leave the disk on its image.
LEMMA HasKeepsBases ==
  ASSUME MachineInv, NEW v \in Machine, disk[v] \in Disk, disk[v] # None, NEW has,
         disk' = [disk EXCEPT ![v].has = has]
  PROVE  PinnedDisks => PinnedDisks'
<1> DEFINE d == [disk[v] EXCEPT !.has = has]
<1>1. disk' = [disk EXCEPT ![v] = d] /\ d.base = disk[v].base
  BY DEF Disk
<1> HIDE DEF d
<1> QED
  BY <1>1, SameBases

\* Before the way to a new disk there is no step of it.
LEMMA NoPlaceAbove ==
  ASSUME NEW x, NEW b, NEW m \in Nat, NEW n \in Nat, NewPlace(x, b, m, n), n > m + 6
  PROVE  x \notin 17 .. 22
BY DEF NewPlace

LEMMA MoveAwayPins ==
  ASSUME MachineInv, PinInv, NEW v \in Machine, MoveAway(v)
  PROVE  PinInv'
<1>1. At(v, "away") /\ Done(v) /\ UNCHANGED store /\ disk' = [disk EXCEPT ![v] = None]
  BY DEF MoveAway
<1>2. PinnedDisks => PinnedDisks'
  BY <1>1, SameBases
<1>3. number["away"] = 15
  BY NumberIs
<1> QED
  BY <1>1, <1>2, <1>3, OtherDonePins

LEMMA LaunchPins ==
  ASSUME MachineInv, PinInv, NEW v \in Machine, Launch(v)
  PROVE  PinInv'
<1>1. At(v, "launch") /\ (Done(v) \/ Fails(v)) /\ UNCHANGED store
  BY DEF Launch
<1>2. CASE disk' = disk
  BY <1>1, <1>2, NumberIs, OtherDonePins DEF PinnedDisks
<1>3. CASE disk[v] # None /\ disk' = [disk EXCEPT ![v].booted = TRUE]
  <2> DEFINE d == [disk[v] EXCEPT !.booted = TRUE]
  <2>1. disk[v] \in Disk
    BY <1>3, MachineTypes
  <2>2. disk' = [disk EXCEPT ![v] = d] /\ d.base = disk[v].base
    BY <1>3, <2>1 DEF Disk
  <2> HIDE DEF d
  <2>3. PinnedDisks => PinnedDisks'
    BY <1>3, <2>2, SameBases
  <2> QED
    BY <1>1, <2>3, NumberIs, OtherDonePins
<1> QED
  BY <1>2, <1>3 DEF Launch

LEMMA HaltPins ==
  ASSUME MachineInv, PinInv, NEW v \in Machine, Halt(v)
  PROVE  PinInv'
<1>1. At(v, "halt") /\ Done(v) /\ UNCHANGED <<store, disk>>
  BY DEF Halt
<1> QED
  BY <1>1, NumberIs, OtherDonePins DEF PinnedDisks

LEMMA InGuestPins ==
  ASSUME MachineInv, PinInv, NEW v \in Machine, apply_host_shares(v) \/ _apply_mounts(v)
  PROVE  PinInv'
<1>1. PICK x \in {"shares", "mounts"} : At(v, x) /\ Done(v) /\ UNCHANGED <<store, disk>>
  BY DEF apply_host_shares, _apply_mounts, InGuest
<1>2. number[x] \in {10, 11}
  BY NumberIs
<1> QED
  BY <1>1, <1>2, OtherDonePins DEF PinnedDisks

LEMMA ProvisionPins ==
  ASSUME MachineInv, PinInv, NEW v \in Machine, provision_guest(v)
  PROVE  PinInv'
<1>1. InGuest(v, "provision") /\ At(v, "provision") /\ UNCHANGED store
  BY DEF provision_guest, InGuest
<1>2. CASE Fails(v) /\ disk' = disk
  BY <1>1, <1>2, NumberIs, OtherDonePins DEF PinnedDisks
<1>3. CASE disk' = [disk EXCEPT ![v].work = TRUE, ![v].trusted = conf[v].provision = "guard"] /\ Done(v)
  <2> DEFINE d == [disk[v] EXCEPT !.work = TRUE, !.trusted = conf[v].provision = "guard"]
  <2>1. disk[v] \in Disk /\ disk \in [Machine -> Disk \union {None}]
    BY <1>1, InGuestIs, MachineTypes
  <2>2. disk' = [disk EXCEPT ![v] = d] /\ d.base = disk[v].base
    BY <1>3, <2>1 DEF Disk
  <2> HIDE DEF d
  <2>3. PinnedDisks /\ disk[v] # None => PinnedDisks'
    BY <2>2, SameBases
  <2>4. disk[v] # None
    BY <2>1, ConfAssumption
  <2> QED
    BY <1>1, <1>3, <2>3, <2>4, NumberIs, OtherDonePins
<1> QED
  BY <1>2, <1>3 DEF provision_guest

LEMMA ApplyPins ==
  ASSUME MachineInv, PinInv, NEW v \in Machine, NEW s \in Setting, Apply(v, s)
  PROVE  PinInv'
<1>1. InGuest(v, s) /\ At(v, s) /\ UNCHANGED store /\ (Done(v) \/ Fails(v))
  BY DEF Apply, InGuest
<1>2. number[s] <= 15 /\ number[s] \in Int
  BY SettingNumbers
<1>3. PinnedDisks => PinnedDisks'
  <2>1. CASE disk' = disk
    BY <2>1 DEF PinnedDisks
  <2>2. CASE disk' = [disk EXCEPT ![v].has = written(v, s)]
    <3>1. disk[v] \in Disk /\ disk[v] # None
      BY <1>1, InGuestIs, ConfAssumption
    <3> QED
      BY <2>2, <3>1, HasKeepsBases
  <2> QED
    BY <2>1, <2>2 DEF Apply
<1> QED
  BY <1>1, <1>2, <1>3, OtherDonePins

LEMMA StepFailsPins ==
  ASSUME MachineInv, PinInv, NEW v \in Machine, StepFails(v)
  PROVE  PinInv'
<1>1. /\ task[v].todo # <<>> /\ Fails(v) /\ image' = image /\ raw' = raw
      /\ spoilt' = (spoilt \/ At(v, "converted"))
  BY DEF StepFails
<1>2. PinnedDisks => PinnedDisks'
  <2>1. CASE disk' = disk
    BY <2>1 DEF PinnedDisks
  <2>2. ASSUME NEW s \in Setting, At(v, s), disk' = [disk EXCEPT ![v].has = written(v, s)]
        PROVE  PinnedDisks => PinnedDisks'
    <3>1. disk[v] \in Disk /\ disk[v] # None
      BY <2>2, DiskThere, ConfAssumption
    <3> QED
      BY <2>2, <3>1, HasKeepsBases
  <2> QED
    BY <2>1, <2>2 DEF StepFails
<1>3. place(v) = 21 => At(v, "converted")
  <2> SUFFICES ASSUME place(v) = 21 PROVE At(v, "converted")
    OBVIOUS
  <2>1. Head(task[v].todo) \in Steps
    BY <1>1, NextStep DEF MachineInv
  <2>2. number[Head(task[v].todo)] = number["converted"]
    BY <1>1, NumberIs DEF place
  <2>3. Head(task[v].todo) = "converted"
    BY <2>1, <2>2, NumbersDiffer DEF Steps, ImageStep
  <2> QED
    BY <1>1, <2>3 DEF At
<1>4. place(v)' = 0 /\ \A w \in Machine \ {v} : place(w)' = place(w)
  BY <1>1, FailsPlace
<1> QED
  BY <1>1, <1>2, <1>3, <1>4, LeavesImage

LEMMA GuestDownPins ==
  ASSUME PinInv, NEW v \in Machine, GuestDown(v)
  PROVE  PinInv'
BY DEF GuestDown, store, PinInv, PinnedImage, PinnedDisks, place

LEMMA UnreachablePins ==
  ASSUME MachineInv, PinInv, NEW v \in Machine, Unreachable(v)
  PROVE  PinInv'
<1>1. PICK x \in Setting \union {"shares", "mounts", "provision"} : At(v, x)
  BY DEF Unreachable
<1>2. Fails(v) /\ UNCHANGED <<store, disk>>
  BY DEF Unreachable
<1>3. number[x] <= 15 /\ number[x] \in Int
  BY SettingNumbers, NumberIs
<1> QED
  BY <1>1, <1>2, <1>3, OtherDonePins DEF PinnedDisks

\* No plan begins at the image.
LEMMA RunPins ==
  ASSUME MachineInv, PinInv, NEW v \in Machine,
         NEW op \in {"create", "rebuild", "fresh", "start", "stop"}, Run(v, op)
  PROVE  PinInv'
<1> DEFINE all == plan(op, Provisioned(conf[v]))
           n == Len(all)
<1>1. /\ task[v].todo = <<>> /\ UNCHANGED <<store, disk>>
      /\ \E l, k : task' = [task EXCEPT ![v] = [op |-> op, todo |-> all, last |-> l, left |-> k]]
  BY DEF Run, Provisioned
<1>2. task'[v].todo = all /\ \A w \in Machine \ {v} : task'[w] = task[w]
  BY <1>1 DEF MachineInv, TypeOK
<1>3. all \in Seq(Steps) /\ n \in Nat
  BY PlanType DEF Ops
<1>4. place(v)' \notin 17 .. 22
  <2>1. CASE all = <<>>
    BY <1>2, <2>1 DEF place
  <2>2. CASE all # <<>>
    <3>1. n \in 1 .. Len(all) /\ number[Head(all)] = step(all, n)
      BY <1>3, <2>2, RemainsAll, RemainsHead
    <3>2. place(v)' = step(all, n)
      BY <1>2, <2>2, <3>1 DEF place
    <3>3. CASE op \in Making
      <4> DEFINE b == Behind(op, conf[v])
                 m == Since(op, conf[v])
      <4>1. NewPlace(step(all, n), b, m, n) /\ m \in Nat
        BY <3>1, <3>3, MakingPlace
      <4>2. n > m + 6
        BY <3>3, NewPlan DEF NewPlaces
      <4> HIDE DEF all, n, b, m
      <4>3. step(all, n) \notin 17 .. 22
        BY <1>3, <4>1, <4>2, NoPlaceAbove
      <4> QED
        BY <3>2, <4>3
    <3>4. CASE op = "rebuild"
      <4>1. step(all, n) <= 14
        BY <3>1, <3>4, OldPlan DEF OldPlaces
      <4>2. step(all, n) \in Int
        BY <1>3, <2>2, <3>1, RemainsAll, RemainsHead, NumbersDiffer
      <4> HIDE DEF all, n
      <4> QED
        BY <3>2, <4>1, <4>2
    <3>5. CASE op = "start"
      <4>1. n = 3 /\ step(all, 3) = 12
        BY <3>5, ShortPlans
      <4> HIDE DEF all, n
      <4> QED
        BY <3>2, <4>1
    <3>6. CASE op = "stop"
      <4>1. n = 1 /\ step(all, 1) = 14
        BY <3>6, ShortPlans
      <4> HIDE DEF all, n
      <4> QED
        BY <3>2, <4>1
    <3> QED
      BY <3>3, <3>4, <3>5, <3>6 DEF Making
  <2> QED
    BY <2>1, <2>2
<1>5. place(v) = 0 /\ \A w \in Machine \ {v} : place(w)' = place(w)
  BY <1>1, <1>2 DEF place
<1>6. PinnedDisks => PinnedDisks'
  BY <1>1 DEF PinnedDisks
<1> QED
  BY <1>1, <1>4, <1>5, <1>6, AwayFromImage DEF store

LEMMA EditPins ==
  ASSUME MachineInv, PinInv, NEW v \in Machine, NEW c \in Confs[v], Edit(v, c)
  PROVE  PinInv'
<1>1. task' = [task EXCEPT ![v].last = "edited"] /\ UNCHANGED <<store, disk>>
  BY DEF Edit
<1>2. \A w \in Machine : task'[w].todo = task[w].todo
  <2> DEFINE S == Seq(Steps)
  <2>1. task \in [Machine -> [op : Ops, todo : S, last : Lasts, left : Int]]
    BY DEF MachineInv, TypeOK, Task
  <2> HIDE DEF S
  <2> QED
    BY <1>1, <2>1
<1>3. \A w \in Machine : place(w)' = place(w)
  BY <1>2 DEF place
<1> QED
  BY <1>1, <1>3 DEF store, PinInv, PinnedImage, PinnedDisks

LEMMA InitPins == GuestInit => PinInv
BY DEF GuestInit, PinInv, PinnedImage, PinnedDisks, place

LEMMA NextPins == MachineInv /\ PinInv /\ [GuestNext]_guestVars => PinInv'
<1> SUFFICES ASSUME MachineInv, PinInv, [GuestNext]_guestVars PROVE PinInv'
  OBVIOUS
<1>1. CASE UNCHANGED guestVars
  BY <1>1 DEF guestVars, store, PinInv, PinnedImage, PinnedDisks, place
<1>2. ASSUME NEW v \in Machine, NEW op \in {"create", "rebuild", "fresh", "start", "stop"}, Run(v, op)
      PROVE  PinInv'
  BY <1>2, RunPins
<1>3. ASSUME NEW v \in Machine, NEW c \in Confs[v], Edit(v, c) PROVE PinInv'
  BY <1>3, EditPins
<1>4. ASSUME NEW v \in Machine,
             BaseThere(v) \/ _download_file(v) \/ _verify_sha256(v) \/ Convert(v)
               \/ create_overlay(v) \/ MoveAway(v)
      PROVE  PinInv'
  BY <1>4, BaseTherePins, DownloadPins, VerifyPins, ConvertPins, OverlayPins, MoveAwayPins
<1>5. ASSUME NEW v \in Machine,
             Launch(v) \/ Halt(v) \/ apply_host_shares(v) \/ _apply_mounts(v) \/ provision_guest(v)
      PROVE  PinInv'
  BY <1>5, LaunchPins, HaltPins, InGuestPins, ProvisionPins
<1>6. ASSUME NEW v \in Machine, NEW s \in Setting, Apply(v, s) PROVE PinInv'
  BY <1>6, ApplyPins
<1>7. ASSUME NEW v \in Machine, StepFails(v) \/ GuestDown(v) \/ Unreachable(v) PROVE PinInv'
  BY <1>7, StepFailsPins, GuestDownPins, UnreachablePins
<1> QED
  BY <1>1, <1>2, <1>3, <1>4, <1>5, <1>6, <1>7 DEF GuestNext

\* With a pin, no disk is made on anything but the whole pinned image, however
\* many machines are created at once, unless two commands were at the image
\* together or its conversion was cut short (qemu_images.py ensure_base_image).
THEOREM DisksArePinned == GuestSpec => []DiskOnPinnedImage
<1>1. GuestInit => PinInv
  BY InitPins
<1>2. MachineInv /\ PinInv /\ [GuestNext]_guestVars => PinInv'
  BY NextPins
<1>3. PinInv => DiskOnPinnedImage
  BY DEF PinInv, PinnedDisks, DiskOnPinnedImage
<1> QED
  BY <1>1, <1>2, <1>3, MachineInvariant, PTL DEF GuestSpec
=============================================================================
