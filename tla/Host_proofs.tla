----------------------------- MODULE Host_proofs -----------------------------
(***************************************************************************)
(* What one host's container machines and VPN client keep, whatever the    *)
(* other of the two does: first the client, then the machines.             *)
(*                                                                         *)
(* A start of the VPN client that reports success has the tunnel to show.  *)
(* What the start command sees, one probe after the other, is an interface *)
(* and a process or a line of the log.  That they are of one connection    *)
(* rests on three facts: the client has the interface only while it is up, *)
(* a start during which no other VPN had it finds it free or the client's, *)
(* and between the probes it keeps it unless it ends.                      *)
(***************************************************************************)
EXTENDS Host, SequenceTheorems, FiniteSetTheorems, TLAPS

VpnType ==
  /\ openvpn \in {"down", "connecting", "up"}
  /\ tun \in {"none", "own", "foreign"}
  /\ vpn \in [pc : {"idle", "tunnel", "process", "log"}, early : BOOLEAN, exit : {"none", "ok", "failed"},
              foreign : BOOLEAN, look : {"none", "own", "foreign"}, lost : BOOLEAN, left : Int]

\* The probes that follow the look at the interface.
Looked == vpn.pc \in {"process", "log"}

VpnInv ==
  /\ VpnType
  /\ tun = "own" => openvpn = "up"
  /\ vpn.pc # "idle" => vpn.exit = "none"
  /\ vpn.pc # "idle" /\ ~vpn.foreign => tun # "foreign"
  /\ Looked /\ ~vpn.foreign => vpn.look = "own" /\ (vpn.lost \/ tun = "own")

LEMMA HostInitInv == Init => VpnInv
BY HostAssumption DEF Init, VpnInit, VpnInv, VpnType, Looked

\* A start begins with what it finds.
LEMMA StartKeepsInv ==
  ASSUME VpnInv, _action_start
  PROVE  VpnInv'
<1> DEFINE startable == resolve_vpn_config /\ service.installed /\ (Darwin \/ service.loaded)
           other == tun = "foreign"
           left == vpn.left - 1
           code == IF startable THEN "none" ELSE "failed"
           next == IF startable THEN "tunnel" ELSE "idle"
           early == Darwin
           started == [vpn EXCEPT !.left = left, !.foreign = other, !.exit = code, !.pc = next, !.early = early]
<1>1. vpn' = started /\ tun' = tun /\ openvpn' \in {openvpn, "connecting"} /\ (openvpn # "down" => openvpn' = openvpn)
  BY DEF _action_start
<1>2. /\ early \in BOOLEAN /\ other \in BOOLEAN /\ left \in Int /\ (other <=> tun = "foreign")
      /\ next \in {"idle", "tunnel"} /\ code \in {"none", "failed"} /\ (next # "idle" => code = "none")
  BY DEF Darwin, VpnInv, VpnType
<1> HIDE DEF startable, other, left, code, next, early
<1>3. vpn \in [pc : {"idle", "tunnel", "process", "log"}, early : BOOLEAN, exit : {"none", "ok", "failed"},
              foreign : BOOLEAN, look : {"none", "own", "foreign"}, lost : BOOLEAN, left : Int]
  BY DEF VpnInv, VpnType
<1>4. /\ started \in [pc : {"idle", "tunnel", "process", "log"}, early : BOOLEAN, exit : {"none", "ok", "failed"},
                     foreign : BOOLEAN, look : {"none", "own", "foreign"}, lost : BOOLEAN, left : Int]
      /\ started.foreign = other /\ started.pc = next /\ started.exit = code
  BY <1>2, <1>3, Zenon
<1> HIDE DEF started
<1>5. vpn'.foreign = other /\ vpn'.pc \in {"idle", "tunnel"} /\ (vpn'.pc # "idle" => vpn'.exit = "none")
  BY <1>1, <1>2, <1>4
<1>6. VpnType'
  BY <1>1, <1>4 DEF VpnInv, VpnType
<1> QED
  BY <1>1, <1>2, <1>5, <1>6 DEF VpnInv, Looked

\* The interface is looked at in the first probe of a poll.
LEMMA PollKeepsInv ==
  ASSUME VpnInv, NEW inNetns, _wait_for_vpn_up(inNetns)
  PROVE  VpnInv'
<1> DEFINE verdict == vpn_connected(inNetns)
           again == [vpn EXCEPT !.pc = "tunnel", !.look = "none", !.lost = FALSE]
<1>1. verdict \in {"yes", "no", "process", "log"} /\ (verdict \in {"process", "log"} =>
        (verdict = "process" <=> vpn.pc = "tunnel") /\ (verdict = "process" => tun # "none")
        /\ (verdict = "log" <=> vpn.pc = "process"))
  BY DEF _wait_for_vpn_up, vpn_connected, tunnel_interface_up, VpnInv, VpnType
<1>2. /\ verdict = "yes" => vpn' = AtRest("ok") /\ UNCHANGED <<openvpn, tun>>
      /\ verdict = "no" /\ vpn.early
           => vpn' = [vpn EXCEPT !.pc = "tunnel", !.early = FALSE, !.look = "none", !.lost = FALSE]
                /\ _darwin_kickstart
      /\ verdict = "no" /\ ~vpn.early
           => vpn' \in {AtRest("failed"), again} /\ UNCHANGED <<openvpn, tun>>
      /\ verdict \in {"process", "log"}
           => /\ vpn' = IF vpn.pc = "tunnel" THEN [vpn EXCEPT !.pc = verdict, !.look = tun, !.lost = FALSE]
                        ELSE [vpn EXCEPT !.pc = verdict]
              /\ UNCHANGED <<openvpn, tun>>
  <2>0. vpn.early \in BOOLEAN
    BY DEF VpnInv, VpnType
  <2> QED
    BY <2>0 DEF _wait_for_vpn_up
<1>3. vpn.pc # "idle"
  BY DEF _wait_for_vpn_up
<1> HIDE DEF verdict, again
<1>4. CASE verdict = "yes"
  BY <1>2, <1>4 DEF AtRest, VpnInv, VpnType, Looked
<1>5. CASE verdict = "no" /\ vpn.early
  <2>1. openvpn' \in {openvpn, "connecting"} /\ tun' \in {tun, "none"} /\ (tun' = "own" => openvpn' = openvpn /\ tun = "own")
    BY <1>2, <1>5 DEF _darwin_kickstart, VpnInv, VpnType
  <2>2. vpn' = [vpn EXCEPT !.pc = "tunnel", !.early = FALSE, !.look = "none", !.lost = FALSE]
    BY <1>2, <1>5
  <2> QED
    BY <1>3, <2>1, <2>2 DEF VpnInv, VpnType, Looked
<1>6. CASE verdict = "no" /\ ~vpn.early
  <2>1. CASE vpn' = AtRest("failed")
    BY <1>2, <1>6, <2>1 DEF AtRest, VpnInv, VpnType, Looked
  <2>2. CASE vpn' = again
    BY <1>2, <1>3, <1>6, <2>2 DEF again, VpnInv, VpnType, Looked
  <2> QED
    BY <1>2, <1>6, <2>1, <2>2
<1>7. CASE verdict \in {"process", "log"}
  <2>1. CASE vpn.pc = "tunnel"
    <3>1. vpn' = [vpn EXCEPT !.pc = "process", !.look = tun, !.lost = FALSE] /\ UNCHANGED <<openvpn, tun>>
          /\ tun # "none"
      BY <1>1, <1>2, <1>7, <2>1
    <3> QED
      BY <2>1, <3>1 DEF VpnInv, VpnType, Looked
  <2>2. CASE vpn.pc # "tunnel"
    <3>1. vpn' = [vpn EXCEPT !.pc = "log"] /\ UNCHANGED <<openvpn, tun>> /\ vpn.pc = "process"
      BY <1>1, <1>2, <1>7, <2>2
    <3> QED
      BY <3>1 DEF VpnInv, VpnType, Looked
  <2> QED
    BY <2>1, <2>2
<1>8. verdict = "yes" \/ verdict = "no" \/ verdict \in {"process", "log"}
  BY <1>1
<1> QED
  BY <1>4, <1>5, <1>6, <1>7, <1>8, Zenon

\* A client that ends takes the interface with it, and the poll has lost it.
LEMMA EndsKeepsInv ==
  ASSUME VpnInv, NEW written \in BOOLEAN, NEW next \in {"down", "connecting"}, Ends(written, next)
  PROVE  VpnInv'
BY DEF Ends, VpnInv, VpnType, Looked

\* The daemon and other VPNs leave the interface with who has it.
LEMMA NetworkKeepsInv ==
  ASSUME VpnInv, _install_service \/ _stop_service \/ Connects \/ Dies \/ ForeignVpn \/ FilesChange
  PROVE  VpnInv'
<1>1. CASE _install_service
  BY <1>1 DEF _install_service, VpnInv, VpnType, Looked
<1>2. CASE _stop_service
  <2>1. CASE Ends(TRUE, "down")
    BY <2>1, EndsKeepsInv
  <2>2. CASE UNCHANGED <<openvpn, tun, log, vpn>>
    BY <2>2 DEF VpnInv, VpnType, Looked
  <2> QED
    BY <1>2, <2>1, <2>2 DEF _stop_service
<1>3. CASE Connects
  BY <1>3 DEF Connects, VpnInv, VpnType, Looked
<1>4. CASE Dies
  BY <1>4, EndsKeepsInv DEF Dies
<1>5. CASE ForeignVpn
  BY <1>5 DEF ForeignVpn, VpnInv, VpnType, Looked
<1>6. CASE FilesChange
  BY <1>6 DEF FilesChange, VpnInv, VpnType, Looked
<1> QED
  BY <1>1, <1>2, <1>3, <1>4, <1>5, <1>6

LEMMA HostStepInv == VpnInv /\ [Next]_hostVars => VpnInv'
<1> SUFFICES ASSUME VpnInv, [Next]_hostVars PROVE VpnInv'
  OBVIOUS
<1>1. CASE UNCHANGED vpnVars
  BY <1>1 DEF vpnVars, VpnInv, VpnType, Looked
<1>2. CASE VpnStep(netns)
  BY <1>2, StartKeepsInv, PollKeepsInv, NetworkKeepsInv DEF VpnStep
<1>3. CASE VpnReboot
  BY <1>3 DEF VpnReboot, AtRest, VpnInv, VpnType, Looked
<1> QED
  BY <1>1, <1>2, <1>3 DEF Next, hostVars

\* A start that polls has not reported, and reports only after a look at the
\* interface.
LEMMA OnlyThePollReports ==
  ASSUME VpnInv, [Next]_hostVars, vpn.pc # "idle", vpn'.exit = "ok"
  PROVE  Looked
<1>1. vpn.exit # "ok"
  BY DEF VpnInv
<1>2. CASE UNCHANGED vpnVars
  BY <1>1, <1>2 DEF vpnVars
<1>3. CASE VpnReboot
  BY <1>3 DEF VpnReboot, AtRest, VpnInv, VpnType
<1>4. CASE VpnStep(netns)
  <2>1. CASE _wait_for_vpn_up(netns)
    <3> DEFINE verdict == vpn_connected(netns)
    <3>1. verdict = "yes"
      <4> HIDE DEF verdict
      <4>1. verdict # "yes" => vpn'.exit = vpn.exit \/ vpn'.exit = "failed"
        BY <2>1 DEF _wait_for_vpn_up, AtRest, VpnInv, VpnType, verdict
      <4> QED
        BY <1>1, <4>1
    <3> QED
      BY <3>1 DEF vpn_connected, Looked, VpnInv, VpnType
  <2>2. CASE ForeignVpn \/ _stop_service \/ Dies
    <3>1. vpn'.exit = vpn.exit
      BY <2>2 DEF ForeignVpn, _stop_service, Dies, Ends, VpnInv, VpnType
    <3> QED
      BY <1>1, <3>1
  <2>3. CASE _install_service \/ Connects \/ FilesChange
    BY <1>1, <2>3 DEF _install_service, Connects, FilesChange
  <2> QED
    BY <1>4, <2>1, <2>2, <2>3 DEF VpnStep, _action_start
<1> QED
  BY <1>2, <1>3, <1>4 DEF Next, hostVars

\* The start that reports success found the interface the workspace's own in
\* the poll it reports, and its client has the tunnel still unless it ended
\* between the probes of that poll; starts during which another VPN had the
\* interface are excepted (run_openvpn_client.py _start_daemon,
\* _wait_for_vpn_up, vpn_core.py vpn_connected).
THEOREM SuccessHasTunnel == Spec => StartHasTunnel
<1>1. ASSUME VpnInv, [Next]_hostVars
      PROVE  [vpn.pc # "idle" /\ vpn'.exit = "ok" /\ ~vpn.foreign
                => vpn.look = "own" /\ (vpn.lost \/ (tun = "own" /\ openvpn = "up"))]_vpnVars
  BY <1>1, OnlyThePollReports DEF VpnInv
<1> QED
  BY <1>1, HostInitInv, HostStepInv, PTL DEF Spec, StartHasTunnel

-----------------------------------------------------------------------------
(***************************************************************************)
(* Container machines.  What a machine's command still has to do says what  *)
(* its container and its line in /etc/hosts can be: the steps after the     *)
(* container was removed find none, the steps after the line was removed    *)
(* find none.  A command that has failed may leave either behind, and it is *)
(* then not "ok" until a later one has got past the step that removes it.   *)
(***************************************************************************)

Steps == {"stage", "build", "prepare", "run", "inspect", "rmForce", "readHosts", "writeHosts",
          "rm", "rmi", "rmVolumes", "dropPid", "podmanStart", "writePid", "podmanStop", "signal"}

\* The step that todo begins with, if it has one.
Front(todo, steps) == todo # <<>> /\ Head(todo) \in steps

\* What may follow a step.
following == [step \in Steps |->
  CASE step = "stage" -> {"build"}
    [] step = "build" -> {"prepare"}
    [] step = "prepare" -> {"run"}
    [] step = "run" -> {"inspect"}
    [] step \in {"rmForce", "rmi"} -> {"readHosts"}
    [] step = "readHosts" -> {"writeHosts"}
    [] step = "writeHosts" -> {"stage", "rmVolumes", "dropPid"}
    [] step = "rm" -> {"rmi"}
    [] step \in {"rmVolumes", "podmanStop"} -> {"dropPid"}
    [] step = "podmanStart" -> {"writePid"}
    [] OTHER -> {}]

\* Steps of which each may follow the one before; the last ends its plan.
Linked(steps) ==
  steps \in Seq(Steps) /\ \A i \in 1 .. Len(steps) - 1 : steps[i + 1] \in following[steps[i]]

Lineup(todo) == Linked(todo) /\ (todo # <<>> => following[todo[Len(todo)]] = {})

LEMMA TailOf ==
  ASSUME NEW S, NEW s \in Seq(S), s # <<>>
  PROVE  /\ Len(s) \in Nat \ {0} /\ Head(s) = s[1] /\ s[1] \in S
         /\ Tail(s) \in Seq(S) /\ Len(Tail(s)) = Len(s) - 1
         /\ \A i \in 1 .. Len(s) - 1 : Tail(s)[i] = s[i + 1]
         /\ IF Len(s) = 1 THEN Tail(s) = <<>>
            ELSE Tail(s) # <<>> /\ Head(Tail(s)) = s[2] /\ Tail(s)[Len(Tail(s))] = s[Len(s)]
<1>1. Len(s) \in Nat \ {0} /\ Head(s) = s[1] /\ s[1] \in S
  OBVIOUS
<1>2. Tail(s) \in Seq(S) /\ Len(Tail(s)) = Len(s) - 1 /\ \A i \in 1 .. Len(Tail(s)) : Tail(s)[i] = s[i + 1]
  BY HeadTailProperties
<1>3. CASE Len(s) = 1
  <2> DEFINE t == Tail(s)
  <2>0. t \in Seq(S) /\ Len(t) = 0
    BY <1>2, <1>3
  <2> HIDE DEF t
  <2>1. Tail(s) = <<>>
    BY <2>0, EmptySeq DEF t
  <2> QED
    BY <1>1, <1>2, <1>3, <2>1
<1>4. CASE Len(s) # 1
  <2> DEFINE t == Tail(s)
  <2>1. t \in Seq(S) /\ Len(t) \in Nat \ {0} /\ Len(t) = Len(s) - 1 /\ \A i \in 1 .. Len(t) : t[i] = s[i + 1]
    BY <1>1, <1>2, <1>4
  <2> HIDE DEF t
  <2>2. t # <<>> /\ Head(t) = t[1]
    BY <2>1
  <2>3. t[1] = s[2] /\ t[Len(t)] = s[Len(s)]
    BY <1>1, <2>1
  <2>4. Tail(s) # <<>> /\ Head(Tail(s)) = s[2] /\ Tail(s)[Len(Tail(s))] = s[Len(s)]
    BY <2>2, <2>3, Zenon DEF t
  <2> QED
    BY <1>1, <1>2, <1>4, <2>4
<1> QED
  BY <1>3, <1>4

\* A lineup without its first step is a lineup, and begins with a step that
\* may follow it.
LEMMA LineupGoesOn ==
  ASSUME NEW todo, Lineup(todo), todo # <<>>
  PROVE  /\ Head(todo) \in Steps /\ Lineup(Tail(todo))
         /\ IF following[Head(todo)] = {} THEN Tail(todo) = <<>> ELSE Front(Tail(todo), following[Head(todo)])
<1> DEFINE rest == Tail(todo)
<1>1. todo \in Seq(Steps) /\ following[todo[Len(todo)]] = {}
      /\ \A i \in 1 .. Len(todo) - 1 : todo[i + 1] \in following[todo[i]]
  BY DEF Lineup, Linked
<1>2. /\ Len(todo) \in Nat \ {0} /\ Head(todo) = todo[1] /\ todo[1] \in Steps
      /\ rest \in Seq(Steps) /\ Len(rest) = Len(todo) - 1
      /\ \A i \in 1 .. Len(todo) - 1 : rest[i] = todo[i + 1]
      /\ IF Len(todo) = 1 THEN rest = <<>>
         ELSE rest # <<>> /\ Head(rest) = todo[2] /\ rest[Len(rest)] = todo[Len(todo)]
  BY <1>1, TailOf
<1> HIDE DEF rest
<1>3. Linked(rest)
  <2>1. ASSUME NEW i \in 1 .. Len(rest) - 1 PROVE rest[i + 1] \in following[rest[i]]
    <3>1. i \in 1 .. Len(todo) - 1 /\ i + 1 \in 1 .. Len(todo) - 1
      BY <1>2
    <3>2. rest[i] = todo[i + 1] /\ rest[i + 1] = todo[(i + 1) + 1]
      BY <1>2, <3>1
    <3> QED
      BY <1>1, <3>1, <3>2
  <2> QED
    BY <1>2, <2>1 DEF Linked
<1>4. Lineup(rest)
  BY <1>1, <1>2, <1>3 DEF Lineup
<1>5. CASE Len(todo) = 1
  BY <1>1, <1>2, <1>4, <1>5, Zenon DEF rest
<1>6. CASE Len(todo) # 1
  <2>1. todo[2] \in following[todo[1]]
    BY <1>1, <1>2, <1>6
  <2> QED
    BY <1>2, <1>4, <1>6, <2>1, Zenon DEF rest, Front
<1> QED
  BY <1>5, <1>6

LEMMA LineupOfParts ==
  ASSUME NEW first, NEW rest, Linked(first), first # <<>>, Lineup(rest), rest # <<>>,
         rest[1] \in following[first[Len(first)]]
  PROVE  Lineup(first \o rest) /\ first \o rest # <<>> /\ Head(first \o rest) = first[1]
<1> DEFINE all == first \o rest
<1>0. first \in Seq(Steps) /\ rest \in Seq(Steps) /\ Len(first) \in Nat \ {0} /\ Len(rest) \in Nat \ {0}
  BY DEF Lineup, Linked
<1>1. /\ all \in Seq(Steps) /\ Len(all) = Len(first) + Len(rest)
      /\ \A i \in 1 .. Len(all) : all[i] = IF i <= Len(first) THEN first[i] ELSE rest[i - Len(first)]
  BY <1>0
<1>2. ASSUME NEW i \in 1 .. Len(all) - 1 PROVE all[i + 1] \in following[all[i]]
  <2>1. CASE i < Len(first)
    BY <1>0, <1>1, <2>1 DEF Linked
  <2>2. CASE i = Len(first)
    BY <1>0, <1>1, <2>2
  <2>3. CASE i > Len(first)
    <3>1. i - Len(first) \in 1 .. Len(rest) - 1 /\ all[i] = rest[i - Len(first)]
          /\ all[i + 1] = rest[(i - Len(first)) + 1]
      BY <1>0, <1>1, <2>3
    <3> QED
      BY <3>1 DEF Lineup, Linked
  <2> QED
    BY <1>0, <2>1, <2>2, <2>3
<1>3. all[Len(all)] = rest[Len(rest)] /\ all # <<>> /\ Head(all) = first[1]
  BY <1>0, <1>1
<1> QED
  BY <1>1, <1>2, <1>3 DEF Lineup, Linked

LEMMA PlansAreLineups ==
  ASSUME NEW op \in {"create", "rebuild", "start", "stop", "delete", "purge", "kill"}
  PROVE  /\ Lineup(plan(op)) /\ plan(op) # <<>>
         /\ Head(plan(op)) = CASE op = "create" -> "stage"
                               [] op = "rebuild" -> "rmForce"
                               [] op = "start" -> "podmanStart"
                               [] op = "stop" -> "podmanStop"
                               [] op \in {"delete", "purge"} -> "rm"
                               [] op = "kill" -> "signal"
<1>1. Lineup(create) /\ create # <<>> /\ create[1] = "stage"
  BY DEF create, Lineup, Linked, Steps, following
<1>2. CASE op \in {"create", "start", "stop", "kill"}
  <2>1. Lineup(<<"podmanStart", "writePid">>) /\ Lineup(<<"podmanStop", "dropPid">>) /\ Lineup(<<"signal">>)
    BY DEF Lineup, Linked, Steps, following
  <2>2. CASE op = "create"
    BY <1>1, <2>2 DEF plan, create
  <2>3. CASE op \in {"start", "stop", "kill"}
    BY <2>1, <2>3 DEF plan
  <2> QED
    BY <1>2, <2>2, <2>3
<1>3. CASE op = "rebuild"
  <2> DEFINE first == <<"rmForce", "readHosts", "writeHosts">>
  <2>1. Linked(first) /\ first # <<>> /\ first[Len(first)] = "writeHosts" /\ first[1] = "rmForce"
    BY DEF Linked, Steps, following
  <2>2. create[1] \in following["writeHosts"]
    BY <1>1 DEF Steps, following
  <2>3. plan(op) = first \o create
    BY <1>3 DEF plan, rebuild
  <2> QED
    BY <1>1, <1>3, <2>1, <2>2, <2>3, LineupOfParts
<1>4. CASE op \in {"delete", "purge"}
  <2> DEFINE first == <<"rm", "rmi", "readHosts", "writeHosts">>
             volume == <<"rmVolumes">>
             last == <<"dropPid">>
  <2>1. Linked(first) /\ first # <<>> /\ first[Len(first)] = "writeHosts" /\ first[1] = "rm"
    BY DEF Linked, Steps, following
  <2>2. Linked(volume) /\ volume # <<>> /\ volume[Len(volume)] = "rmVolumes" /\ volume[1] = "rmVolumes"
        /\ Lineup(last) /\ last # <<>> /\ last[1] = "dropPid"
    BY DEF Linked, Lineup, Steps, following
  <2>3. "dropPid" \in following["writeHosts"] /\ "rmVolumes" \in following["writeHosts"]
        /\ "dropPid" \in following["rmVolumes"]
    BY DEF Steps, following
  <2>4. CASE op = "delete"
    <3>1. first \o <<>> = first
      OBVIOUS
    <3>2. plan(op) = (first \o <<>>) \o last
      BY <2>4 DEF plan, destroy
    <3>3. plan(op) = first \o last
      BY <3>1, <3>2, Zenon
    <3> HIDE DEF first, last
    <3>4. last[1] \in following[first[Len(first)]]
      BY <2>1, <2>2, <2>3
    <3>5. Lineup(first \o last) /\ first \o last # <<>> /\ Head(first \o last) = "rm"
      BY <2>1, <2>2, <3>4, LineupOfParts
    <3> QED
      BY <1>4, <3>3, <3>5
  <2>5. CASE op = "purge"
    <3>1. plan(op) = (first \o volume) \o last
      BY <2>5 DEF plan, destroy
    <3>2. first \o volume \in Seq(Steps) /\ Len(first \o volume) = 5
          /\ \A i \in 1 .. 5 : (first \o volume)[i] = IF i <= 4 THEN first[i] ELSE "rmVolumes"
      BY <2>1, <2>2 DEF Steps
    <3>3. Linked(first \o volume) /\ (first \o volume)[1] = "rm" /\ (first \o volume)[5] = "rmVolumes"
          /\ first \o volume # <<>>
      <4>0. first[4] = "writeHosts"
        OBVIOUS
      <4> HIDE DEF volume
      <4>1. first \in Seq(Steps) /\ \A i \in 1 .. 3 : first[i + 1] \in following[first[i]]
        BY <2>1 DEF Linked
      <4> HIDE DEF first
      <4>2. ASSUME NEW i \in 1 .. 4 PROVE (first \o volume)[i + 1] \in following[(first \o volume)[i]]
        <5>0. i = 4 \/ i \in 1 .. 3
          OBVIOUS
        <5>1. CASE i = 4
          <6>1. (first \o volume)[4] = "writeHosts" /\ (first \o volume)[4 + 1] = "rmVolumes"
            BY <3>2, <4>0
          <6> QED
            BY <5>1, <6>1, <2>3
        <5>2. CASE i \in 1 .. 3
          <6>1. i \in 1 .. 5 /\ i + 1 \in 1 .. 5 /\ i <= 4 /\ i + 1 <= 4
            BY <5>2
          <6>2. (first \o volume)[i] = first[i] /\ (first \o volume)[i + 1] = first[i + 1]
            BY <3>2, <6>1
          <6> QED
            BY <4>1, <5>2, <6>2, Zenon
        <5> QED
          BY <5>0, <5>1, <5>2, Zenon
      <4> QED
        BY <3>2, <4>2, <2>1 DEF Linked
    <3>4. Len(first \o volume) = 5
      BY <3>2
    <3> HIDE DEF first, volume, last
    <3> DEFINE all == first \o volume
    <3>5. last[1] \in following[all[Len(all)]]
      BY <2>2, <2>3, <3>3, <3>4
    <3> HIDE DEF all
    <3>6. Lineup(all \o last) /\ all \o last # <<>> /\ Head(all \o last) = all[1]
      BY <2>2, <3>3, <3>5, LineupOfParts DEF all
    <3> QED
      BY <1>4, <3>1, <3>3, <3>6 DEF all
  <2> QED
    BY <1>4, <2>4, <2>5
<1> QED
  BY <1>2, <1>3, <1>4

-----------------------------------------------------------------------------
(* The invariant.                                                           *)

Ops == {"none", "create", "rebuild", "start", "stop", "delete", "purge", "kill"}
Endings == Steps \union {"ok", "reboot"}

PodType ==
  /\ dir \in [Machine -> [there : BOOLEAN, key : BOOLEAN, pid : Pid \union {None, 0}]]
  /\ ctr \in [Machine -> [state : {"absent", "stopped", "running"},
                          pid : Pid \union {None}, ip : IP \union {None}]]
  /\ cmd \in [Machine -> [op : Ops, todo : Seq(Steps), ended : Endings,
                          read : SUBSET (Machine \X IP), left : Int]]
  /\ hosts \subseteq Machine \X IP

\* A number in the process table is a container's only while it is there.
OwnerInv ==
  /\ owner \in [Pid -> Machine \union {None, "stranger"}]
  /\ \A p \in Pid : owner[p] \in Machine => ctr[owner[p]].state # "absent"

Before(v, steps) == Front(cmd[v].todo, steps)

\* A container runs only until the step that removes or stops it, and again
\* after the one that starts it; the pid file may name another until the next
\* step has written it.
ContainerInv(v) ==
  /\ Lineup(cmd[v].todo)
  /\ ctr[v].state = "absent" => ctr[v].ip = None
  /\ ctr[v].state = "running" => ctr[v].pid \in Pid
  /\ ~dir[v].there => ctr[v].state = "absent" /\ (Idle(v) \/ Before(v, {"stage"}))
  /\ ctr[v].state = "running"
       => Idle(v) \/ Before(v, {"rmForce", "podmanStop", "rm", "signal", "inspect", "writePid"})
  /\ Before(v, {"writePid"}) => ctr[v].state # "absent"
  /\ cmd[v].ended = "ok" /\ ctr[v].state = "running" /\ dir[v].pid # None
       => dir[v].pid = ctr[v].pid \/ Before(v, {"inspect", "writePid"})

Line(v) == \E ip \in IP : <<v, ip>> \in hosts

\* What a machine's line goes with.
OwnLine(v) ==
  /\ \A ip1, ip2 \in IP : <<v, ip1>> \in hosts /\ <<v, ip2>> \in hosts => ip1 = ip2
  /\ Line(v) => dir[v].there /\ ~Before(v, {"stage", "build", "prepare", "run", "inspect", "rmVolumes"})
  /\ Line(v) /\ ctr[v].state = "absent"
       => /\ ~Before(v, {"dropPid"})
          /\ cmd[v].ended # "ok" \/ Before(v, {"rmi", "readHosts", "writeHosts"})

\* A line that could not be removed goes with anything.
LineInv(v) == v \in unwritten \/ OwnLine(v)

\* One command at a time is between reading the file and writing it.
HostsInv ==
  /\ \A v, w \in Machine : Before(v, {"writeHosts"}) /\ Before(w, {"writeHosts"}) => v = w
  /\ \A v \in Machine : Before(v, {"writeHosts"}) => cmd[v].read = hosts
  /\ \A v \in Machine : LineInv(v)

PodInv == PodType /\ OwnerInv /\ (\A v \in Machine : ContainerInv(v)) /\ (~collided => HostsInv)

-----------------------------------------------------------------------------
(* What a step does to its machine's command.                               *)

CmdType == cmd \in [Machine -> [op : Ops, todo : Seq(Steps), ended : Endings,
                                read : SUBSET (Machine \X IP), left : Int]]
CtrType == ctr \in [Machine -> [state : {"absent", "stopped", "running"},
                                pid : Pid \union {None}, ip : IP \union {None}]]
DirType == dir \in [Machine -> [there : BOOLEAN, key : BOOLEAN, pid : Pid \union {None, 0}]]

\* Only what is v's own changes.
OthersKeep(v) ==
  \A w \in Machine \ {v} : cmd'[w] = cmd[w] /\ ctr'[w] = ctr[w] /\ dir'[w] = dir[w]

\* What the step begins with and ends with.
GoesOn(v) ==
  /\ cmd'[v].ended = "ok" /\ cmd'[v].read = cmd[v].read
  /\ IF following[Head(cmd[v].todo)] = {} THEN cmd'[v].todo = <<>>
     ELSE Front(cmd'[v].todo, following[Head(cmd[v].todo)])

Halts(v) ==
  cmd'[v].todo = <<>> /\ cmd'[v].ended \in Steps /\ cmd'[v].read = cmd[v].read

\* A step leaves this much to do, and this is how the command has gone so far.
Moves(v, todo, ended) == cmd' = [cmd EXCEPT ![v].todo = todo, ![v].ended = ended]

\* The record of a command after a step.
LEMMA CmdMoves ==
  ASSUME CmdType, NEW v \in Machine, NEW todo \in Seq(Steps), NEW ended \in Endings,
         Moves(v, todo, ended)
  PROVE  /\ CmdType' /\ \A w \in Machine \ {v} : cmd'[w] = cmd[w]
         /\ cmd'[v].todo = todo /\ cmd'[v].ended = ended /\ cmd'[v].read = cmd[v].read
<1> DEFINE C == [op : Ops, todo : Seq(Steps), ended : Endings, read : SUBSET (Machine \X IP), left : Int]
           c == [[cmd[v] EXCEPT !.todo = todo] EXCEPT !.ended = ended]
<1>1. cmd \in [Machine -> C]
  BY DEF CmdType
<1>2. c \in C /\ c.todo = todo /\ c.ended = ended /\ c.read = cmd[v].read
  <2>1. cmd[v] \in C
    BY <1>1
  <2> DEFINE S == Seq(Steps)
             R == SUBSET (Machine \X IP)
  <2>2. todo \in S /\ cmd[v] \in [op : Ops, todo : S, ended : Endings, read : R, left : Int]
    BY <2>1
  <2> HIDE DEF S, R
  <2>3. c \in [op : Ops, todo : S, ended : Endings, read : R, left : Int]
        /\ c.todo = todo /\ c.ended = ended /\ c.read = cmd[v].read
    BY <2>2
  <2> QED
    BY <2>3 DEF S, R
<1>3. cmd' = [cmd EXCEPT ![v] = c]
  BY <1>1 DEF Moves
<1> HIDE DEF C, c
<1>4. cmd' \in [Machine -> C] /\ cmd'[v] = c /\ \A w \in Machine \ {v} : cmd'[w] = cmd[w]
  BY <1>1, <1>2, <1>3
<1>5. CmdType'
  BY <1>4 DEF CmdType, C
<1> QED
  BY <1>2, <1>4, <1>5

LEMMA StepsAreEndings == Steps \subseteq Endings /\ "ok" \in Endings /\ "ok" \notin Steps
BY DEF Steps, Endings

LEMMA GoGoesOn ==
  ASSUME PodInv, NEW v \in Machine, ~Idle(v), Go(v)
  PROVE  CmdType' /\ GoesOn(v) /\ Lineup(cmd'[v].todo) /\ \A w \in Machine \ {v} : cmd'[w] = cmd[w]
<1>1. cmd[v].todo # <<>> /\ Lineup(cmd[v].todo)
  BY DEF Idle, PodInv, ContainerInv
<1>2. CmdType
  BY DEF PodInv, PodType, CmdType
<1> DEFINE rest == Tail(cmd[v].todo)
<1>3. Lineup(rest) /\ (IF following[Head(cmd[v].todo)] = {} THEN rest = <<>>
                       ELSE Front(rest, following[Head(cmd[v].todo)]))
  BY <1>1, LineupGoesOn
<1>4. rest \in Seq(Steps)
  BY <1>3 DEF Lineup, Linked
<1>5. Moves(v, rest, "ok")
  BY DEF Go, Moves
<1> HIDE DEF rest
<1>6. "ok" \in Endings
  BY StepsAreEndings
<1>7. /\ CmdType' /\ \A w \in Machine \ {v} : cmd'[w] = cmd[w]
      /\ cmd'[v].todo = rest /\ cmd'[v].ended = "ok" /\ cmd'[v].read = cmd[v].read
  BY <1>2, <1>4, <1>5, <1>6, CmdMoves, Zenon
<1> QED
  BY <1>3, <1>7, Zenon DEF GoesOn

LEMMA StopHalts ==
  ASSUME PodInv, NEW v \in Machine, ~Idle(v), Stop(v)
  PROVE  CmdType' /\ Halts(v) /\ \A w \in Machine \ {v} : cmd'[w] = cmd[w]
<1>1. cmd[v].todo # <<>> /\ Lineup(cmd[v].todo)
  BY DEF Idle, PodInv, ContainerInv
<1>2. CmdType
  BY DEF PodInv, PodType, CmdType
<1> DEFINE step == Head(cmd[v].todo)
<1>3. step \in Steps /\ step \in Endings
  BY <1>1, LineupGoesOn, StepsAreEndings
<1>4. Moves(v, <<>>, step)
  BY DEF Stop, Moves
<1> HIDE DEF step
<1>5. <<>> \in Seq(Steps)
  OBVIOUS
<1> QED
  BY <1>2, <1>3, <1>4, <1>5, CmdMoves DEF Halts

-----------------------------------------------------------------------------
(* A step that leaves /etc/hosts alone.                                     *)

LEMMA OthersKeepContainer ==
  ASSUME PodInv, NEW v \in Machine, OthersKeep(v)
  PROVE  \A w \in Machine \ {v} : ContainerInv(w)'
BY DEF PodInv, OthersKeep, ContainerInv, Idle, Before

LEMMA OthersKeepLine ==
  ASSUME HostsInv, NEW v \in Machine, OthersKeep(v), hosts' = hosts, unwritten' = unwritten
  PROVE  \A w \in Machine \ {v} : LineInv(w)'
BY DEF HostsInv, OthersKeep, LineInv, OwnLine, Line, Before

\* Nobody comes to write the file but by having read it.
LEMMA QuietStep ==
  ASSUME PodInv, NEW v \in Machine, OthersKeep(v), hosts' = hosts, collided' = collided /\ unwritten' = unwritten,
         CmdType', CtrType', DirType', OwnerInv', ContainerInv(v)', OwnLine(v) => OwnLine(v)',
         Before(v, {"writeHosts"})' => Before(v, {"writeHosts"}) /\ cmd'[v].read = cmd[v].read
  PROVE  PodInv'
<1>1. PodType'
  BY DEF PodInv, PodType, CmdType, CtrType, DirType
<1>2. \A w \in Machine : ContainerInv(w)'
  BY OthersKeepContainer
<1>3. ASSUME ~collided' PROVE HostsInv'
  <2>1. HostsInv /\ LineInv(v)'
    BY <1>3 DEF PodInv, HostsInv, LineInv
  <2>2. \A w \in Machine : LineInv(w)'
    BY <2>1, OthersKeepLine
  <2>3. \A w \in Machine : Before(w, {"writeHosts"})' => Before(w, {"writeHosts"}) /\ cmd'[w].read = cmd[w].read
    BY DEF OthersKeep, Before
  <2> QED
    BY <2>1, <2>2, <2>3 DEF HostsInv
<1> QED
  BY <1>1, <1>2, <1>3 DEF PodInv

LEMMA FollowingIs ==
  /\ following["stage"] = {"build"} /\ following["build"] = {"prepare"}
  /\ following["prepare"] = {"run"} /\ following["run"] = {"inspect"} /\ following["inspect"] = {}
  /\ following["rmForce"] = {"readHosts"} /\ following["readHosts"] = {"writeHosts"}
  /\ following["writeHosts"] = {"stage", "rmVolumes", "dropPid"}
  /\ following["rm"] = {"rmi"} /\ following["rmi"] = {"readHosts"} /\ following["rmVolumes"] = {"dropPid"}
  /\ following["podmanStart"] = {"writePid"} /\ following["writePid"] = {}
  /\ following["podmanStop"] = {"dropPid"} /\ following["dropPid"] = {} /\ following["signal"] = {}
BY DEF following, Steps

LEMMA EmptyLineup == Lineup(<<>>)
BY DEF Lineup, Linked

LEMMA GoesTo ==
  ASSUME NEW v, ~Idle(v), GoesOn(v)
  PROVE  /\ Before(v, {"stage"}) => Before(v, {"build"})'
         /\ Before(v, {"build"}) => Before(v, {"prepare"})'
         /\ Before(v, {"prepare"}) => Before(v, {"run"})'
         /\ Before(v, {"run"}) => Before(v, {"inspect"})'
         /\ Before(v, {"rmForce"}) => Before(v, {"readHosts"})'
         /\ Before(v, {"readHosts"}) => Before(v, {"writeHosts"})'
         /\ Before(v, {"writeHosts"}) => Before(v, {"stage", "rmVolumes", "dropPid"})'
         /\ Before(v, {"rm"}) => Before(v, {"rmi"})'
         /\ Before(v, {"rmi"}) => Before(v, {"readHosts"})'
         /\ Before(v, {"rmVolumes", "podmanStop"}) => Before(v, {"dropPid"})'
         /\ Before(v, {"podmanStart"}) => Before(v, {"writePid"})'
         /\ Before(v, {"inspect", "writePid", "dropPid", "signal"}) => Idle(v)'
<1> DEFINE h == Head(cmd[v].todo)
           u == cmd'[v].todo
<1>1. IF following[h] = {} THEN u = <<>> ELSE u # <<>> /\ Head(u) \in following[h]
  BY DEF GoesOn, Front
<1>2. \A set : (Before(v, set) <=> h \in set) /\ (Before(v, set)' <=> u # <<>> /\ Head(u) \in set)
  BY DEF Before, Front, Idle
<1>3. Idle(v)' <=> u = <<>>
  BY DEF Idle
<1> DEFINE first == Head(u)
           none == u = <<>>
<1>4. IF following[h] = {} THEN none ELSE ~none /\ first \in following[h]
  BY <1>1
<1>5. \A set : Before(v, set)' <=> ~none /\ first \in set
  BY <1>2
<1> HIDE DEF h, u, first, none
<1>6. /\ h = "stage" => ~none /\ first \in {"build"}
      /\ h = "build" => ~none /\ first \in {"prepare"}
      /\ h = "prepare" => ~none /\ first \in {"run"}
      /\ h = "run" => ~none /\ first \in {"inspect"}
      /\ h = "rmForce" => ~none /\ first \in {"readHosts"}
      /\ h = "readHosts" => ~none /\ first \in {"writeHosts"}
      /\ h = "writeHosts" => ~none /\ first \in {"stage", "rmVolumes", "dropPid"}
      /\ h = "rm" => ~none /\ first \in {"rmi"}
      /\ h = "rmi" => ~none /\ first \in {"readHosts"}
      /\ h \in {"rmVolumes", "podmanStop"} => ~none /\ first \in {"dropPid"}
      /\ h = "podmanStart" => ~none /\ first \in {"writePid"}
      /\ h \in {"inspect", "writePid", "dropPid", "signal"} => none
  BY <1>4, FollowingIs
<1> QED
  BY <1>2, <1>3, <1>5, <1>6 DEF none

LEMMA OwnerStays == PodInv /\ owner' = owner /\ ctr' = ctr => OwnerInv'
BY DEF PodInv, OwnerInv

LEMMA TypesOf == PodInv => CmdType /\ CtrType /\ DirType
BY DEF PodInv, PodType, CmdType, CtrType, DirType

-----------------------------------------------------------------------------
(* The steps of a command one by one.                                       *)

LEMMA CommandKeepsPod ==
  ASSUME PodInv, NEW v \in Machine,
         NEW op \in {"create", "rebuild", "start", "stop", "delete", "purge", "kill"}, Command(v, op)
  PROVE  PodInv'
<1> DEFINE todo == plan(op)
           C == [op : Ops, todo : Seq(Steps), ended : Endings, read : SUBSET (Machine \X IP), left : Int]
           c == [cmd[v] EXCEPT !.op = op, !.todo = todo, !.left = @ - 1]
<1>1. /\ Lineup(todo) /\ todo # <<>>
      /\ Head(todo) = CASE op = "create" -> "stage"
                        [] op = "rebuild" -> "rmForce"
                        [] op = "start" -> "podmanStart"
                        [] op = "stop" -> "podmanStop"
                        [] op \in {"delete", "purge"} -> "rm"
                        [] op = "kill" -> "signal"
  BY PlansAreLineups
<1>2. todo \in Seq(Steps)
  BY <1>1 DEF Lineup, Linked
<1>3. cmd \in [Machine -> C] /\ cmd' = [cmd EXCEPT ![v] = c]
  BY DEF Command, PodInv, PodType
<1>4. c \in C /\ c.todo = todo /\ c.ended = cmd[v].ended /\ c.read = cmd[v].read
  <2> DEFINE S == Seq(Steps)
             R == SUBSET (Machine \X IP)
  <2>1. todo \in S /\ cmd[v] \in [op : Ops, todo : S, ended : Endings, read : R, left : Int] /\ op \in Ops
    BY <1>2, <1>3 DEF Ops
  <2>2. cmd[v].left - 1 \in Int
    BY <2>1
  <2> HIDE DEF S, R, todo
  <2>3. c \in [op : Ops, todo : S, ended : Endings, read : R, left : Int]
        /\ c.todo = todo /\ c.ended = cmd[v].ended /\ c.read = cmd[v].read
    BY <2>1, <2>2
  <2> QED
    BY <2>3 DEF S, R
<1> HIDE DEF C, c, todo
<1>5. cmd' \in [Machine -> C] /\ cmd'[v] = c /\ \A w \in Machine \ {v} : cmd'[w] = cmd[w]
  BY <1>3, <1>4
<1>6. CmdType' /\ CtrType' /\ DirType'
  BY <1>5, TypesOf DEF C, CmdType, CtrType, DirType, Command
<1>7. OthersKeep(v) /\ hosts' = hosts /\ collided' = collided /\ unwritten' = unwritten
  BY <1>5 DEF OthersKeep, Command
<1>8. /\ cmd'[v].todo = todo /\ cmd'[v].ended = cmd[v].ended
      /\ ctr' = ctr /\ dir' = dir /\ Idle(v) /\ (op = "create" <=> ~dir[v].there)
      /\ op = "start" => ctr[v].state # "running"
  BY <1>4, <1>5 DEF Command
<1>9. ContainerInv(v)
  BY DEF PodInv
<1>10. ContainerInv(v)'
  BY <1>1, <1>8, <1>9 DEF ContainerInv, Idle, Before, Front
<1>11. OwnLine(v) => OwnLine(v)'
  BY <1>1, <1>7, <1>8 DEF OwnLine, Line, Idle, Before, Front
<1>12. ~Before(v, {"writeHosts"})'
  BY <1>1, <1>8 DEF Before, Front
<1> QED
  BY <1>6, <1>7, <1>9, <1>10, <1>11, <1>12, QuietStep, OwnerStays DEF Command

\* Before the line is there: a step of staging and building that does not
\* touch the container.
LEMMA BuildKeepsPod ==
  ASSUME PodInv, NEW v \in Machine, Stage(v) \/ _render_and_build(v) \/ Prepare(v)
  PROVE  PodInv'
<1>1. ~Idle(v) /\ Before(v, {"stage", "build", "prepare"})
  BY DEF Stage, _render_and_build, Prepare, At, Idle, Before, Front
<1>2. CmdType' /\ (\A w \in Machine \ {v} : cmd'[w] = cmd[w]) /\ Lineup(cmd'[v].todo)
      /\ (cmd'[v].todo = <<>> \/ Front(cmd'[v].todo, {"build", "prepare", "run"}))
  <2>1. CASE Go(v)
    <3>1. CmdType' /\ GoesOn(v) /\ Lineup(cmd'[v].todo) /\ \A w \in Machine \ {v} : cmd'[w] = cmd[w]
      BY <1>1, <2>1, GoGoesOn
    <3>2. Before(v, {"stage"}) \/ Before(v, {"build"}) \/ Before(v, {"prepare"})
      BY <1>1 DEF Before, Front
    <3>3. Before(v, {"build"})' \/ Before(v, {"prepare"})' \/ Before(v, {"run"})'
      BY <1>1, <3>1, <3>2, GoesTo
    <3> QED
      BY <3>1, <3>3 DEF Before, Front
  <2>2. CASE Stop(v)
    BY <1>1, <2>2, StopHalts, EmptyLineup DEF Halts
  <2> QED
    BY <2>1, <2>2 DEF Stage, _render_and_build, Prepare
<1>3. /\ ctr' = ctr /\ hosts' = hosts /\ collided' = collided /\ unwritten' = unwritten
      /\ DirType' /\ dir'[v].there /\ \A w \in Machine \ {v} : dir'[w] = dir[w]
  <2>1. DirType /\ (Before(v, {"build", "prepare"}) => dir[v].there)
    BY TypesOf DEF PodInv, ContainerInv, Before, Front, Idle
  <2>2. CASE Stage(v)
    BY <2>1, <2>2 DEF Stage, DirType
  <2>3. CASE _render_and_build(v)
    BY <2>1, <2>3 DEF _render_and_build, DirType, At, Before, Front
  <2>4. CASE Prepare(v)
    BY <2>1, <2>4 DEF Prepare, DirType, At, Before, Front
  <2> QED
    BY <2>2, <2>3, <2>4
<1>4. OthersKeep(v) /\ CtrType'
  BY <1>2, <1>3, TypesOf DEF OthersKeep, CtrType
<1>5. ContainerInv(v)
  BY DEF PodInv
<1>6. ctr[v].state # "running" /\ (OwnLine(v) => ~Line(v))
  BY <1>1, <1>5 DEF ContainerInv, OwnLine, Before, Front, Idle
<1>7. ContainerInv(v)'
  BY <1>2, <1>3, <1>5, <1>6 DEF ContainerInv, Idle, Before, Front
<1>8. OwnLine(v) => OwnLine(v)'
  BY <1>3, <1>6 DEF OwnLine, Line
<1>9. ~Before(v, {"writeHosts"})'
  BY <1>2 DEF Before, Front
<1>10. OwnerInv'
  BY <1>3, OwnerStays DEF Stage, _render_and_build, Prepare
<1> QED
  BY <1>2, <1>3, <1>4, <1>5, <1>7, <1>8, <1>9, <1>10, QuietStep

\* The container and its pid file.
LEMMA RunKeepsPod ==
  ASSUME PodInv, NEW v \in Machine, RunContainer(v) \/ _write_podman_pid(v)
  PROVE  PodInv'
<1>1. ~Idle(v) /\ Before(v, {"run", "podmanStart", "writePid"})
  BY DEF RunContainer, _write_podman_pid, At, Idle, Before, Front
<1>2. ContainerInv(v) /\ CmdType /\ CtrType /\ DirType /\ OwnerInv
  BY TypesOf DEF PodInv, HostsInv
<1>3. hosts' = hosts /\ collided' = collided /\ unwritten' = unwritten
  BY DEF RunContainer, _write_podman_pid
<1>4. CASE Stop(v) /\ UNCHANGED <<dir, ctr, owner>>
  <2>1. CmdType' /\ Halts(v) /\ \A w \in Machine \ {v} : cmd'[w] = cmd[w]
    BY <1>1, <1>4, StopHalts
  <2>2. OthersKeep(v) /\ CtrType' /\ DirType' /\ OwnerInv'
    BY <1>2, <1>4, <2>1, OwnerStays DEF OthersKeep, CtrType, DirType
  <2>3. cmd'[v].ended # "ok"
    BY <2>1, StepsAreEndings DEF Halts
  <2>4. ContainerInv(v)'
    BY <1>1, <1>2, <1>4, <2>1, <2>3, EmptyLineup DEF Halts, ContainerInv, Idle, Before, Front
  <2>5. OwnLine(v) => OwnLine(v)'
    BY <1>1, <1>2, <1>3, <1>4, <2>1, <2>3 DEF Halts, OwnLine, Line, Before, Front
  <2>6. ~Before(v, {"writeHosts"})'
    BY <2>1 DEF Halts, Before, Front
  <2> QED
    BY <1>2, <1>3, <2>1, <2>2, <2>4, <2>5, <2>6, QuietStep
<1>5. CASE Go(v) /\ ~Before(v, {"writePid"}) /\ dir' = dir /\ \E p \in Pid, ip \in IP : Starts(v, p, ip)
  <2>1. CmdType' /\ GoesOn(v) /\ Lineup(cmd'[v].todo) /\ \A w \in Machine \ {v} : cmd'[w] = cmd[w]
    BY <1>1, <1>5, GoGoesOn
  <2>2. /\ \/ Before(v, {"run"}) /\ Before(v, {"inspect"})'
           \/ Before(v, {"podmanStart"}) /\ Before(v, {"writePid"})'
        /\ cmd'[v].ended = "ok"
    <3>1. Before(v, {"run"}) \/ Before(v, {"podmanStart"})
      BY <1>1, <1>5 DEF Before, Front
    <3> QED
      BY <1>1, <2>1, <3>1, GoesTo DEF GoesOn
  <2>3. PICK p \in Pid, ip \in IP : Starts(v, p, ip)
    BY <1>5
  <2>4. CtrType' /\ OwnerInv' /\ ctr'[v].state = "running" /\ ctr'[v].ip = ip /\ ctr'[v].pid \in Pid
        /\ \A w \in Machine \ {v} : ctr'[w] = ctr[w]
    BY <1>2, <2>3, MachineAssumption DEF Starts, CtrType, OwnerInv
  <2>5. OthersKeep(v) /\ DirType'
    BY <1>2, <1>5, <2>1, <2>4 DEF OthersKeep, DirType
  <2>6. dir[v].there
    BY <1>1, <1>2 DEF ContainerInv, Before, Front, Idle
  <2>7. ContainerInv(v)'
    BY <1>5, <2>1, <2>2, <2>4, <2>6 DEF ContainerInv, Idle, Before, Front
  <2>8. OwnLine(v) => OwnLine(v)'
    BY <1>3, <1>5, <2>2, <2>4, <2>6 DEF OwnLine, Line, Before, Front
  <2>9. ~Before(v, {"writeHosts"})'
    BY <2>2 DEF Before, Front
  <2> QED
    BY <1>2, <1>3, <2>1, <2>4, <2>5, <2>7, <2>8, <2>9, QuietStep
<1>6. CASE Go(v) /\ Before(v, {"writePid"}) /\ dir' = [dir EXCEPT ![v].pid = StatePid(v)] /\ ctr' = ctr /\ owner' = owner
  <2>1. CmdType' /\ GoesOn(v) /\ Lineup(cmd'[v].todo) /\ \A w \in Machine \ {v} : cmd'[w] = cmd[w]
    BY <1>1, <1>6, GoGoesOn
  <2>2. cmd'[v].todo = <<>>
    BY <1>1, <1>6, <2>1, GoesTo DEF Idle, Before, Front
  <2>0. StatePid(v) \in Pid \union {0} /\ (ctr[v].state = "running" => StatePid(v) = ctr[v].pid)
    BY <1>2, MachineAssumption DEF StatePid, CtrType, ContainerInv
  <2>3. DirType' /\ dir'[v].pid = StatePid(v) /\ dir'[v].there = dir[v].there
        /\ \A w \in Machine \ {v} : dir'[w] = dir[w]
    BY <1>2, <1>6, <2>0 DEF DirType
  <2>4. OthersKeep(v) /\ CtrType' /\ OwnerInv'
    BY <1>2, <1>6, <2>1, <2>3, OwnerStays DEF OthersKeep, CtrType
  <2>5. ContainerInv(v)'
    BY <1>2, <1>6, <2>0, <2>2, <2>3, EmptyLineup DEF ContainerInv, Idle, Before, Front
  <2>6. OwnLine(v) => OwnLine(v)'
    BY <1>2, <1>3, <1>6, <2>2, <2>3 DEF ContainerInv, OwnLine, Line, Before, Front
  <2>7. ~Before(v, {"writeHosts"})'
    BY <2>2 DEF Before, Front
  <2> QED
    BY <1>2, <1>3, <2>1, <2>3, <2>4, <2>5, <2>6, <2>7, QuietStep
<1>7. RunContainer(v) => ~Before(v, {"writePid"})
  BY DEF RunContainer, At, Before, Front
<1>8. _write_podman_pid(v) => Before(v, {"writePid"})
  BY DEF _write_podman_pid, At, Before, Front
<1> QED
  BY <1>4, <1>5, <1>6, <1>7, <1>8 DEF RunContainer, _write_podman_pid

\* What stops a container, removes it and what belongs to it.
LEMMA StopKeepsPod ==
  ASSUME PodInv, NEW v \in Machine, StopContainer(v) \/ RemoveRest(v) \/ StepFails(v)
  PROVE  PodInv'
<1>1. ~Idle(v)
  BY DEF StopContainer, RemoveRest, StepFails, At, Idle
<1>2. ContainerInv(v) /\ CmdType /\ CtrType /\ DirType /\ OwnerInv
  BY TypesOf DEF PodInv, HostsInv
<1>3. hosts' = hosts /\ collided' = collided /\ unwritten' = unwritten
  BY DEF StopContainer, RemoveRest, StepFails
<1>4. CASE Stop(v) /\ UNCHANGED <<dir, ctr, owner>>
  <2>1. CmdType' /\ Halts(v) /\ \A w \in Machine \ {v} : cmd'[w] = cmd[w]
    BY <1>1, <1>4, StopHalts
  <2>2. OthersKeep(v) /\ CtrType' /\ DirType' /\ OwnerInv'
    BY <1>2, <1>4, <2>1, OwnerStays DEF OthersKeep, CtrType, DirType
  <2>3. cmd'[v].ended # "ok"
    BY <2>1, StepsAreEndings DEF Halts
  <2>4. ContainerInv(v)'
    BY <1>1, <1>2, <1>4, <2>1, <2>3, EmptyLineup DEF Halts, ContainerInv, Idle, Before, Front
  <2>5. OwnLine(v) => OwnLine(v)'
    BY <1>1, <1>2, <1>3, <1>4, <2>1, <2>3 DEF Halts, OwnLine, Line, Before, Front
  <2>6. ~Before(v, {"writeHosts"})'
    BY <2>1 DEF Halts, Before, Front
  <2> QED
    BY <1>2, <1>3, <2>1, <2>2, <2>4, <2>5, <2>6, QuietStep
<1>5. CASE StopContainer(v) /\ Go(v)
  <2>1. CmdType' /\ GoesOn(v) /\ Lineup(cmd'[v].todo) /\ \A w \in Machine \ {v} : cmd'[w] = cmd[w]
    BY <1>1, <1>5, GoGoesOn
  <2>2. \/ Before(v, {"podmanStop"}) /\ Before(v, {"dropPid"})' /\ ctr[v].state # "absent"
        \/ Before(v, {"rm"}) /\ Before(v, {"rmi"})' /\ ctr[v].state # "absent"
        \/ Before(v, {"rmForce"}) /\ Before(v, {"readHosts"})'
    <3>1. /\ Before(v, {"podmanStop"}) \/ Before(v, {"rm"}) \/ Before(v, {"rmForce"})
          /\ Before(v, {"rmForce"}) \/ ctr[v].state # "absent"
      <4>1. cmd'[v].ended = "ok"
        BY <2>1 DEF GoesOn
      <4>2. ~Stop(v)
        BY <1>1, <4>1, StopHalts, StepsAreEndings DEF Halts
      <4> QED
        BY <1>5, <4>2 DEF StopContainer, At, Before, Front
    <3>2. Before(v, {"podmanStop"}) => Before(v, {"dropPid"})'
      BY <1>1, <2>1, GoesTo DEF Before, Front
    <3> QED
      BY <1>1, <2>1, <3>1, <3>2, GoesTo
  <2>3. /\ ctr' = [ctr EXCEPT ![v] = IF At(v, "podmanStop") THEN Ended(@) ELSE Absent]
        /\ Release(v) /\ dir' = dir
    <3>1. cmd'[v].ended = "ok"
      BY <2>1 DEF GoesOn
    <3>2. ~Stop(v)
      BY <1>1, <3>1, StopHalts, StepsAreEndings DEF Halts
    <3> QED
      BY <1>5, <3>2 DEF StopContainer
  <2>4. /\ CtrType' /\ \A w \in Machine \ {v} : ctr'[w] = ctr[w]
        /\ ctr'[v].state \in {"absent", "stopped"} /\ ctr'[v].ip = None
        /\ ctr'[v].state = "absent" <=> ~Before(v, {"podmanStop"})
    BY <1>2, <2>2, <2>3 DEF CtrType, Ended, Absent, At, Before, Front
  <2>5. OwnerInv'
    <3>1. owner' = [p \in Pid |-> IF owner[p] = v THEN None ELSE owner[p]]
      BY <2>3 DEF Release
    <3> QED
      BY <1>2, <2>4, <3>1, MachineAssumption DEF OwnerInv
  <2>6. OthersKeep(v) /\ DirType'
    BY <1>2, <2>1, <2>3, <2>4 DEF OthersKeep, DirType
  <2>7. dir[v].there
    BY <1>2, <2>2 DEF ContainerInv, Before, Front, Idle
  <2>8. ContainerInv(v)'
    BY <2>1, <2>2, <2>3, <2>4, <2>7 DEF ContainerInv, Idle, Before, Front
  <2>9. OwnLine(v) => OwnLine(v)'
    BY <1>3, <2>2, <2>3, <2>4, <2>7 DEF OwnLine, Line, Before, Front
  <2>10. ~Before(v, {"writeHosts"})'
    BY <2>2 DEF Before, Front
  <2> QED
    BY <1>2, <1>3, <2>1, <2>4, <2>5, <2>6, <2>8, <2>9, <2>10, QuietStep
<1>6. CASE RemoveRest(v)
  <2>1. CmdType' /\ GoesOn(v) /\ Lineup(cmd'[v].todo) /\ \A w \in Machine \ {v} : cmd'[w] = cmd[w]
    BY <1>1, <1>6, GoGoesOn DEF RemoveRest
  <2>2. \/ Before(v, {"rmi"}) /\ Before(v, {"readHosts"})' /\ dir' = dir
        \/ Before(v, {"rmVolumes"}) /\ Before(v, {"dropPid"})' /\ dir' = dir
        \/ Before(v, {"dropPid"}) /\ Idle(v)' /\ dir' = [dir EXCEPT ![v].pid = None]
    <3>1. \/ Before(v, {"rmi"}) /\ dir' = dir
          \/ Before(v, {"rmVolumes"}) /\ dir' = dir
          \/ Before(v, {"dropPid"}) /\ dir' = [dir EXCEPT ![v].pid = None]
      BY <1>6 DEF RemoveRest, At, Before, Front
    <3>2. /\ Before(v, {"rmVolumes"}) => Before(v, {"dropPid"})'
          /\ Before(v, {"dropPid"}) => Idle(v)'
      BY <1>1, <2>1, GoesTo DEF Before, Front
    <3> QED
      BY <1>1, <2>1, <3>1, <3>2, GoesTo
  <2>3. ctr' = ctr /\ owner' = owner
    BY <1>6 DEF RemoveRest
  <2>4. DirType' /\ dir'[v].there = dir[v].there /\ dir'[v].pid \in {dir[v].pid, None}
        /\ \A w \in Machine \ {v} : dir'[w] = dir[w]
    BY <1>2, <2>2 DEF DirType
  <2>5. OthersKeep(v) /\ CtrType' /\ OwnerInv'
    BY <1>2, <2>1, <2>3, <2>4, OwnerStays DEF OthersKeep, CtrType
  <2>6. ctr[v].state # "running" /\ dir[v].there
    BY <1>2, <2>2 DEF ContainerInv, Before, Front, Idle
  <2>7. ContainerInv(v)'
    BY <1>2, <2>1, <2>2, <2>3, <2>4, <2>6 DEF ContainerInv, Idle, Before, Front
  <2>8. OwnLine(v) => OwnLine(v)'
    BY <1>3, <2>2, <2>3, <2>4, <2>6 DEF OwnLine, Line, Idle, Before, Front
  <2>9. ~Before(v, {"writeHosts"})'
    BY <2>2 DEF Before, Front, Idle
  <2> QED
    BY <1>2, <1>3, <2>1, <2>4, <2>5, <2>7, <2>8, <2>9, QuietStep
<1>7. StopContainer(v) => Go(v) \/ (Stop(v) /\ UNCHANGED <<dir, ctr, owner>>)
  BY DEF StopContainer
<1> QED
  BY <1>4, <1>5, <1>6, <1>7 DEF StepFails

-----------------------------------------------------------------------------
(* What ends containers and commands.                                       *)

\* A container that is there may end, and a command that signals, or any at a
\* reboot.
LEMMA EndsKeepPod ==
  ASSUME PodInv, dir' = dir, hosts' = hosts, collided' = collided /\ unwritten' = unwritten, CmdType', CtrType', OwnerInv',
         \A w \in Machine : \/ ctr'[w] = ctr[w]
                            \/ ctr[w].state # "absent" /\ ctr'[w].state = "stopped",
         \A w \in Machine : \/ cmd'[w] = cmd[w]
                            \/ cmd'[w].todo = <<>> /\ cmd'[w].ended # "ok"
                            \/ cmd'[w].todo = <<>> /\ cmd'[w].ended = cmd[w].ended /\ Before(w, {"signal"})
  PROVE  PodInv'
<1>1. PodType'
  BY DEF PodInv, PodType, CmdType, CtrType
<1>2. ASSUME NEW w \in Machine PROVE ContainerInv(w)' /\ (OwnLine(w) => OwnLine(w)')
  <2>1. ContainerInv(w)
    BY DEF PodInv
  <2>2. ctr'[w] = ctr[w] \/ (ctr[w].state # "absent" /\ ctr'[w].state = "stopped")
    OBVIOUS
  <2>3. CASE cmd'[w] = cmd[w]
    BY <2>1, <2>2, <2>3 DEF ContainerInv, OwnLine, Line, Idle, Before, Front
  <2>4. CASE cmd'[w].todo = <<>> /\ cmd'[w].ended # "ok"
    BY <2>1, <2>2, <2>4, EmptyLineup DEF ContainerInv, OwnLine, Line, Idle, Before, Front
  <2>5. CASE cmd'[w].todo = <<>> /\ cmd'[w].ended = cmd[w].ended /\ Before(w, {"signal"})
    BY <2>1, <2>2, <2>5, EmptyLineup DEF ContainerInv, OwnLine, Line, Idle, Before, Front
  <2> QED
    BY <2>3, <2>4, <2>5
<1>3. \A w \in Machine : Before(w, {"writeHosts"})' => Before(w, {"writeHosts"}) /\ cmd'[w].read = cmd[w].read
  BY DEF Before, Front
<1>4. ~collided' => HostsInv'
  BY <1>2, <1>3 DEF PodInv, HostsInv, LineInv
<1> QED
  BY <1>1, <1>2, <1>4 DEF PodInv

LEMMA SignalKeepsPod ==
  ASSUME PodInv, NEW v \in Machine, Signal(v)
  PROVE  PodInv'
<1>1. ~Idle(v) /\ Before(v, {"signal"})
  BY DEF Signal, At, Idle, Before, Front
<1>2. CmdType /\ CtrType /\ OwnerInv
  BY TypesOf DEF PodInv
<1>3. dir' = dir /\ hosts' = hosts /\ collided' = collided /\ unwritten' = unwritten
  BY DEF Signal
<1>4. CASE Stop(v) /\ UNCHANGED <<ctr, owner>>
  <2>1. CmdType' /\ Halts(v) /\ \A w \in Machine \ {v} : cmd'[w] = cmd[w]
    BY <1>1, <1>4, StopHalts
  <2>2. CtrType' /\ OwnerInv'
    BY <1>2, <1>4, OwnerStays DEF CtrType
  <2> QED
    BY <1>3, <1>4, <2>1, <2>2, StepsAreEndings, EndsKeepPod DEF Halts
<1>5. CASE ~(Stop(v) /\ UNCHANGED <<ctr, owner>>)
  <2> DEFINE p == dir[v].pid
  <2>1. /\ cmd' = [cmd EXCEPT ![v].todo = <<>>]
        /\ owner' = [owner EXCEPT ![p] = None]
        /\ ctr' = [w \in Machine |-> IF owner[p] = w THEN Ended(ctr[w]) ELSE ctr[w]]
        /\ p \in Pid
    BY <1>5 DEF Signal
  <2>2. p \in Pid
    BY <2>1
  <2>3. Moves(v, <<>>, cmd[v].ended) /\ cmd[v].ended \in Endings
    BY <1>2, <2>1 DEF CmdType, Moves
  <2>4. <<>> \in Seq(Steps)
    OBVIOUS
  <2>5. CmdType' /\ cmd'[v].todo = <<>> /\ cmd'[v].ended = cmd[v].ended /\ \A w \in Machine \ {v} : cmd'[w] = cmd[w]
    BY <1>2, <2>3, <2>4, CmdMoves, Zenon
  <2>6. \A w \in Machine : \/ ctr'[w] = ctr[w]
                           \/ ctr[w].state # "absent" /\ ctr'[w].state = "stopped"
    BY <1>2, <2>1, <2>2 DEF OwnerInv, CtrType, Ended
  <2>7. CtrType'
    BY <1>2, <2>1 DEF CtrType, Ended
  <2>8. OwnerInv'
    <3> HIDE DEF p
    <3>1. \A w \in Machine : ctr'[w].state = "absent" => ctr[w].state = "absent"
      BY <2>6
    <3> QED
      BY <1>2, <2>1, <2>2, <3>1, MachineAssumption DEF OwnerInv
  <2> QED
    BY <1>1, <1>3, <2>5, <2>6, <2>7, <2>8, EndsKeepPod
<1> QED
  BY <1>4, <1>5

LEMMA WorldKeepsPod ==
  ASSUME PodInv, Reboot \/ NetworkRemoved \/ \E v \in Machine : ContainerEnds(v)
  PROVE  PodInv'
<1>1. CmdType /\ CtrType /\ OwnerInv
  BY TypesOf DEF PodInv
<1>2. CASE Reboot
  <2>1. /\ dir' = dir /\ hosts' = hosts /\ collided' = collided /\ unwritten' = unwritten /\ owner' = [p \in Pid |-> None]
        /\ ctr' = [v \in Machine |-> IF ctr[v].state = "running" THEN Ended(ctr[v]) ELSE ctr[v]]
        /\ cmd' = [v \in Machine |-> IF Idle(v) THEN cmd[v]
                                     ELSE [cmd[v] EXCEPT !.todo = <<>>, !.ended = "reboot", !.read = {}]]
    BY <1>2 DEF Reboot
  <2>2. CtrType' /\ OwnerInv'
    BY <1>1, <2>1, MachineAssumption DEF CtrType, OwnerInv, Ended
  <2>3. \A w \in Machine : \/ ctr'[w] = ctr[w]
                           \/ ctr[w].state # "absent" /\ ctr'[w].state = "stopped"
    BY <1>1, <2>1 DEF CtrType, Ended
  <2>4. ASSUME NEW w \in Machine
        PROVE  /\ cmd'[w] \in [op : Ops, todo : Seq(Steps), ended : Endings, read : SUBSET (Machine \X IP), left : Int]
               /\ cmd'[w] = cmd[w] \/ (cmd'[w].todo = <<>> /\ cmd'[w].ended # "ok")
    <3> DEFINE S == Seq(Steps)
               R == SUBSET (Machine \X IP)
    <3>1. cmd[w] \in [op : Ops, todo : S, ended : Endings, read : R, left : Int] /\ "reboot" \in Endings
          /\ <<>> \in S /\ {} \in R
      BY <1>1 DEF CmdType, Endings
    <3>2. cmd'[w] = IF Idle(w) THEN cmd[w] ELSE [cmd[w] EXCEPT !.todo = <<>>, !.ended = "reboot", !.read = {}]
      BY <2>1
    <3> HIDE DEF S, R
    <3>3. /\ cmd'[w] \in [op : Ops, todo : S, ended : Endings, read : R, left : Int]
          /\ cmd'[w] = cmd[w] \/ (cmd'[w].todo = <<>> /\ cmd'[w].ended # "ok")
      BY <3>1, <3>2
    <3> QED
      BY <3>3 DEF S, R
  <2>5. CmdType'
    BY <2>1, <2>4 DEF CmdType
  <2> QED
    BY <2>1, <2>2, <2>3, <2>4, <2>5, EndsKeepPod
<1>3. CASE NetworkRemoved
  BY <1>1, <1>3, OwnerStays, EndsKeepPod DEF NetworkRemoved, CmdType, CtrType
<1>4. ASSUME NEW v \in Machine, ContainerEnds(v) PROVE PodInv'
  <2>1. /\ dir' = dir /\ hosts' = hosts /\ collided' = collided /\ unwritten' = unwritten /\ cmd' = cmd
        /\ ctr[v].state = "running" /\ ctr' = [ctr EXCEPT ![v] = Ended(@)]
        /\ owner' \in {[owner EXCEPT ![ctr[v].pid] = None], [owner EXCEPT ![ctr[v].pid] = "stranger"]}
    BY <1>4 DEF ContainerEnds
  <2>2. CtrType' /\ ctr'[v].state = "stopped" /\ \A w \in Machine \ {v} : ctr'[w] = ctr[w]
    BY <1>1, <2>1 DEF CtrType, Ended
  <2>3. OwnerInv'
    BY <1>1, <2>1, <2>2, MachineAssumption DEF OwnerInv
  <2>4. CmdType'
    BY <1>1, <2>1 DEF CmdType
  <2> QED
    BY <2>1, <2>2, <2>3, <2>4, EndsKeepPod
<1> QED
  BY <1>2, <1>3, <1>4

-----------------------------------------------------------------------------
(* The steps at /etc/hosts.                                                 *)

\* A new container's line is added where none is.
LEMMA InspectKeepsPod ==
  ASSUME PodInv, NEW v \in Machine, _post_run_inspect(v)
  PROVE  PodInv'
<1>1. ~Idle(v) /\ Before(v, {"inspect"})
  BY DEF _post_run_inspect, At, Idle, Before, Front
<1>2. ContainerInv(v) /\ CmdType /\ CtrType /\ DirType /\ OwnerInv
  BY TypesOf DEF PodInv
<1>3. /\ CmdType' /\ (\A w \in Machine \ {v} : cmd'[w] = cmd[w])
      /\ cmd'[v].todo = <<>>
  <2>1. CASE Go(v)
    <3>1. CmdType' /\ GoesOn(v) /\ \A w \in Machine \ {v} : cmd'[w] = cmd[w]
      BY <1>1, <2>1, GoGoesOn
    <3> QED
      BY <1>1, <3>1, GoesTo DEF Idle, Before, Front
  <2>2. CASE Stop(v)
    BY <1>1, <2>2, StopHalts DEF Halts
  <2> QED
    BY <2>1, <2>2 DEF _post_run_inspect
<1>4. StatePid(v) \in Pid \union {0} /\ (ctr[v].state = "running" => StatePid(v) = ctr[v].pid)
  BY <1>2, MachineAssumption DEF StatePid, CtrType, ContainerInv
<1>5. /\ DirType' /\ dir'[v].pid = StatePid(v) /\ dir'[v].there = dir[v].there
      /\ \A w \in Machine \ {v} : dir'[w] = dir[w]
  BY <1>2, <1>4 DEF _post_run_inspect, DirType
<1>6. ctr' = ctr /\ owner' = owner /\ OwnerInv' /\ CtrType' /\ unwritten' = unwritten
  BY <1>2, OwnerStays DEF _post_run_inspect, CtrType
<1>7. OthersKeep(v)
  BY <1>3, <1>5, <1>6 DEF OthersKeep
<1>8. ContainerInv(v)'
  BY <1>2, <1>3, <1>4, <1>5, <1>6, EmptyLineup DEF ContainerInv, Idle, Before, Front
<1>9. CASE UNCHANGED <<hosts, collided>>
  <2>1. OwnLine(v) => OwnLine(v)'
    <3>1. OwnLine(v) => ~Line(v)
      BY <1>1 DEF OwnLine, Before, Front
    <3> QED
      BY <1>9, <3>1 DEF OwnLine, Line
  <2>2. ~Before(v, {"writeHosts"})'
    BY <1>3 DEF Before, Front
  <2> QED
    BY <1>3, <1>5, <1>6, <1>7, <1>8, <1>9, <2>1, <2>2, QuietStep
<1>10. CASE /\ ctr[v].ip # None /\ hosts' = hosts \union {<<v, ctr[v].ip>>}
            /\ collided' = (collided \/ \E w \in Machine \ {v} : At(w, "writeHosts"))
  <2>0. ctr[v].ip \in IP
    BY <1>2, <1>10 DEF CtrType
  <2>1. PodType'
    BY <1>3, <1>5, <1>6, <1>10, <2>0 DEF PodInv, PodType, CmdType, CtrType, DirType
  <2>2. \A w \in Machine : ContainerInv(w)'
    BY <1>7, <1>8, OthersKeepContainer
  <2>3. ASSUME ~collided' PROVE HostsInv'
    <3>1. HostsInv /\ \A w \in Machine \ {v} : ~Before(w, {"writeHosts"})
      BY <1>10, <2>3 DEF PodInv, At, Before, Front
    <3>2. \A w \in Machine : ~Before(w, {"writeHosts"})'
      BY <1>3, <3>1 DEF Before, Front
    <3>3. ASSUME OwnLine(v) PROVE OwnLine(v)'
      <4>1. ~Line(v) /\ dir[v].there
        BY <1>1, <1>2, <3>3 DEF OwnLine, ContainerInv, Before, Front, Idle
      <4>2. \A ip \in IP : <<v, ip>> \in hosts' => ip = ctr[v].ip
        BY <1>10, <4>1 DEF Line
      <4>3. ctr'[v].state # "absent"
        BY <1>2, <1>6, <1>10 DEF ContainerInv
      <4> QED
        BY <1>3, <1>5, <4>1, <4>2, <4>3 DEF OwnLine, Before, Front
    <3>4. LineInv(v)'
      BY <1>6, <3>1, <3>3 DEF HostsInv, LineInv
    <3>5. ASSUME NEW w \in Machine \ {v} PROVE LineInv(w)'
      <4>1. LineInv(w)
        BY <3>1 DEF HostsInv
      <4>2. \A ip \in IP : <<w, ip>> \in hosts' <=> <<w, ip>> \in hosts
        BY <1>10
      <4>3. cmd'[w] = cmd[w] /\ dir'[w] = dir[w] /\ ctr'[w] = ctr[w]
        BY <1>7 DEF OthersKeep
      <4> QED
        BY <1>6, <4>1, <4>2, <4>3 DEF LineInv, OwnLine, Line, Before, Front
    <3> QED
      BY <3>2, <3>4, <3>5 DEF HostsInv
  <2> QED
    BY <1>6, <2>1, <2>2, <2>3 DEF PodInv
<1> QED
  BY <1>9, <1>10 DEF _post_run_inspect

\* Reading the file, without a line of the machine in it or with one.
LEMMA ReadKeepsPod ==
  ASSUME PodInv, NEW v \in Machine, At(v, "readHosts"), _remove_hosts_entry(v)
  PROVE  PodInv'
<1> DEFINE first == Tail(cmd[v].todo)
           second == Tail(first)
<1>1. ~Idle(v) /\ Before(v, {"readHosts"}) /\ ~At(v, "writeHosts")
  BY DEF At, Idle, Before, Front
<1>2. ContainerInv(v) /\ CmdType /\ CtrType /\ DirType /\ OwnerInv
  BY TypesOf DEF PodInv
<1>3. /\ IF Line(v)
         THEN cmd' = [cmd EXCEPT ![v].todo = first, ![v].read = hosts]
         ELSE cmd' = [cmd EXCEPT ![v].todo = second, ![v].ended = "ok"]
      /\ collided' = (collided \/ \E w \in Machine \ {v} : At(w, "writeHosts"))
      /\ UNCHANGED <<dir, ctr, hosts, owner, unwritten>>
  BY <1>1 DEF _remove_hosts_entry, Line
<1>4. Lineup(first) /\ first # <<>> /\ Head(first) = "writeHosts"
  <2>1. cmd[v].todo # <<>> /\ Head(cmd[v].todo) = "readHosts" /\ Lineup(cmd[v].todo)
    BY <1>1, <1>2 DEF Before, Front, ContainerInv
  <2>2. Lineup(first) /\ Front(first, {"writeHosts"})
    <3>1. following["readHosts"] = {"writeHosts"} /\ {"writeHosts"} # {}
      BY FollowingIs
    <3> QED
      BY <2>1, <3>1, LineupGoesOn
  <2> QED
    BY <2>2 DEF Front
<1>5. Lineup(second) /\ second # <<>> /\ Head(second) \in {"stage", "rmVolumes", "dropPid"}
  <2> DEFINE after == {"stage", "rmVolumes", "dropPid"}
  <2>1. following["writeHosts"] = after /\ after # {}
    BY FollowingIs
  <2> HIDE DEF first, after
  <2>2. Lineup(second) /\ Front(second, after)
    BY <1>4, <2>1, LineupGoesOn
  <2> QED
    BY <2>2, Zenon DEF Front, after
<1>6. first \in Seq(Steps) /\ second \in Seq(Steps)
  BY <1>4, <1>5 DEF Lineup, Linked
<1> HIDE DEF first, second
<1>7. /\ CmdType' /\ \A w \in Machine \ {v} : cmd'[w] = cmd[w]
      /\ IF Line(v)
         THEN cmd'[v].todo = first /\ cmd'[v].read = hosts /\ cmd'[v].ended = cmd[v].ended
         ELSE cmd'[v].todo = second /\ cmd'[v].ended = "ok" /\ cmd'[v].read = cmd[v].read
  <2>1. CASE Line(v)
    <3> DEFINE S == Seq(Steps)
               R == SUBSET (Machine \X IP)
               c == [[cmd[v] EXCEPT !.todo = first] EXCEPT !.read = hosts]
    <3>1. hosts \in R /\ cmd \in [Machine -> [op : Ops, todo : S, ended : Endings, read : R, left : Int]]
          /\ first \in S
      BY <1>2, <1>6 DEF CmdType, PodInv, PodType
    <3>2. cmd' = [cmd EXCEPT ![v] = c]
      BY <1>3, <2>1, <3>1
    <3> HIDE DEF S, R
    <3>3. cmd[v] \in [op : Ops, todo : S, ended : Endings, read : R, left : Int]
      BY <3>1
    <3>4. c \in [op : Ops, todo : S, ended : Endings, read : R, left : Int]
          /\ c.todo = first /\ c.read = hosts /\ c.ended = cmd[v].ended
      BY <3>1, <3>3
    <3> HIDE DEF c
    <3>5. /\ cmd' \in [Machine -> [op : Ops, todo : S, ended : Endings, read : R, left : Int]]
          /\ cmd'[v] = c /\ \A w \in Machine \ {v} : cmd'[w] = cmd[w]
      BY <3>1, <3>2, <3>4
    <3>6. CmdType'
      BY <3>5 DEF CmdType, S, R
    <3> QED
      BY <2>1, <3>4, <3>5, <3>6
  <2>2. CASE ~Line(v)
    <3>1. Moves(v, second, "ok") /\ "ok" \in Endings
      BY <1>3, <2>2, StepsAreEndings DEF Moves
    <3>2. /\ CmdType' /\ \A w \in Machine \ {v} : cmd'[w] = cmd[w]
          /\ cmd'[v].todo = second /\ cmd'[v].ended = "ok" /\ cmd'[v].read = cmd[v].read
      BY <1>2, <1>6, <3>1, CmdMoves, Zenon
    <3> QED
      BY <2>2, <3>2
  <2> QED
    BY <2>1, <2>2
<1>8. OthersKeep(v) /\ CtrType' /\ DirType' /\ OwnerInv'
  BY <1>2, <1>3, <1>7, OwnerStays DEF OthersKeep, CtrType, DirType
<1>9. PodType'
  BY <1>3, <1>7, <1>8 DEF PodInv, PodType, CmdType, CtrType, DirType
<1>10. ContainerInv(v)'
  <2>1. ctr[v].state # "running" /\ dir[v].there
    BY <1>1, <1>2 DEF ContainerInv, Before, Front, Idle
  <2>2. Lineup(cmd'[v].todo) /\ ~Before(v, {"writePid"})'
    BY <1>4, <1>5, <1>7 DEF Before, Front
  <2> QED
    BY <1>2, <1>3, <2>1, <2>2 DEF ContainerInv
<1>11. \A w \in Machine : ContainerInv(w)'
  BY <1>8, <1>10, OthersKeepContainer
<1>12. ASSUME ~collided' PROVE HostsInv'
  <2>1. HostsInv /\ \A w \in Machine \ {v} : ~Before(w, {"writeHosts"})
    BY <1>3, <1>12 DEF PodInv, At, Before, Front
  <2>2. \A w \in Machine \ {v} : ~Before(w, {"writeHosts"})' /\ LineInv(w)'
    BY <1>3, <1>7, <1>8, <2>1, OthersKeepLine DEF Before, Front
  <2>3. Before(v, {"writeHosts"})' => cmd'[v].read = hosts'
    BY <1>3, <1>5, <1>7 DEF Before, Front
  <2>4. ASSUME OwnLine(v) PROVE OwnLine(v)'
    <3>1. OwnLine(v)
      BY <2>4
    <3>2. CASE Line(v)
      BY <1>1, <1>3, <1>4, <1>7, <3>1, <3>2 DEF OwnLine, Line, Before, Front
    <3>3. CASE ~Line(v)
      BY <1>3, <3>3 DEF OwnLine, Line
    <3> QED
      BY <3>2, <3>3
  <2>5. LineInv(v)'
    BY <1>3, <2>1, <2>4 DEF HostsInv, LineInv
  <2> QED
    BY <2>2, <2>3, <2>5 DEF HostsInv
<1> QED
  BY <1>8, <1>9, <1>11, <1>12 DEF PodInv

\* What is written is the file as it was read, and it still is.
LEMMA WriteKeepsPod ==
  ASSUME PodInv, NEW v \in Machine, At(v, "writeHosts"), _remove_hosts_entry(v)
  PROVE  PodInv'
<1> DEFINE rest == Tail(cmd[v].todo)
<1>1. ~Idle(v) /\ Before(v, {"writeHosts"}) /\ ~At(v, "readHosts")
  BY DEF At, Idle, Before, Front
<1>2. ContainerInv(v) /\ CmdType /\ CtrType /\ DirType /\ OwnerInv
  BY TypesOf DEF PodInv
<1>3. /\ \/ hosts' = {line \in cmd[v].read : line[1] # v} /\ unwritten' = unwritten \ {v}
         \/ hosts' = hosts /\ unwritten' = unwritten \union {v}
      /\ cmd' = [cmd EXCEPT ![v].todo = rest, ![v].read = {}, ![v].ended = "ok"]
      /\ UNCHANGED <<dir, ctr, owner, collided>>
  BY <1>1 DEF _remove_hosts_entry
<1>4. Lineup(rest) /\ rest # <<>> /\ Head(rest) \in {"stage", "rmVolumes", "dropPid"}
  <2>1. cmd[v].todo # <<>> /\ Head(cmd[v].todo) = "writeHosts" /\ Lineup(cmd[v].todo)
    BY <1>1, <1>2 DEF Before, Front, ContainerInv
  <2> DEFINE after == {"stage", "rmVolumes", "dropPid"}
  <2>2. following["writeHosts"] = after /\ after # {}
    BY FollowingIs
  <2> HIDE DEF after
  <2>3. Lineup(rest) /\ Front(rest, after)
    BY <2>1, <2>2, LineupGoesOn
  <2> QED
    BY <2>3, Zenon DEF Front, after
<1>5. rest \in Seq(Steps)
  BY <1>4 DEF Lineup, Linked
<1> HIDE DEF rest
<1>6. /\ CmdType' /\ (\A w \in Machine \ {v} : cmd'[w] = cmd[w])
      /\ cmd'[v].todo = rest /\ cmd'[v].ended = "ok"
  <2> DEFINE S == Seq(Steps)
             R == SUBSET (Machine \X IP)
             c == [[[cmd[v] EXCEPT !.todo = rest] EXCEPT !.read = {}] EXCEPT !.ended = "ok"]
  <2>1. cmd \in [Machine -> [op : Ops, todo : S, ended : Endings, read : R, left : Int]]
        /\ rest \in S /\ {} \in R /\ "ok" \in Endings
    BY <1>2, <1>5, StepsAreEndings DEF CmdType
  <2>2. cmd' = [cmd EXCEPT ![v] = c]
    BY <1>3, <2>1
  <2> HIDE DEF S, R
  <2>3. cmd[v] \in [op : Ops, todo : S, ended : Endings, read : R, left : Int]
    BY <2>1
  <2>4. c \in [op : Ops, todo : S, ended : Endings, read : R, left : Int] /\ c.todo = rest /\ c.ended = "ok"
    BY <2>1, <2>3
  <2> HIDE DEF c
  <2>5. /\ cmd' \in [Machine -> [op : Ops, todo : S, ended : Endings, read : R, left : Int]]
        /\ cmd'[v] = c /\ \A w \in Machine \ {v} : cmd'[w] = cmd[w]
    BY <2>1, <2>2, <2>4
  <2>6. CmdType'
    BY <2>5 DEF CmdType, S, R
  <2> QED
    BY <2>4, <2>5, <2>6
<1>7. OthersKeep(v) /\ CtrType' /\ DirType' /\ OwnerInv'
  BY <1>2, <1>3, <1>6, OwnerStays DEF OthersKeep, CtrType, DirType
<1>8. PodType'
  <2>1. cmd[v].read \in SUBSET (Machine \X IP)
    BY <1>2 DEF CmdType
  <2>2. hosts' \subseteq Machine \X IP
    BY <1>3, <2>1 DEF PodInv, PodType
  <2> QED
    BY <1>6, <1>7, <2>2 DEF PodType, CmdType, CtrType, DirType
<1>9. ContainerInv(v)'
  <2>1. ctr[v].state # "running" /\ dir[v].there
    BY <1>1, <1>2 DEF ContainerInv, Before, Front, Idle
  <2>2. Lineup(cmd'[v].todo) /\ ~Before(v, {"writePid"})'
    BY <1>4, <1>6 DEF Before, Front
  <2> QED
    BY <1>2, <1>3, <2>1, <2>2 DEF ContainerInv
<1>10. \A w \in Machine : ContainerInv(w)'
  BY <1>7, <1>9, OthersKeepContainer
<1>11. ASSUME ~collided' PROVE HostsInv'
  <2>1. HostsInv /\ cmd[v].read = hosts /\ \A w \in Machine \ {v} : ~Before(w, {"writeHosts"})
    BY <1>1, <1>3, <1>11 DEF PodInv, HostsInv
  <2>2. \A w \in Machine : ~Before(w, {"writeHosts"})'
    BY <1>4, <1>6, <2>1 DEF Before, Front
  <2>3. /\ \A w \in Machine \ {v}, ip \in IP : <<w, ip>> \in hosts' <=> <<w, ip>> \in hosts
        /\ \A w \in Machine \ {v} : w \in unwritten' <=> w \in unwritten
        /\ v \in unwritten' \/ \A ip \in IP : <<v, ip>> \notin hosts'
    BY <1>3, <2>1
  <2>4. \A w \in Machine \ {v} : LineInv(w)'
    <3> SUFFICES ASSUME NEW w \in Machine \ {v} PROVE LineInv(w)'
      OBVIOUS
    <3>1. LineInv(w) /\ (w \in unwritten' <=> w \in unwritten) /\ \A ip \in IP : <<w, ip>> \in hosts' <=> <<w, ip>> \in hosts
      BY <2>1, <2>3 DEF HostsInv
    <3>2. cmd'[w] = cmd[w] /\ dir'[w] = dir[w] /\ ctr'[w] = ctr[w]
      BY <1>7 DEF OthersKeep
    <3> QED
      BY <3>1, <3>2 DEF LineInv, OwnLine, Line, Before, Front
  <2>5. LineInv(v)'
    BY <2>3 DEF LineInv, OwnLine, Line
  <2> QED
    BY <2>2, <2>4, <2>5 DEF HostsInv
<1> QED
  BY <1>7, <1>8, <1>10, <1>11 DEF PodInv

-----------------------------------------------------------------------------
(* Together.                                                                *)

LEMMA InitPod == Init => PodInv
<1> SUFFICES ASSUME NEW s \in Scenarios, PodmanInit(s.commands) PROVE PodInv
  BY DEF Init
<1>1. s.commands \in [Machine -> Nat]
  BY HostAssumption
<1>2. CmdType /\ \A v \in Machine : cmd[v].todo = <<>>
  <2> DEFINE S == Seq(Steps)
             R == SUBSET (Machine \X IP)
  <2>1. <<>> \in S /\ {} \in R /\ "ok" \in Endings /\ "none" \in Ops
    BY StepsAreEndings DEF Ops
  <2> HIDE DEF S, R
  <2>2. \A v \in Machine : s.commands[v] \in Int
    BY <1>1
  <2>3. cmd = [v \in Machine |-> [op |-> "none", todo |-> <<>>, ended |-> "ok", read |-> {}, left |-> s.commands[v]]]
    BY DEF PodmanInit
  <2>4. cmd \in [Machine -> [op : Ops, todo : S, ended : Endings, read : R, left : Int]]
        /\ \A v \in Machine : cmd[v].todo = <<>>
    BY <2>1, <2>2, <2>3
  <2> QED
    BY <2>4 DEF CmdType, S, R
<1>3. PodType
  BY <1>2 DEF PodmanInit, PodType, CmdType, Absent
<1>4. OwnerInv
  BY MachineAssumption DEF PodmanInit, OwnerInv
<1>5. \A v \in Machine : ContainerInv(v)
  BY <1>2, EmptyLineup DEF PodmanInit, ContainerInv, Idle, Before, Front, Absent
<1>6. HostsInv
  BY <1>2 DEF PodmanInit, HostsInv, LineInv, OwnLine, Line, Before, Front
<1> QED
  BY <1>3, <1>4, <1>5, <1>6 DEF PodInv

LEMMA StepPod == PodInv /\ [Next]_hostVars => PodInv'
<1> SUFFICES ASSUME PodInv, [Next]_hostVars PROVE PodInv'
  OBVIOUS
<1>1. CASE UNCHANGED podVars
  BY <1>1 DEF podVars, PodInv, PodType, OwnerInv, ContainerInv, HostsInv, LineInv, OwnLine, Line, Idle, Before
<1>2. CASE PodmanStep
  <2>1. CASE NetworkRemoved
    BY <2>1, WorldKeepsPod
  <2>2. ASSUME NEW v \in Machine, _remove_hosts_entry(v) PROVE PodInv'
    BY <2>2, ReadKeepsPod, WriteKeepsPod DEF _remove_hosts_entry
  <2> QED
    BY <1>2, <2>1, <2>2, CommandKeepsPod, BuildKeepsPod, RunKeepsPod, InspectKeepsPod,
       StopKeepsPod, SignalKeepsPod, WorldKeepsPod DEF PodmanStep
<1>3. CASE Reboot
  BY <1>3, WorldKeepsPod
<1> QED
  BY <1>1, <1>2, <1>3 DEF Next, hostVars

THEOREM ContainerInvariant == Spec => []PodInv
BY InitPod, StepPod, PTL DEF Spec

\* A machine's pid file names the container a command has left running, so
\* that kill hits nothing else (vm_lifecycle.py start, stop, kill): for any
\* number of machines, addresses and process numbers, any faults and reboots.
THEOREM PidFilesNameContainers == Spec => []PidNamesContainer
<1>1. PodInv => PidNamesContainer
  BY DEF PodInv, ContainerInv, PidNamesContainer, Idle, Before, Front
<1> QED
  BY <1>1, ContainerInvariant, PTL

\* At most one line of /etc/hosts is a machine's, and none is left by a
\* command that has succeeded in removing the container, while no two commands
\* were at the file at once and unless one was not permitted to take the line
\* away (vm_core.py _remove_hosts_entry).
THEOREM HostsFileNamesMachines == Spec => []HostsNameOwn
<1>1. ASSUME PodInv PROVE HostsNameOwn
  <2> SUFFICES ASSUME ~collided, NEW v \in Machine \ unwritten
               PROVE  /\ Cardinality({ip \in IP : <<v, ip>> \in hosts}) <= 1
                      /\ Idle(v) /\ cmd[v].ended = "ok" /\ ctr[v].state = "absent" => ~Line(v)
    BY DEF HostsNameOwn, Line
  <2> DEFINE lines == {ip \in IP : <<v, ip>> \in hosts}
  <2>1. OwnLine(v)
    BY <1>1 DEF PodInv, HostsInv, LineInv
  <2>2. lines = {} \/ \E ip \in IP : lines = {ip}
    BY <2>1 DEF OwnLine
  <2>3. Cardinality(lines) <= 1
    <3>1. Cardinality({}) = 0 /\ \A ip : Cardinality({ip}) = 1
      BY FS_EmptySet, FS_Singleton
    <3> HIDE DEF lines
    <3>2. Cardinality(lines) \in {0, 1}
      BY <2>2, <3>1
    <3> QED
      BY <3>2
  <2> QED
    BY <2>1, <2>3 DEF OwnLine, Before, Front, Idle
<1> QED
  BY <1>1, ContainerInvariant, PTL
=============================================================================
