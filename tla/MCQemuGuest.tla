----------------------------- MODULE MCQemuGuest -----------------------------
(* Two machines: one whose vm.yaml the operator changes, with the profiles   *)
(* and settings that meet each other, and one that is made beside it.        *)
EXTENDS QemuGuest, TLC

CONSTANTS m1, m2

Plain == [s \in Setting |-> IF s = "limits" THEN 1 ELSE 0] @@ [provision |-> "none"]
MCConfs ==
  m1 :> {[Plain EXCEPT !.provision = "full-ci", !.policy = 1, !.files = 1, !.provider = 1,
                       !.credentials = 1, !.web = 1],
         [Plain EXCEPT !.provision = "guard", !.policy = 2, !.provider = 2, !.openvpn = 1],
         [Plain EXCEPT !.limits = 2, !.env = 1, !.ssh = 1, !.policy = 1],
         [Plain EXCEPT !.provision = "guard", !.files = 1],
         [Plain EXCEPT !.files = 1]}
    @@ m2 :> {Plain}
MCCommands == {m1 :> 3 @@ m2 :> 0, m1 :> 2 @@ m2 :> 1}
=============================================================================
