----------------------------- MODULE MCServices -----------------------------
(***************************************************************************)
(* Programs beside the chain that share no state, each explored on its own *)
(* for safety: `part` says which of them runs.                             *)
(*   settlement  s runs the script; q attests what it likes, a history     *)
(*               with b and o in it too, and may be caught.  b is a burn,  *)
(*               o a bridge-out.                                           *)
(*   launcher    three releases: the second crashes, the third is          *)
(*               mandatory and brings a new supervisor                     *)
(*   grants      two persons, of one service in a behaviour                *)
(***************************************************************************)
EXTENDS Settlement, Launcher, Grants

MCRelease == 1 .. 3
MCRuns == {1, 3}
MCCarries == <<1, 1, 2>>
MCMinLauncher == <<0, 0, 1>>
MCBefore == <<0, 0, 1>>
MCStaged == {2}

VARIABLE part

vars == <<settlementVars, launcherVars, grantsVars, part>>

Init ==
  /\ SettlementInit /\ LauncherInit /\ GrantsInit
  /\ part \in {"settlement", "launcher", "grants"}

OneService ==
  \/ claims = {} /\ Of("treasury", network) = {}
  \/ Of("issuer", network) = {} /\ \A p \in Person : grants[p] = "none"

Next ==
  /\ \/ part = "settlement" /\ SettlementNext /\ UNCHANGED <<launcherVars, grantsVars>>
     \/ part = "launcher" /\ LauncherNext /\ UNCHANGED <<settlementVars, grantsVars>>
     \/ part = "grants" /\ GrantsNext /\ OneService' /\ UNCHANGED <<settlementVars, launcherVars>>
  /\ UNCHANGED part

Spec == Init /\ [][Next]_vars

=============================================================================
