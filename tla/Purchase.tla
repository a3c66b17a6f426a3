------------------------------ MODULE Purchase ------------------------------
(***************************************************************************)
(* A purchase from the buttons to the panel: the dialog of module          *)
(* PlanDialog decides which account is provisioned, the flows of module    *)
(* Accounts provision it while admins change accounts, and the purchase is *)
(* committed when the last call has been answered.                         *)
(***************************************************************************)
EXTENDS PlanDialog, Accounts

ASSUME PurchaseAssumption == Accounts = Names /\ Buyers \subseteq Flows

vars == <<dialogVars, accountVars>>

TypeOK == DialogTypeOK /\ AccountsTypeOK

\* A service has its account.
Init ==
  /\ DialogInit
  /\ acct \in [Names -> {Absent, Fresh, Old}]
  /\ \A n \in Names : acct[n] # Absent <=> n \in mine
  /\ AccountsInit

Admins == Flows \ Buyers

\* A confirmation is pressed.
Confirms(b) ==
  /\ \E p \in Plans : PlanFinal(b, p)
  /\ Event
  /\ UNCHANGED <<acct, today, flow, owed, overtaken>>

\* The account is known, and the panel is asked.
Purchases(b) ==
  /\ PlanTarget(b)
  /\ Provision(b, Target(b))
  /\ UNCHANGED <<acct, today, events, owed, overtaken>>

\* A call that fails is the end of the purchase.
Provisioning(b) ==
  /\ FlowStep(b)
  /\ IF flow'[b].at = "idle" THEN PurchaseFails(b) ELSE UNCHANGED dialogVars

Commit(b) ==
  /\ flow[b].at = "done" /\ PurchaseCommit(b)
  /\ Returns(b)
  /\ UNCHANGED <<acct, today, events, owed, overtaken>>

\* Rolled back, for an error before the first or after the last call too.
Fail(b) ==
  /\ PurchaseFails(b) /\ Returns(b)
  /\ UNCHANGED <<acct, today, events, owed, overtaken>>

Next ==
  \/ PressButton /\ UNCHANGED accountVars
  \/ \E b \in Buyers : Confirms(b) \/ Purchases(b) \/ Provisioning(b) \/ Commit(b) \/ Fail(b)
  \/ \E k \in Admins : (FlowStep(k) \/ AdminStep(k)) /\ UNCHANGED dialogVars
  \/ Day /\ UNCHANGED dialogVars

Spec == Init /\ [][Next]_vars

-----------------------------------------------------------------------------
(* Properties *)

\* What the message of the confirmation promised is what is committed: the
\* account it names has the volume and the expiry of the plan - whatever was
\* chosen in earlier dialogs, if the dialog was gone through without older
\* keyboards, failures or the end of another purchase in between; unless the
\* choices were changed after the press and before the purchase had read
\* them; and unless somebody else has changed the account in the meantime.
ConfirmedIsDelivered ==
  [][\A b \in Buyers :
       Commit(b) /\ selling[b].shown # None /\ ~flow[b].crossed
         => acct[selling[b].shown] = flow[b].saw]_vars

\* docs/Roadmap.md: a renewal adds the volume of the plan to what the account
\* has.
RenewalAddsVolume ==
  [][\A b \in Buyers :
       flow[b].at = "limit" /\ flow'[b].at = "done" /\ selling[b].extends
         /\ acct[selling[b].name].limit > 0
       => acct'[selling[b].name].limit = acct[selling[b].name].limit + PlanVolume]_vars
=============================================================================
