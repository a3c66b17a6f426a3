--------------------------- MODULE ServicesProofs ---------------------------
(***************************************************************************)
(* Proofs about Services: its type invariant, what a row of user_services  *)
(* says of the panel, and the limits on trials and renames, for any number *)
(* of users, names and updates at the same time.                           *)
(***************************************************************************)
EXTENDS Services, TLAPS

(***************************************************************************)
(* The inductive invariant.  Each of the three properties is about what    *)
(* has been committed; to keep it, a step has to know what the flows in    *)
(* between have done already: which account a flow has made or is about to *)
(* delete, who has been given a trial that is not marked yet, and whose    *)
(* rename has been allowed but not stored.                                 *)
(***************************************************************************)

\* The local variables of a flow name a user and accounts.
LocalsOK ==
  \A k \in Tasks :
    /\ pc[k] # "idle" => loc[k].user \in Users /\ loc[k].name \in Names
    /\ pc[k] \in {"rename_delete", "rename_create"} => loc[k].old \in Names

\* A flow that is going to insert a row has made the account, and one that is
\* going to delete an account has said so.
Making == {"provisioned", "trial_made", "trial_marked"}
FlowsKnow ==
  \A k \in Tasks :
    /\ pc[k] \in Making /\ loc[k].name \notin doomed => loc[k].name \in accounts
    /\ pc[k] \in {"delete_panel", "delete_row"} => loc[k].name \in doomed
    /\ pc[k] = "rename_delete" => loc[k].old \in doomed

\* A trial in the making is the user's only one, and a trial that has been
\* given is marked or about to be.
InTrial(k, u) == pc[k] \in {"trial_read", "trial_made"} /\ loc[k].user = u
TrialsAccounted ==
  \A u \in Users \ slipped :
    /\ \A k \in Tasks : pc[k] = "trial_read" /\ loc[k].user = u => trials[u] = 0
    /\ \A j, k \in Tasks : InTrial(j, u) /\ InTrial(k, u) => j = k
    /\ trials[u] = 0 \/ u \in trialUsed
         \/ \E k \in Tasks : pc[k] = "trial_made" /\ loc[k].user = u

\* The same for renames, which are allowed before they are stored.
Allowed(k, u) == pc[k] = "rename_allowed" /\ loc[k].user = u
RenamesAccounted ==
  \A u \in Users \ hasty :
    /\ \A k \in Tasks : Allowed(k, u) => renames[u] = 0
    /\ \A j, k \in Tasks : Allowed(j, u) /\ Allowed(k, u) => j = k
    /\ renames[u] = 0 \/ u \in renamed

IInv ==
  /\ TypeOK /\ LocalsOK
  /\ FlowsKnow /\ RowHasAccount
  /\ TrialsAccounted /\ TrialOnce
  /\ RenamesAccounted /\ RenameWeekly

-----------------------------------------------------------------------------
(* Steps *)

\* What the steps of a flow do to its place and its local variables.
FlowsOK ==
  /\ pc \in [Tasks -> PCs]
  /\ loc \in [Tasks -> [user: Users \cup {None}, name: Names \cup {None},
                        old: Names \cup {None}]]
  /\ events \in 0..MaxEvents
  /\ LocalsOK

\* A flow starts with a user and an account.
LEMMA StartKeeps ==
  ASSUME TypeOK, LocalsOK, NEW k \in Tasks, NEW at \in PCs \ {"rename_delete", "rename_create"},
         NEW u \in Users, NEW n \in Names,
         Start(k, at, [NoLocals EXCEPT !.user = u, !.name = n])
  PROVE  FlowsOK'
<1> DEFINE locals == [NoLocals EXCEPT !.user = u, !.name = n]
<1>1. /\ locals \in [user: Users \cup {None}, name: Names \cup {None}, old: Names \cup {None}]
      /\ locals.user = u /\ locals.name = n
  BY DEF NoLocals
<1>2. Start(k, at, locals)
  OBVIOUS
<1> HIDE DEF locals
<1>3. pc' \in [Tasks -> PCs] /\ events' \in 0..MaxEvents
  BY <1>2, ServicesAssumption DEF TypeOK, Start
<1>4. loc' = [loc EXCEPT ![k] = locals]
  BY <1>2 DEF Start
<1>5. LocalsOK'
  BY <1>1, <1>2 DEF TypeOK, LocalsOK, Start
<1>6. QED
  BY <1>1, <1>3, <1>4, <1>5 DEF TypeOK, FlowsOK

\* A flow goes on with the locals it has.
LEMMA GoesKeeps ==
  ASSUME TypeOK, LocalsOK, NEW k \in Tasks, NEW to \in PCs \ {"rename_delete"}, Goes(k, to),
         pc[k] # "idle", to = "rename_create" => pc[k] = "rename_delete"
  PROVE  FlowsOK'
  BY DEF TypeOK, LocalsOK, FlowsOK, Goes

\* A flow that returns leaves no locals behind.
LEMMA ReturnKeeps ==
  ASSUME TypeOK, LocalsOK, NEW k \in Tasks, Return(k)
  PROVE  FlowsOK'
<1>1. /\ NoLocals \in [user: Users \cup {None}, name: Names \cup {None}, old: Names \cup {None}]
      /\ "idle" \in PCs
  BY DEF NoLocals, PCs
<1>2. LocalsOK'
  BY DEF TypeOK, LocalsOK, Return
<1>3. QED
  BY <1>1, <1>2 DEF TypeOK, FlowsOK, Return

\* Types, and what the flows in between know.
LEMMA TypeStep ==
  ASSUME TypeOK, LocalsOK, [Next]_vars
  PROVE  TypeOK' /\ LocalsOK'
<1> DEFINE Kept == TypeOK' /\ LocalsOK'
<1> USE ServicesAssumption DEF database, history
<1>1. ASSUME NEW k \in Tasks, NEW u \in Users, NEW n \in Names, Choose(k, u, n) PROVE Kept
  BY <1>1, StartKeeps DEF Choose, TypeOK, FlowsOK, PCs
<1>2. ASSUME NEW k \in Tasks, NEW u \in Users, NEW n \in Names, RenameAsk(k, u, n) PROVE Kept
  BY <1>2, StartKeeps DEF RenameAsk, TypeOK, FlowsOK, PCs
<1>3. ASSUME NEW k \in Tasks, NEW u \in Users, TrialRead(k, u) PROVE Kept
  <2>1. Default[u] \in Names /\ slipped' \subseteq Users
    BY <1>3 DEF TrialRead, TypeOK
  <2>2. FlowsOK'
    BY <1>3, <2>1, StartKeeps DEF TrialRead, PCs
  <2>3. QED
    BY <1>3, <2>1, <2>2 DEF TrialRead, TypeOK, FlowsOK
<1>4. ASSUME NEW k \in Tasks, NEW n \in Names, DeleteRead(k, n) PROVE Kept
  <2>1. owner[n] \in Users
    BY <1>4 DEF DeleteRead, TypeOK
  <2>2. Start(k, "delete_panel", [NoLocals EXCEPT !.user = owner[n], !.name = n])
    BY <1>4 DEF DeleteRead, NoLocals
  <2>3. QED
    BY <1>4, <2>1, <2>2, StartKeeps DEF DeleteRead, TypeOK, FlowsOK, PCs
<1>5. ASSUME NEW u \in Users, Week(u) \/ TrialReset(u) PROVE Kept
  BY <1>5 DEF Week, TrialReset, TypeOK, LocalsOK
<1>6. ASSUME NEW n \in Names, DeleteAccount(n) PROVE Kept
  BY <1>6 DEF DeleteAccount, TypeOK, LocalsOK
<1>7. ASSUME NEW n \in Names, CreateAccount(n) PROVE Kept
  BY <1>7 DEF CreateAccount, TypeOK, LocalsOK
<1>8. ASSUME NEW k \in Tasks, Provision(k) PROVE Kept
  <2>1. CASE Goes(k, "provisioned")
    BY <1>8, <2>1, GoesKeeps DEF Provision, PanelCall, TypeOK, FlowsOK, LocalsOK, PCs
  <2>2. CASE Return(k)
    BY <1>8, <2>2, ReturnKeeps DEF Provision, PanelCall, TypeOK, FlowsOK, LocalsOK
  <2>3. QED
    BY <1>8, <2>1, <2>2 DEF Provision, PanelCall
<1>9. ASSUME NEW k \in Tasks, ProvisionCommit(k) PROVE Kept
  BY <1>9, ReturnKeeps DEF ProvisionCommit, Upsert, TypeOK, FlowsOK, LocalsOK
<1>10. ASSUME NEW k \in Tasks, TrialMake(k) PROVE Kept
  <2>1. loc[k].user \in Users /\ loc[k].name \in Names
    BY <1>10 DEF TrialMake, LocalsOK
  <2>2. accounts' \subseteq Names /\ slipped' \subseteq Users /\ trials' \in [Users -> Nat]
    BY <1>10, <2>1 DEF TrialMake, TypeOK
  <2>3. Goes(k, "trial_made") \/ Return(k)
    BY <1>10 DEF TrialMake
  <2>4. FlowsOK'
    BY <1>10, <2>3, GoesKeeps, ReturnKeeps DEF TrialMake, PCs
  <2>5. QED
    BY <1>10, <2>2, <2>4 DEF TrialMake, TypeOK, FlowsOK
<1>11. ASSUME NEW k \in Tasks, TrialMark(k) PROVE Kept
  BY <1>11, GoesKeeps DEF TrialMark, TrialKey, TypeOK, FlowsOK, LocalsOK, PCs
<1>12. ASSUME NEW k \in Tasks, TrialCommit(k) PROVE Kept
  BY <1>12, ReturnKeeps DEF TrialCommit, Upsert, TypeOK, FlowsOK, LocalsOK
<1>13. ASSUME NEW k \in Tasks, RenameCheck(k) PROVE Kept
  <2>1. CASE Goes(k, "rename_allowed")
    BY <1>13, <2>1, GoesKeeps DEF RenameCheck, TypeOK, FlowsOK, LocalsOK, PCs
  <2>2. CASE Return(k)
    BY <1>13, <2>2, ReturnKeeps DEF RenameCheck, TypeOK, FlowsOK, LocalsOK
  <2>3. QED
    BY <1>13, <2>1, <2>2 DEF RenameCheck
<1>14. ASSUME NEW k \in Tasks, RenameCommit(k) PROVE Kept
  <2>1. CASE FreeName(loc[k].name)
    <3>1. loc[k].user \in Users /\ loc[k].name \in Names /\ main[loc[k].user] \in Names
      BY <1>14 DEF RenameCommit, TypeOK, LocalsOK
    <3>2. /\ main' = [main EXCEPT ![loc[k].user] = loc[k].name]
          /\ renamed' = renamed \cup {loc[k].user}
          /\ renames' = [renames EXCEPT ![loc[k].user] = @ + 1]
          /\ doomed' = doomed \cup {main[loc[k].user]}
          /\ pc' = [pc EXCEPT ![k] = "rename_delete"]
          /\ loc' = [loc EXCEPT ![k].old = main[loc[k].user]]
          /\ UNCHANGED <<owner, accounts, trialUsed, events, trials, slipped, hasty>>
      BY <1>14, <2>1 DEF RenameCommit, RenameSaved
    <3>3. /\ main' \in [Users -> Names] /\ renamed' \subseteq Users
          /\ renames' \in [Users -> Nat] /\ doomed' \subseteq Names
      BY <3>1, <3>2 DEF TypeOK
    <3>4. FlowsOK'
      <4>1. pc[k] = "rename_allowed"
        BY <1>14 DEF RenameCommit
      <4>2. /\ \A j \in Tasks \ {k} : loc'[j] = loc[j] /\ pc'[j] = pc[j]
            /\ loc'[k].user = loc[k].user /\ loc'[k].name = loc[k].name
            /\ loc'[k].old = main[loc[k].user]
        BY <3>2 DEF TypeOK
      <4>3. LocalsOK'
        BY <3>1, <4>1, <4>2 DEF LocalsOK
      <4>4. QED
        BY <3>1, <3>2, <4>3 DEF TypeOK, FlowsOK, PCs
    <3>5. QED
      BY <3>2, <3>3, <3>4 DEF TypeOK, FlowsOK
  <2>2. CASE ~FreeName(loc[k].name)
    BY <1>14, <2>2, ReturnKeeps DEF RenameCommit, TypeOK, FlowsOK
  <2>3. QED
    BY <2>1, <2>2
<1>15. ASSUME NEW k \in Tasks, RenameDelete(k) PROVE Kept
  BY <1>15, GoesKeeps DEF RenameDelete, TypeOK, FlowsOK, PCs
<1>16. ASSUME NEW k \in Tasks, RenameCreate(k) PROVE Kept
  BY <1>16, ReturnKeeps DEF RenameCreate, TypeOK, FlowsOK, LocalsOK
<1>17. ASSUME NEW k \in Tasks, DeletePanel(k) PROVE Kept
  <2>1. CASE Goes(k, "delete_row")
    BY <1>17, <2>1, GoesKeeps DEF DeletePanel, PanelCall, TypeOK, FlowsOK, LocalsOK, PCs
  <2>2. CASE Return(k)
    BY <1>17, <2>2, ReturnKeeps DEF DeletePanel, PanelCall, TypeOK, FlowsOK, LocalsOK
  <2>3. QED
    BY <1>17, <2>1, <2>2 DEF DeletePanel, PanelCall
<1>18. ASSUME NEW k \in Tasks, DeleteRow(k) PROVE Kept
  BY <1>18, ReturnKeeps DEF DeleteRow, TypeOK, FlowsOK, LocalsOK
<1>19. ASSUME NEW k \in Tasks, Abort(k) PROVE Kept
  BY <1>19, ReturnKeeps DEF Abort, TypeOK, FlowsOK, LocalsOK
<1>20. CASE UNCHANGED vars
  BY <1>20 DEF vars, TypeOK, LocalsOK
<1>21. QED
  BY <1>1, <1>2, <1>3, <1>4, <1>5, <1>6, <1>7, <1>8, <1>9, <1>10, <1>11, <1>12, <1>13, <1>14,
     <1>15, <1>16, <1>17, <1>18, <1>19, <1>20
     DEF Next, Step

\* A row is inserted after its account has been made.
LEMMA RowStep ==
  ASSUME TypeOK, LocalsOK, FlowsKnow, RowHasAccount, [Next]_vars
  PROVE  FlowsKnow' /\ RowHasAccount'
<1> DEFINE Kept == FlowsKnow' /\ RowHasAccount'
<1> USE ServicesAssumption DEF database, history, TypeOK, LocalsOK, FlowsKnow, RowHasAccount, Making
<1>1. ASSUME NEW k \in Tasks, NEW u \in Users, NEW n \in Names, Choose(k, u, n) PROVE Kept
  BY <1>1 DEF Choose, Start, NoLocals
<1>2. ASSUME NEW k \in Tasks, NEW u \in Users, NEW n \in Names, RenameAsk(k, u, n) PROVE Kept
  BY <1>2 DEF RenameAsk, Start, NoLocals
<1>3. ASSUME NEW k \in Tasks, NEW u \in Users, TrialRead(k, u) PROVE Kept
  BY <1>3 DEF TrialRead, Start, NoLocals
<1>4. ASSUME NEW k \in Tasks, NEW n \in Names, DeleteRead(k, n) PROVE Kept
  BY <1>4 DEF DeleteRead, Start, NoLocals
<1>5. ASSUME NEW u \in Users, Week(u) \/ TrialReset(u) PROVE Kept
  BY <1>5 DEF Week, TrialReset
<1>6. ASSUME NEW n \in Names, DeleteAccount(n) PROVE Kept
  BY <1>6 DEF DeleteAccount
<1>7. ASSUME NEW n \in Names, CreateAccount(n) PROVE Kept
  BY <1>7 DEF CreateAccount
<1>8. ASSUME NEW k \in Tasks, Provision(k) PROVE Kept
  BY <1>8 DEF Provision, PanelCall, Goes, Return, NoLocals
<1>9. ASSUME NEW k \in Tasks, ProvisionCommit(k) PROVE Kept
  BY <1>9 DEF ProvisionCommit, Upsert, Return, NoLocals
<1>10. ASSUME NEW k \in Tasks, TrialMake(k) PROVE Kept
  BY <1>10 DEF TrialMake, Goes, Return, NoLocals
<1>11. ASSUME NEW k \in Tasks, TrialMark(k) PROVE Kept
  BY <1>11 DEF TrialMark, Goes, TrialKey
<1>12. ASSUME NEW k \in Tasks, TrialCommit(k) PROVE Kept
  BY <1>12 DEF TrialCommit, Upsert, Return, NoLocals
<1>13. ASSUME NEW k \in Tasks, RenameCheck(k) PROVE Kept
  BY <1>13 DEF RenameCheck, Goes, Return, NoLocals
<1>14. ASSUME NEW k \in Tasks, RenameCommit(k) PROVE Kept
  BY <1>14 DEF RenameCommit, RenameSaved, Return, NoLocals
<1>15. ASSUME NEW k \in Tasks, RenameDelete(k) PROVE Kept
  BY <1>15 DEF RenameDelete, Goes
<1>16. ASSUME NEW k \in Tasks, RenameCreate(k) PROVE Kept
  BY <1>16 DEF RenameCreate, Return, NoLocals
<1>17. ASSUME NEW k \in Tasks, DeletePanel(k) PROVE Kept
  BY <1>17 DEF DeletePanel, PanelCall, Goes, Return, NoLocals
<1>18. ASSUME NEW k \in Tasks, DeleteRow(k) PROVE Kept
  BY <1>18 DEF DeleteRow, Return, NoLocals
<1>19. ASSUME NEW k \in Tasks, Abort(k) PROVE Kept
  BY <1>19 DEF Abort, Return, NoLocals
<1>20. CASE UNCHANGED vars
  BY <1>20 DEF vars
<1>21. QED
  BY <1>1, <1>2, <1>3, <1>4, <1>5, <1>6, <1>7, <1>8, <1>9, <1>10, <1>11, <1>12, <1>13, <1>14,
     <1>15, <1>16, <1>17, <1>18, <1>19, <1>20
     DEF Next, Step

\* A trial is given to a user who has had none.
LEMMA TrialStep ==
  ASSUME TypeOK, LocalsOK, TrialsAccounted, TrialOnce, [Next]_vars
  PROVE  TrialsAccounted' /\ TrialOnce'
<1> DEFINE Kept == TrialsAccounted' /\ TrialOnce'
<1> USE ServicesAssumption DEF database, history, TypeOK, LocalsOK, TrialsAccounted, TrialOnce,
       InTrial, Overlaps, TrialAllowed
<1>1. ASSUME NEW k \in Tasks, NEW u \in Users, NEW n \in Names, Choose(k, u, n) PROVE Kept
  BY <1>1 DEF Choose, Start, NoLocals
<1>2. ASSUME NEW k \in Tasks, NEW u \in Users, NEW n \in Names, RenameAsk(k, u, n) PROVE Kept
  BY <1>2 DEF RenameAsk, Start, NoLocals
<1>3. ASSUME NEW k \in Tasks, NEW u \in Users, TrialRead(k, u) PROVE Kept
  BY <1>3 DEF TrialRead, Start, NoLocals
<1>4. ASSUME NEW k \in Tasks, NEW n \in Names, DeleteRead(k, n) PROVE Kept
  BY <1>4 DEF DeleteRead, Start, NoLocals
<1>5. ASSUME NEW u \in Users, Week(u) \/ TrialReset(u) PROVE Kept
  BY <1>5 DEF Week, TrialReset
<1>6. ASSUME NEW n \in Names, DeleteAccount(n) PROVE Kept
  BY <1>6 DEF DeleteAccount
<1>7. ASSUME NEW n \in Names, CreateAccount(n) PROVE Kept
  BY <1>7 DEF CreateAccount
<1>8. ASSUME NEW k \in Tasks, Provision(k) PROVE Kept
  <2>1. CASE Goes(k, "provisioned")
    BY <1>8, <2>1 DEF Provision, Goes, PanelCall
  <2>2. CASE Return(k)
    BY <1>8, <2>2 DEF Provision, Return, NoLocals, PanelCall
  <2>3. QED
    BY <1>8, <2>1, <2>2 DEF Provision, PanelCall
<1>9. ASSUME NEW k \in Tasks, ProvisionCommit(k) PROVE Kept
  BY <1>9 DEF ProvisionCommit, Upsert, Return, NoLocals
<1>10. ASSUME NEW k \in Tasks, TrialMake(k) PROVE Kept
  <2>1. loc[k].user \in Users /\ pc[k] = "trial_read"
    BY <1>10 DEF TrialMake
  <2>2. CASE Goes(k, "trial_made")
    BY <1>10, <2>1, <2>2 DEF TrialMake, Goes
  <2>3. CASE Return(k) /\ slipped' = slipped \cup {loc[k].user} /\ trials' = trials
    BY <1>10, <2>1, <2>3 DEF TrialMake, Return, NoLocals
  <2>4. QED
    BY <1>10, <2>2, <2>3 DEF TrialMake
<1>11. ASSUME NEW k \in Tasks, TrialMark(k) PROVE Kept
  BY <1>11 DEF TrialMark, Goes, TrialKey
<1>12. ASSUME NEW k \in Tasks, TrialCommit(k) PROVE Kept
  BY <1>12 DEF TrialCommit, Upsert, Return, NoLocals
<1>13. ASSUME NEW k \in Tasks, RenameCheck(k) PROVE Kept
  <2>1. /\ \A j \in Tasks \ {k} : pc'[j] = pc[j] /\ loc'[j] = loc[j]
        /\ pc'[k] \notin {"trial_read", "trial_made"} /\ pc[k] = "rename"
    BY <1>13 DEF RenameCheck, Goes, Return
  <2>2. UNCHANGED <<trialUsed, trials, slipped>>
    BY <1>13 DEF RenameCheck
  <2>3. QED
    BY <2>1, <2>2
<1>14. ASSUME NEW k \in Tasks, RenameCommit(k) PROVE Kept
  <2>1. /\ \A j \in Tasks \ {k} : pc'[j] = pc[j] /\ loc'[j] = loc[j]
        /\ pc'[k] \notin {"trial_read", "trial_made"} /\ pc[k] = "rename_allowed"
    BY <1>14 DEF RenameCommit, Return
  <2>2. UNCHANGED <<trialUsed, trials, slipped>>
    BY <1>14 DEF RenameCommit
  <2>3. QED
    BY <2>1, <2>2
<1>15. ASSUME NEW k \in Tasks, RenameDelete(k) PROVE Kept
  BY <1>15 DEF RenameDelete, Goes
<1>16. ASSUME NEW k \in Tasks, RenameCreate(k) PROVE Kept
  BY <1>16 DEF RenameCreate, Return, NoLocals
<1>17. ASSUME NEW k \in Tasks, DeletePanel(k) PROVE Kept
  BY <1>17 DEF DeletePanel, PanelCall, Goes, Return, NoLocals
<1>18. ASSUME NEW k \in Tasks, DeleteRow(k) PROVE Kept
  BY <1>18 DEF DeleteRow, Return, NoLocals
<1>19. ASSUME NEW k \in Tasks, Abort(k) PROVE Kept
  BY <1>19 DEF Abort, Return, NoLocals
<1>20. CASE UNCHANGED vars
  BY <1>20 DEF vars
<1>21. QED
  BY <1>1, <1>2, <1>3, <1>4, <1>5, <1>6, <1>7, <1>8, <1>9, <1>10, <1>11, <1>12, <1>13, <1>14,
     <1>15, <1>16, <1>17, <1>18, <1>19, <1>20
     DEF Next, Step

\* A rename is allowed to a user who has made none.
LEMMA RenameStep ==
  ASSUME TypeOK, LocalsOK, RenamesAccounted, RenameWeekly, [Next]_vars
  PROVE  RenamesAccounted' /\ RenameWeekly'
<1> DEFINE Kept == RenamesAccounted' /\ RenameWeekly'
<1> USE ServicesAssumption DEF database, history, TypeOK, LocalsOK, RenamesAccounted,
       RenameWeekly, Allowed
<1>1. ASSUME NEW k \in Tasks, NEW u \in Users, NEW n \in Names, Choose(k, u, n) PROVE Kept
  BY <1>1 DEF Choose, Start, NoLocals
<1>2. ASSUME NEW k \in Tasks, NEW u \in Users, NEW n \in Names, RenameAsk(k, u, n) PROVE Kept
  BY <1>2 DEF RenameAsk, Start, NoLocals
<1>3. ASSUME NEW k \in Tasks, NEW u \in Users, TrialRead(k, u) PROVE Kept
  BY <1>3 DEF TrialRead, Start, NoLocals
<1>4. ASSUME NEW k \in Tasks, NEW n \in Names, DeleteRead(k, n) PROVE Kept
  BY <1>4 DEF DeleteRead, Start, NoLocals
<1>5. ASSUME NEW u \in Users, Week(u) \/ TrialReset(u) PROVE Kept
  BY <1>5 DEF Week, TrialReset
<1>6. ASSUME NEW n \in Names, DeleteAccount(n) PROVE Kept
  BY <1>6 DEF DeleteAccount
<1>7. ASSUME NEW n \in Names, CreateAccount(n) PROVE Kept
  BY <1>7 DEF CreateAccount
<1>8. ASSUME NEW k \in Tasks, Provision(k) PROVE Kept
  <2>1. CASE Goes(k, "provisioned")
    BY <1>8, <2>1 DEF Provision, Goes, PanelCall
  <2>2. CASE Return(k)
    BY <1>8, <2>2 DEF Provision, Return, NoLocals, PanelCall
  <2>3. QED
    BY <1>8, <2>1, <2>2 DEF Provision, PanelCall
<1>9. ASSUME NEW k \in Tasks, ProvisionCommit(k) PROVE Kept
  BY <1>9 DEF ProvisionCommit, Upsert, Return, NoLocals
<1>10. ASSUME NEW k \in Tasks, TrialMake(k) PROVE Kept
  <2>1. CASE Goes(k, "trial_made")
    BY <1>10, <2>1 DEF TrialMake, Goes
  <2>2. CASE Return(k)
    BY <1>10, <2>2 DEF TrialMake, Return, NoLocals
  <2>3. QED
    BY <1>10, <2>1, <2>2 DEF TrialMake
<1>11. ASSUME NEW k \in Tasks, TrialMark(k) PROVE Kept
  BY <1>11 DEF TrialMark, Goes, TrialKey
<1>12. ASSUME NEW k \in Tasks, TrialCommit(k) PROVE Kept
  BY <1>12 DEF TrialCommit, Upsert, Return, NoLocals
<1>13. ASSUME NEW k \in Tasks, RenameCheck(k) PROVE Kept
  <2>1. loc[k].user \in Users
    BY <1>13 DEF RenameCheck
  <2>2. CASE loc[k].user \in renamed
    <3>1. /\ \A j \in Tasks \ {k} : pc'[j] = pc[j] /\ loc'[j] = loc[j]
          /\ pc'[k] = "idle"
          /\ renames' = renames /\ renamed' = renamed /\ hasty' = hasty
      BY <1>13, <2>2 DEF RenameCheck, Return
    <3>2. QED
      BY <3>1
  <2>3. CASE loc[k].user \notin renamed
    <3>1. /\ pc' = [pc EXCEPT ![k] = "rename_allowed"] /\ loc' = loc
          /\ renames' = renames /\ renamed' = renamed
      BY <1>13, <2>3 DEF RenameCheck, Goes
    <3>2. /\ hasty' = hasty \cup {loc[k].user}
          \/ /\ hasty' = hasty
             /\ \A j \in Tasks : ~Allowed(j, loc[k].user)
      BY <1>13, <2>3 DEF RenameCheck
    <3>3. QED
      BY <2>1, <2>3, <3>1, <3>2
  <2>4. QED
    BY <2>2, <2>3
<1>14. ASSUME NEW k \in Tasks, RenameCommit(k) PROVE Kept
  <2>1. loc[k].user \in Users /\ Allowed(k, loc[k].user)
    BY <1>14 DEF RenameCommit
  <2>2. /\ \A j \in Tasks \ {k} : pc'[j] = pc[j] /\ loc'[j] = loc[j]
        /\ pc'[k] # "rename_allowed" /\ hasty' = hasty
    BY <1>14 DEF RenameCommit, Return
  <2>3. \/ renames' = renames /\ renamed' = renamed
        \/ /\ renames' = [renames EXCEPT ![loc[k].user] = @ + 1]
           /\ renamed' = renamed \cup {loc[k].user}
    BY <1>14 DEF RenameCommit, RenameSaved
  <2>4. ASSUME NEW u \in Users \ hasty', u = loc[k].user
        PROVE  /\ \A j \in Tasks : ~Allowed(j, u)'
               /\ renames[u] = 0 /\ renames'[u] <= 1 /\ (renames'[u] = 0 \/ u \in renamed')
    BY <2>1, <2>2, <2>3, <2>4
  <2>5. ASSUME NEW u \in Users, u # loc[k].user
        PROVE  /\ \A j \in Tasks : Allowed(j, u)' <=> Allowed(j, u)
               /\ renames'[u] = renames[u] /\ (u \in renamed' <=> u \in renamed)
    BY <2>1, <2>2, <2>3, <2>5
  <2>6. QED
    BY <2>2, <2>4, <2>5
<1>15. ASSUME NEW k \in Tasks, RenameDelete(k) PROVE Kept
  BY <1>15 DEF RenameDelete, Goes
<1>16. ASSUME NEW k \in Tasks, RenameCreate(k) PROVE Kept
  BY <1>16 DEF RenameCreate, Return, NoLocals
<1>17. ASSUME NEW k \in Tasks, DeletePanel(k) PROVE Kept
  <2>1. CASE Goes(k, "delete_row")
    BY <1>17, <2>1 DEF DeletePanel, Goes, PanelCall
  <2>2. CASE Return(k)
    BY <1>17, <2>2 DEF DeletePanel, Return, NoLocals, PanelCall
  <2>3. QED
    BY <1>17, <2>1, <2>2 DEF DeletePanel, PanelCall
<1>18. ASSUME NEW k \in Tasks, DeleteRow(k) PROVE Kept
  BY <1>18 DEF DeleteRow, Return, NoLocals
<1>19. ASSUME NEW k \in Tasks, Abort(k) PROVE Kept
  BY <1>19 DEF Abort, Return, NoLocals
<1>20. CASE UNCHANGED vars
  BY <1>20 DEF vars
<1>21. QED
  BY <1>1, <1>2, <1>3, <1>4, <1>5, <1>6, <1>7, <1>8, <1>9, <1>10, <1>11, <1>12, <1>13, <1>14,
     <1>15, <1>16, <1>17, <1>18, <1>19, <1>20
     DEF Next, Step

-----------------------------------------------------------------------------
(* Results *)

\* The invariant holds when the bot is new.
LEMMA InitIInv == Init => IInv
<1> SUFFICES ASSUME Init PROVE IInv
  OBVIOUS
<1> USE ServicesAssumption DEF Init, NoLocals
<1>1. TypeOK /\ LocalsOK
  BY DEF TypeOK, LocalsOK, PCs
<1>2. FlowsKnow /\ RowHasAccount
  BY DEF FlowsKnow, RowHasAccount, Making
<1>3. TrialsAccounted /\ TrialOnce
  BY DEF TrialsAccounted, TrialOnce, InTrial
<1>4. RenamesAccounted /\ RenameWeekly
  BY DEF RenamesAccounted, RenameWeekly, Allowed
<1>5. QED
  BY <1>1, <1>2, <1>3, <1>4 DEF IInv

\* Every step keeps it.
LEMMA NextIInv == IInv /\ [Next]_vars => IInv'
  BY TypeStep, RowStep, TrialStep, RenameStep DEF IInv

\* The invariant holds in every reachable state: flows know what they have
\* made, trials and renames that are not stored yet are accounted for.
THEOREM Invariant == Spec => []IInv
<1>1. Init => IInv
  BY InitIInv
<1>2. IInv /\ [Next]_vars => IInv'
  BY NextIInv
<1>3. QED
  BY <1>1, <1>2, PTL DEF Spec

\* The tables, the panel, the flows and the history keep their types.
THEOREM TypeCorrect == Spec => []TypeOK
<1>1. IInv => TypeOK
  BY DEF IInv
<1>2. QED
  BY <1>1, Invariant, PTL

\* Every row of user_services that no rename and no admin has doomed has its
\* account, although each call to the panel may fail after its effect.
THEOREM RowsHaveAccounts == Spec => []RowHasAccount
<1>1. IInv => RowHasAccount
  BY DEF IInv
<1>2. QED
  BY <1>1, Invariant, PTL

\* One trial, and one more for each reset, for a user whose trials were checked
\* and marked one after the other.
THEOREM OneTrial == Spec => []TrialOnce
<1>1. IInv => TrialOnce
  BY DEF IInv
<1>2. QED
  BY <1>1, Invariant, PTL

\* One rename a week for a user whose renames were checked one by one.
THEOREM OneRenameAWeek == Spec => []RenameWeekly
<1>1. IInv => RenameWeekly
  BY DEF IInv
<1>2. QED
  BY <1>1, Invariant, PTL
=============================================================================
