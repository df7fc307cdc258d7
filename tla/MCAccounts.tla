------------------------------- MODULE MCAccounts -------------------------------
(***************************************************************************)
(* Two requests for the tier, two tiers, a key that lives for three        *)
(* minutes, and two logins.  The tier and the logins share no variable and *)
(* no property relates them: TLC moves one while the other has not begun,  *)
(* which reaches every state of each.                                      *)
(***************************************************************************)
EXTENDS Accounts

MCAccountsSpec ==
  AccountsInit /\ [][(TierNext /\ LoginInit) \/ (LoginNext /\ TierInit)]_accountsVars
================================================================================
