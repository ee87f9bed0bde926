-------------------------------- MODULE Node --------------------------------
(***************************************************************************)
(* One heartd process over its database (cmd/heartd/main.go): it loads the *)
(* settings, seeding them at its first start, and only then serves; the    *)
(* dashboard's requests for accounts (Accounts) and settings (Settings)    *)
(* run at once, the latter for a logged-in user only; the process may stop *)
(* at any moment and starts again on what the tables hold.                 *)
(***************************************************************************)
EXTENDS Settings

vars == <<accountVars, settingsVars, events>>

(* Accounts are made by a process that serves, so that has loaded. *)
Init ==
  /\ AccountsInit /\ SettingsInit /\ events = 0
  /\ user # {} => setting # <<>>

Serve ==
  \/ Serving /\ AccountsServe /\ UNCHANGED settingsVars
  \/ SettingsServe /\ UNCHANGED accountVars
  \/ SettingsRun /\ UNCHANGED <<accountVars, events>>
  \/ Serving /\ Tick /\ UNCHANGED settingsVars

Restart == Spent /\ AccountsStop /\ SettingsRestart

Next == Serve \/ Restart

Spec == Init /\ [][Next]_vars

(* The variables have the shape the code gives them. *)
TypeOK == AccountsTypeOK /\ SettingsTypeOK /\ events \in 0..MaxEvents
=============================================================================
