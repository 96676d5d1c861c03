----------------------------- MODULE MCAccounts -----------------------------
(***************************************************************************)
(* Instances of Accounts: one email, one administrator.                    *)
(***************************************************************************)
EXTENDS Accounts, TLC

CONSTANTS p1, p2,
  Events, Registers, Googles, Logins, Confirms, Votes, Assigns, Deletes, Faults, Disconnects, Crashes

MCBound ==
  [event |-> Events, register |-> Registers, google |-> Googles, login |-> Logins,
   confirm |-> Confirms, vote |-> Votes, assign |-> Assigns, delete |-> Deletes,
   fault |-> Faults, disconnect |-> Disconnects, crash |-> Crashes]

\* Other rights than the default ones, and than the administrator's own.
MCAssigned == {[root |-> FALSE, perms |-> {"editText", "subscribe"}]}

Symmetry == Permutations(Proc) \cup Permutations(Email)
=============================================================================
