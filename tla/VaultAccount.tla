---------------------------- MODULE VaultAccount ----------------------------
(***************************************************************************)
(* What the account of one Telegram user promises, without requests,       *)
(* envelopes, hashes or routing: it is created once, its user key never    *)
(* changes, its password changes only when a device asked for it while it  *)
(* was unlocked (and may be locked by then), and a device that is unlocked *)
(* holds that key and no other                                             *)
(* (password-change.ts:6-9, register.ts:47-51).                            *)
(***************************************************************************)
CONSTANTS Devices, Passwords, Keys, None

VARIABLES
  vault,    \* None, or the account: its password and its user key
  open,     \* device -> the user key it holds while unlocked, or None
  changing  \* devices that have asked for another password

vars == <<vault, open, changing>>

Init ==
  /\ vault = None
  /\ open = [d \in Devices |-> None]
  /\ changing = {}

(* The first registration that reaches the server.                         *)
Create(password, key) ==
  /\ vault = None
  /\ vault' = [password |-> password, key |-> key]
  /\ UNCHANGED <<open, changing>>

Unlock(d) ==
  /\ vault # None
  /\ open' = [open EXCEPT ![d] = vault.key]
  /\ UNCHANGED <<vault, changing>>

Ask(d) ==
  /\ open[d] # None
  /\ changing' = changing \cup {d}
  /\ UNCHANGED <<vault, open>>

GiveUp(d) ==
  /\ changing' = changing \ {d}
  /\ UNCHANGED <<vault, open>>

(* A lock may forget what it asked for, or not stop it.                    *)
Lock(d) ==
  /\ open' = [open EXCEPT ![d] = None]
  /\ changing' \in {changing, changing \ {d}}
  /\ UNCHANGED vault

(* Only the password changes; the device locks, unless it never hears of   *)
(* its own success.  What else was asked for may fail by this.             *)
Change(d, password) ==
  /\ vault # None
  /\ d \in changing
  /\ vault' = [password |-> password, key |-> vault.key]
  /\ open' \in {open, [open EXCEPT ![d] = None]}
  /\ changing' \subseteq changing

Next ==
  \/ \E p \in Passwords, k \in Keys : Create(p, k)
  \/ \E d \in Devices : Unlock(d) \/ Ask(d) \/ GiveUp(d) \/ Lock(d)
  \/ \E d \in Devices, p \in Passwords : Change(d, p)

Spec == Init /\ [][Next]_vars
=============================================================================
