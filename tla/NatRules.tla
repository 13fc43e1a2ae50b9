------------------------------- MODULE NatRules -------------------------------
(***************************************************************************)
(* What lrkproxy_module promises the packets: a table with at most one     *)
(* translation rule per key, where a key is the sender's address and the   *)
(* port of the proxy it sends to.  A rule stays as it was installed until  *)
(* it is removed; setting a call up again does not change it.              *)
(***************************************************************************)
CONSTANTS
  Key,     \* <<source address, destination port>>
  Rule,    \* translation rules
  KeyOf,   \* the key each rule is for, [Rule -> Key]
  NoRule   \* no rule: packets with this key are not translated

VARIABLE rule

Init == rule = [k \in Key |-> NoRule]

Install(r) ==
  /\ rule[KeyOf[r]] = NoRule
  /\ rule' = [rule EXCEPT ![KeyOf[r]] = r]

Remove(k) ==
  /\ rule[k] # NoRule
  /\ rule' = [rule EXCEPT ![k] = NoRule]

Next == (\E r \in Rule : Install(r)) \/ (\E k \in Key : Remove(k))

Spec == Init /\ [][Next]_rule
=============================================================================
