---------------------------- MODULE RelayContract ----------------------------
(***************************************************************************)
(* What user_space promises the requests it takes from its Unix socket:    *)
(* each is delivered or given up once, and none is given up except a setup *)
(* that wants a port another setup, still under way, wants too, or a port  *)
(* that somebody else on the host holds.                                   *)
(***************************************************************************)
CONSTANTS
  Id,        \* names for the requests taken
  Message,   \* requests
  Competing  \* pairs of setups that want a common port

VARIABLES taken, delivered, dropped, barred  \* sets of <<name, request>>

Ticket == Id \X Message

Init == taken = {} /\ delivered = {} /\ dropped = {} /\ barred = {}

Take(t) ==
  /\ \A u \in taken \union delivered \union dropped \union barred : u[1] # t[1]
  /\ taken' = taken \union {t}
  /\ UNCHANGED <<delivered, dropped, barred>>

Deliver(t) ==
  /\ t \in taken
  /\ taken' = taken \ {t}
  /\ delivered' = delivered \union {t}
  /\ UNCHANGED <<dropped, barred>>

Drop(t) ==
  /\ t \in taken
  /\ \E u \in taken \ {t} : <<t[2], u[2]>> \in Competing
  /\ taken' = taken \ {t}
  /\ dropped' = dropped \union {t}
  /\ UNCHANGED <<delivered, barred>>

(* The port of a setup is held by a stranger.                              *)
Bar(t) ==
  /\ t \in taken /\ \E m \in Message : <<t[2], m>> \in Competing
  /\ taken' = taken \ {t}
  /\ barred' = barred \union {t}
  /\ UNCHANGED <<delivered, dropped>>

Next == \E t \in Ticket : Take(t) \/ Deliver(t) \/ Drop(t) \/ Bar(t)

Spec == Init /\ [][Next]_<<taken, delivered, dropped, barred>>
=============================================================================
