------------------------------ MODULE MCCallPath ------------------------------
(* One call, set up and torn down.  The caller is behind a NAT, so its     *)
(* media comes from another port than it announces; the callee is on hold, *)
(* names 0.0.0.0 and sends nothing; and a third host sends to the proxy's  *)
(* ports too.                                                              *)
EXTENDS CallPath, TLC

CONSTANTS s1, d1

Proxy == 0
Alice == 2
Zero == 4
Other == 6

At(ip, port) == [ip |-> ip, port |-> port]

MCMessage == {s1, d1}
MCSetup == {s1}
MCPort == {5, 6}
MCFirstPort == [m \in MCMessage |-> 5]
MCSecondPort == [m \in MCMessage |-> 6]
MCSize == [m \in MCMessage |-> 1]

MCIp == {Proxy, Alice, Zero, Other}
MCUdpPort == {0, 1, 2, 5, 6, 7, 9}
MCSessionOf ==
  [m \in MCMessage |-> [src |-> At(Alice, 1), snat |-> At(Proxy, 5),
                        dst |-> At(Proxy, 6), dnat |-> At(Zero, 2)]]
MCMedia == {At(Alice, 7), At(Other, 9)}
MCBucket == MCIp \X MCUdpPort
MCBucketOf == [k \in MCBucket |-> k]
=============================================================================
