---------------------------- MODULE MCAcpClient ----------------------------
(* Small instances of AcpClient for TLC: the load, the first request and the  *)
(* first Cancel are of one session, the second request of another.            *)
EXTENDS AcpClient

CONSTANTS load, prompt, r1, r2, k1, s1, s2

MCSessionOf == [x \in {load, r1, k1} |-> s1] @@ [x \in {r2} |-> s2]
=============================================================================
