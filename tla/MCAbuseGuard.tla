---------------------------- MODULE MCAbuseGuard ----------------------------
(* Instances of AbuseGuard for TLC. *)
EXTENDS AbuseGuard, TLC

CONSTANTS alice, aliceUid, bobUid

AliceUid == alice :> aliceUid

\* The serial run leaves out the history of failures, the overlapping run the
\* other two.
serialView  == <<now, peer, failure, thread, passed, promised>>
overlapView == <<now, peer, failure, thread, failedAt>>

\* Bound: failures of a user since his last success.
FewFailures == \A u \in Users : Len(failedAt[u]) <= 4

=============================================================================
