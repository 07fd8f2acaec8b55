------------------------ MODULE AnchoringProperties ------------------------
(***************************************************************************)
(* What the analytics chain owes to an auditor who reads its records, its  *)
(* enumeration, its statistics or its logs: that these four views of the   *)
(* anchorings agree, and that nothing once anchored changes.               *)
(***************************************************************************)
EXTENDS SupplyChainAnchoring

Anchored == {r \in Bytes32 : IsAnchored(r)}

-----------------------------------------------------------------------------
(* The records.                                                            *)

\* The enumeration lists every anchored root exactly once, each under its own
\* key, and the total is its length.  (One anchoring writes a mapping, an
\* array and a counter.)
EnumerationConsistent ==
    /\ totalAnchorings = Len(merkleRoots)
    /\ \A i, j \in DOMAIN merkleRoots : merkleRoots[i] = merkleRoots[j] => i = j
    /\ {merkleRoots[i] : i \in DOMAIN merkleRoots} = Anchored
    /\ \A r \in Anchored : anchorings[r].merkleRoot = r

\* "Store the root and metadata once; duplicate roots are rejected above":
\* whoever submits, resubmits or takes over the contract, an anchoring record
\* is never changed and never removed.
Registry ==
    INSTANCE WriteOnceRegistry
        WITH registry <- [r \in Anchored |-> anchorings[r]]
AnchoringsAreWriteOnce == Registry!Spec

\* getStatistics reports the most recent anchoring: no anchored record is from
\* a later block than the one whose timestamp it returns, and the enumeration
\* is in the order of anchoring.
StatisticsReportLatest ==
    /\ merkleRoots # <<>> =>
          /\ GetStatistics.latestRoot \in Anchored
          /\ GetStatistics.latestTimestamp
                = anchorings[GetStatistics.latestRoot].timestamp
          /\ \A r \in Anchored :
                anchorings[r].anchorBlock
                    <= anchorings[GetStatistics.latestRoot].anchorBlock
    /\ \A i, j \in DOMAIN merkleRoots :
          i <= j => anchorings[merkleRoots[i]].anchorBlock
                       <= anchorings[merkleRoots[j]].anchorBlock

-----------------------------------------------------------------------------
(* The logs.                                                               *)

Logs(kind) == {i \in DOMAIN emitted : emitted[i].kind = kind}

\* The authorization changes of account a among the first n logs.
Changes(logs, a, n) ==
    {i \in DOMAIN logs :
        /\ i <= n
        /\ logs[i].kind = "SubmitterAuthorizationChanged"
        /\ logs[i].submitter = a}

\* Whether account a is authorized after the first n logs: as its last change
\* says, or as the constructor left it.
AuthorizedAfter(logs, a, n) ==
    IF Changes(logs, a, n) = {} THEN a = Deployer
    ELSE \E last \in Changes(logs, a, n) :
            /\ \A i \in Changes(logs, a, n) : i <= last
            /\ logs[last].authorized

\* Every anchoring came from an account that was authorized at that point of
\* the log: a revoked submitter anchors nothing after its revocation, and a
\* transfer of the ownership authorizes nobody.
SubmittersWereAuthorized ==
    \A n \in Logs("ReconciliationAnchored") :
        AuthorizedAfter(emitted, emitted[n].submitter, n)

\* The records can be rebuilt from the logs alone: each anchored root was
\* announced by exactly one log, with the submitter and payload on record.
LogsRebuildRecords ==
    /\ \A r \in Anchored :
          \E n \in Logs("ReconciliationAnchored") :
             /\ emitted[n].payload.merkleRoot = r
             /\ emitted[n].submitter = anchorings[r].submitter
             /\ \A field \in DOMAIN emitted[n].payload :
                   emitted[n].payload[field] = anchorings[r][field]
    /\ \A m, n \in Logs("ReconciliationAnchored") :
          emitted[m].payload.merkleRoot = emitted[n].payload.merkleRoot => m = n
    /\ \A n \in Logs("ReconciliationAnchored") :
          emitted[n].payload.merkleRoot \in Anchored

=============================================================================
