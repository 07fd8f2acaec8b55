--------------------------- MODULE IpfsMeasurement ---------------------------
(***************************************************************************)
(* ipfs_measure.py: payloads are added to a local IPFS repository, fetched *)
(* again and checked against a Merkle root over their digests.  Every      *)
(* command is another process, which may fail; run() takes its output and  *)
(* ignores its exit code, so that a failure is an empty output.            *)
(*                                                                         *)
(* The payloads are the window of MerkleTrees; its own windows, filled     *)
(* event by event, are the case in which no measurement begins.            *)
(*                                                                         *)
(* An operator commented "Fault:" is a faulty variant of the operator that *)
(* follows it; the specification does not use it.                          *)
(***************************************************************************)
EXTENDS MerkleTrees, FiniteSets

CONSTANTS
    n,      \* payloads of the measurement (64)
    idx     \* the position whose inclusion is checked (37), from 0

VARIABLES
    pc,         \* the step of main that comes next
    ready,      \* whether the repository was initialized
    repo,       \* the contents it stores
    cids,       \* what the adds of the payloads returned
    readded,    \* what the second add of the first payload returned
    roundtrip,  \* the positions that came back byte-identical, of those read
    tamper_cid, \* what the add of the tampered payload returned
    fetched     \* what was fetched for the inclusion check

ipfs == <<ready, repo, cids, readded, roundtrip, tamper_cid, fetched>>
measureVars == <<window, pc, ipfs>>

ASSUME MeasurementAssumption == n \in Nat \ {0} /\ idx \in 0 .. n - 1

\* event(i): its timestamp makes each payload another.
Event(i) == [ts |-> i]
Tampered(payload) == [tampered |-> payload]

\* Output of a command that failed.
NoOutput == [output |-> "empty"]

\* The content identifier is a hash of the content.
Cid(content) == [cid |-> content]

\* What add can return, and cat: what it should, or nothing.
AddOutputs(content) == {NoOutput} \cup (IF ready THEN {Cid(content)} ELSE {})
AddEffect(content, output) ==
    repo' = repo \cup {c \in {content} : output = Cid(c)}

\* Fault: a fetch that fails leaves the payload that was expected.
CatOutputsExpected(cid, expected) == {expected}

CatOutputs(cid, expected) ==
    {NoOutput} \cup {c \in repo : cid = Cid(c)}

-----------------------------------------------------------------------------

MeasureInit ==
    /\ Init
    /\ pc = "payloads"
    /\ ready \in BOOLEAN        \* a config file may exist already
    /\ repo = {}
    /\ cids = <<>>
    /\ readded = NoOutput
    /\ roundtrip = <<>>
    /\ tamper_cid = NoOutput
    /\ fetched = NoOutput

RecordOnly ==
    /\ pc = "payloads"
    /\ Record
    /\ UNCHANGED <<pc, ipfs>>

\* ipfs init, unless there is a repository; it may fail.
Prepare ==
    /\ pc = "payloads"
    /\ window = <<>>
    /\ window' = [k \in 1 .. n |-> Event(k - 1)]
    /\ ready' \in (IF ready THEN {TRUE} ELSE BOOLEAN)
    /\ pc' = "add"
    /\ UNCHANGED <<repo, cids, readded, roundtrip, tamper_cid, fetched>>

\* cids = [add(p) for p in payloads], then the first payload again.
Add ==
    /\ pc = "add"
    /\ Len(cids) < n
    /\ LET content == window[Len(cids) + 1] IN
       \E output \in AddOutputs(content) :
          cids' = Append(cids, output) /\ AddEffect(content, output)
    /\ UNCHANGED <<window, pc, ready, readded, roundtrip, tamper_cid, fetched>>

AddAgain ==
    /\ pc = "add"
    /\ Len(cids) = n
    /\ readded' \in AddOutputs(window[1])
    /\ AddEffect(window[1], readded')
    /\ pc' = "cat"
    /\ UNCHANGED <<window, ready, cids, roundtrip, tamper_cid, fetched>>

Cat ==
    /\ pc = "cat"
    /\ Len(roundtrip) < n
    /\ LET k == Len(roundtrip) + 1 IN
       \E output \in CatOutputs(cids[k], window[k]) :
          roundtrip' = Append(roundtrip, output = window[k])
    /\ UNCHANGED <<window, pc, ready, repo, cids, readded, tamper_cid, fetched>>

AddTampered ==
    /\ pc = "cat"
    /\ Len(roundtrip) = n
    /\ tamper_cid' \in AddOutputs(Tampered(window[1]))
    /\ AddEffect(Tampered(window[1]), tamper_cid')
    /\ pc' = "fetch"
    /\ UNCHANGED <<window, ready, cids, readded, roundtrip, fetched>>

\* The real fetch of the sample, after which the verdicts are printed.
Fetch ==
    /\ pc = "fetch"
    /\ fetched' \in CatOutputs(cids[idx + 1], window[idx + 1])
    /\ pc' = "printed"
    /\ UNCHANGED <<window, ready, repo, cids, readded, roundtrip, tamper_cid>>

MeasureNext ==
    RecordOnly \/ Prepare \/ Add \/ AddAgain \/ Cat \/ AddTampered \/ Fetch

MeasureSpec == MeasureInit /\ [][MeasureNext]_measureVars

-----------------------------------------------------------------------------
(* The verdicts.                                                           *)

levels == Build([k \in DOMAIN window |-> Leaf(window[k])])

deterministic == readded = cids[1]
distinct == Cardinality({cids[k] : k \in DOMAIN cids}) = n
roundtrips == Cardinality({k \in DOMAIN roundtrip : roundtrip[k]})
inclusion_ok == Verify(Leaf(fetched), idx, Proof(levels, idx), Root(levels))
tampered_rejected ==
    ~ Verify(Leaf(Tampered(window[1])), idx, Proof(levels, idx), Root(levels))

-----------------------------------------------------------------------------

\* No exit code is looked at, yet a full round trip vouches for the rest:
\* with n of n payloads back, every add did store its payload, and the
\* verdicts on determinism and distinctness were measured and not made by
\* two empty outputs that happen to be equal.
RoundtripVouches ==
    pc = "printed" /\ roundtrips = n =>
        /\ \A k \in 1 .. n : window[k] \in repo /\ cids[k] = Cid(window[k])
        /\ distinct
        /\ deterministic <=> readded # NoOutput

\* Consumer verification against the root: what was fetched is accepted
\* exactly when it is the payload of that position, and then it was stored by
\* that payload's own add; an empty output of a failed fetch is not accepted,
\* and the tampered payload never is.
InclusionPinsFetched ==
    pc = "printed" =>
        /\ inclusion_ok <=> fetched = window[idx + 1]
        /\ inclusion_ok => window[idx + 1] \in repo
                           /\ cids[idx + 1] = Cid(window[idx + 1])
        /\ tampered_rejected
=============================================================================
