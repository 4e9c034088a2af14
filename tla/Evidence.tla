-------------------------------- MODULE Evidence --------------------------------
(***************************************************************************)
(* What is recorded of a court: the evidence record that vouches for the   *)
(* files of both sides, and the release that gathers the records.  A hash  *)
(* is the content itself: two contents agree when their hashes do.         *)
(***************************************************************************)
EXTENDS Comparators, Functions

(* As in module TLC, of whose operators TLAPS knows no definition.         *)
f @@ g == [x \in DOMAIN f \cup DOMAIN g |-> IF x \in DOMAIN f THEN f[x] ELSE g[x]]
name :> content == [x \in {name} |-> content]

None == [state |-> "none"]
IsWhole(file) == file \notin {None, Cut}

(* An artifact is a path of the case directory with its hash.              *)
AddDirectory(artifacts, dirs, side) ==
    [p \in DOMAIN artifacts \cup {<<side, f>> : f \in DOMAIN dirs[side]} |->
        IF p[1] = side THEN dirs[side][p[2]] ELSE artifacts[p]]
NoArtifacts == [p \in {} |-> None]
SideArtifacts(dirs) == AddDirectory(AddDirectory(NoArtifacts, dirs, "oracle"), dirs, "candidate")

(* A plausible mistake in EvidenceRecord; not part of the specification.   *)
EvidenceRecordUncounted(residuals, how, artifacts) ==
    [result |-> IF residuals = {} THEN "pass" ELSE "fail", count |-> 0, how |-> how, artifacts |-> artifacts]

EvidenceRecord(residuals, how, artifacts) ==
    [result |-> IF residuals = {} THEN "pass" ELSE "fail", count |-> Cardinality(residuals),
     how |-> how, artifacts |-> artifacts]

(* A plausible mistake in EvidenceVerify; not part of the specification.   *)
EvidencePresent(evidence, dirs) ==
    {p \in DOMAIN evidence.artifacts : ~Has(dirs, p[1], p[2])}

(* The artifacts that are gone or are not what they were; files that no    *)
(* artifact names are not looked at.                                       *)
EvidenceVerify(evidence, dirs) ==
    {p \in DOMAIN evidence.artifacts :
        ~Has(dirs, p[1], p[2]) \/ dirs[p[1]][p[2]] # evidence.artifacts[p]}

(* The files beside the directories that a receipt hashes too.             *)
RecordArtifacts(ledger, evidence) ==
    [p \in {<<"case", "residual.json">> : x \in {ledger} \ {None}}
           \cup {<<"case", "evidence.json">> : x \in {evidence} \ {None}} |->
        IF p[2] = "residual.json" THEN ledger ELSE evidence]

(* A plausible mistake in ReceiptArtifacts; not part of the specification. *)
ReceiptArtifactsOfTheLedger(dirs, ledger, evidence) ==
    SideArtifacts(dirs) @@ RecordArtifacts(ledger, None)

ReceiptArtifacts(dirs, ledger, evidence) ==
    SideArtifacts(dirs) @@ RecordArtifacts(ledger, evidence)

(* A record that does not parse is as good as none, and what it says is    *)
(* taken as it is: that it verifies is not asked.                          *)
CourtReceipt(dirs, ledger, evidence) ==
    [result |-> IF IsWhole(evidence) THEN evidence.result ELSE "unrecorded",
     count |-> IF IsWhole(evidence) THEN evidence.count ELSE 0,
     how |-> IF IsWhole(evidence) THEN evidence.how ELSE "",
     artifacts |-> ReceiptArtifacts(dirs, ledger, evidence)]

(* The four files of a release, written in this order.                     *)
ReleaseFiles == <<"MANIFEST.json", "COURTS.json", "RECEIPTS.json", "ROOT-HASH">>
Assemble(receipt) ==
    LET Counts(result) == IF receipt.result = result THEN 1 ELSE 0
    IN  [f \in Range(ReleaseFiles) |->
            CASE f = "COURTS.json" -> receipt
              [] f = "ROOT-HASH" -> [root |-> receipt]
              [] f = "RECEIPTS.json" -> [result |-> receipt.result, receipt |-> receipt,
                                         artifacts |-> Cardinality(DOMAIN receipt.artifacts)]
              [] OTHER -> [root |-> receipt, pass |-> Counts("pass"), fail |-> Counts("fail"),
                           unrecorded |-> Counts("unrecorded")]]

(* The problems of a release: artifacts that are gone or changed, and a    *)
(* root hash that is not that of COURTS.json.  The receipts' own hashes    *)
(* and the two other files are not looked at.                              *)
VerifyRelease(release, dirs, ledger, evidence) ==
    LET now == ReceiptArtifacts(dirs, ledger, evidence)
        recorded == release["COURTS.json"].artifacts
    IN  {p \in DOMAIN recorded : p \notin DOMAIN now \/ now[p] # recorded[p]}
        \cup If(release["ROOT-HASH"] # [root |-> release["COURTS.json"]], {<<"case", "ROOT-HASH">>})

(* Verifying gives up where a file is missing or does not parse.           *)
ReleaseVerifies(release, dirs, ledger, evidence) ==
    /\ IsWhole(release["COURTS.json"]) /\ release["ROOT-HASH"] # None
    /\ VerifyRelease(release, dirs, ledger, evidence) = {}
==================================================================================
