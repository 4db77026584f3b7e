---------------------------- MODULE MCDcpProducer ----------------------------
(***************************************************************************)
(* Small instances of DcpProducer.                                         *)
(***************************************************************************)
EXTENDS DcpProducer

CONSTANTS k1, k2

Request(flags, end) == [flags |-> flags, end |-> end]

Scenario(onDisk, keys, maxSeqno, asked, starts, streams, closed) ==
    [disk |-> [k \in Keys |-> IF k = k1 /\ onDisk > 0 THEN 1 ELSE IF onDisk > 1 THEN 2 ELSE 0],
     keys |-> keys, maxSeqno |-> maxSeqno, requests |-> asked, starts |-> starts,
     streams |-> streams, closed |-> closed]

(* A new vbucket; one warmed up with two documents, of which the first is  *)
(* written again; and one whose documents do not change.                   *)
AllScenarios ==
    {Scenario(0, {k1}, 1, {Request("", 1), Request("takeover", 0)}, {0, 1}, 1, FALSE),
     Scenario(2, {k1}, 3, {Request("", Infinity), Request("takeover", 0)}, {0}, 1, TRUE),
     Scenario(2, {}, 2, {Request("", 1), Request("diskonly", 0)}, {0, 1, 2}, 2, TRUE)}

==============================================================================
