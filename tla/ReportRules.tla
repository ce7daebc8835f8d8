------------------------------ MODULE ReportRules ------------------------------
(***************************************************************************)
(* What makes a Report IR valid (schemas/report.py) and the deterministic   *)
(* repair of an invalid one (services/report_validator.py).                 *)
(*                                                                          *)
(* A list of the report is a function from positions to items, so that      *)
(* dropping an item is a restriction.  "ok" says whether the item's own      *)
(* schema accepts it.  An id is a number, 0 the empty string.  Confidence   *)
(* is in hundredths.                                                         *)
(***************************************************************************)
EXTENDS Integers

Lists == {"key_metrics", "evidence_list", "attribution_conclusions", "next_actions",
          "visualizations", "source_files"}

(* the lists with min_length=1 *)
Required == Lists \ {"visualizations"}

Statuses == {"confirmed", "probable", "to_verify"}

Qualities == {"verified", "limited"}

Item == [id : Nat, ok : BOOLEAN]

EvidenceItem == [id : Nat, ok : BOOLEAN, quality : Qualities]

(* "shape" stands for the fields of a conclusion the repair leaves alone *)
Conclusion == [id : Nat, shape : BOOLEAN, status : Statuses \cup {"other"}, needed : BOOLEAN,
               conf : Int, cites : SUBSET Nat]

ItemOf(l) == CASE l = "evidence_list" -> EvidenceItem
               [] l = "attribution_conclusions" -> Conclusion
               [] OTHER -> Item

IsList(list, S) == DOMAIN list \subseteq Nat /\ \A p \in DOMAIN list : list[p] \in S

IsPayload(r) == /\ DOMAIN r = Lists
                /\ \A l \in Lists : IsList(r[l], ItemOf(l))

Ids(list) == {list[p].id : p \in DOMAIN list}

UniqueIds(list) == \A p, q \in DOMAIN list : list[p].id = list[q].id => p = q

(* AttributionConclusion.model_validate *)
ConclusionOk(c) == c.shape /\ c.status \in Statuses /\ c.conf \in 0..100

ItemsOk(r) == /\ \A l \in Lists \ {"attribution_conclusions"} :
                    \A p \in DOMAIN r[l] : r[l][p].ok
              /\ \A p \in DOMAIN r["attribution_conclusions"] :
                    ConclusionOk(r["attribution_conclusions"][p])

NothingEmpty(r) == \A l \in Required : DOMAIN r[l] # {}

Verified(evidence, ids) ==
  \A e \in DOMAIN evidence : evidence[e].id \in ids => evidence[e].quality = "verified"

(* ReportIR.validate_references *)
ReferencesOk(r) ==
  LET evidence == r["evidence_list"]
      conclusions == r["attribution_conclusions"]
  IN  /\ UniqueIds(evidence)
      /\ UniqueIds(conclusions)
      /\ \A p \in DOMAIN conclusions :
           /\ conclusions[p].cites \subseteq Ids(evidence)
           /\ conclusions[p].status = "confirmed" =>
                /\ conclusions[p].cites # {}
                /\ ~conclusions[p].needed
                /\ Verified(evidence, conclusions[p].cites)

Valid(r) == ItemsOk(r) /\ NothingEmpty(r) /\ ReferencesOk(r)

------------------------------------------------------------------------------
(* ReportValidator.repair *)

Keep(list, P) == [p \in P |-> list[p]]

OkPositions(list) == {p \in DOMAIN list : list[p].ok}

(* the first position of each id among P; items without an id are dropped *)
FirstOfId(list, P) ==
  {p \in P : list[p].id # 0 /\ \A q \in P : list[q].id = list[p].id => p <= q}

(* Mutant: the items are not validated. *)
validated_items_All(list) == list

validated_items(list) == Keep(list, OkPositions(list))

unique_validated_items(list) == Keep(list, FirstOfId(list, OkPositions(list)))

safe_confidence(conf) == IF conf < 0 THEN 0 ELSE IF conf > 100 THEN 100 ELSE conf

AtMost(conf, limit) == IF safe_confidence(conf) < limit THEN safe_confidence(conf) ELSE limit

(* Mutant: citations of evidence that the repair removed are kept. *)
RepairConclusion_KeepsCitations(c, evidence) ==
  IF c.status = "confirmed" /\ (c.needed \/ ~Verified(evidence, c.cites))
  THEN [c EXCEPT !.status = "probable", !.needed = TRUE, !.conf = AtMost(c.conf, 70)]
  ELSE c

RepairConclusion(c, evidence) ==
  LET cites == c.cites \cap Ids(evidence) IN
  IF cites = {}
  THEN [c EXCEPT !.cites = {}, !.status = "to_verify", !.needed = TRUE,
                 !.conf = AtMost(c.conf, 49)]
  ELSE IF c.status = "confirmed" /\ (c.needed \/ ~Verified(evidence, cites))
  THEN [c EXCEPT !.cites = cites, !.status = "probable", !.needed = TRUE,
                 !.conf = AtMost(c.conf, 70)]
  ELSE [c EXCEPT !.cites = cites]

(* The first conclusion of an id counts even when it is dropped as invalid   *)
(* afterwards, unlike in unique_validated_items.                              *)
RepairConclusions(conclusions, evidence) ==
  LET repaired(p) == RepairConclusion(conclusions[p], evidence)
      first == FirstOfId(conclusions, DOMAIN conclusions)
  IN  [p \in {q \in first : ConclusionOk(repaired(q))} |-> repaired(p)]

Repair(r) ==
  LET evidence == unique_validated_items(r["evidence_list"]) IN
  [l \in Lists |->
     CASE l = "evidence_list" -> evidence
       [] l = "attribution_conclusions" ->
            RepairConclusions(r["attribution_conclusions"], evidence)
       [] l \in {"visualizations", "source_files"} -> unique_validated_items(r[l])
       [] l \in {"key_metrics", "next_actions"} -> validated_items(r[l])]

===============================================================================
