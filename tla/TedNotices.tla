----------------------------- MODULE TedNotices -----------------------------
(***************************************************************************)
(* The version-pinned parsers of TED eForms notices.  An XML document is a *)
(* record of the elements the parsers read; a repeated element is a        *)
(* sequence, an absent one is None or the empty sequence.  A parser either *)
(* accepts a document (the operator named after it is TRUE) or raises.     *)
(* A claim's subject and value are tuples; its source path follows from its *)
(* predicate and its subject.  A fingerprint hashes all of a claim, so two *)
(* claims have the same fingerprint when they are the same record.         *)
(***************************************************************************)
EXTENDS Integers, Sequences, SequencesExt

None == "None"

NoDate == 0

MAX_XML_BYTES == 2097152

Optional(value, claims) == IF value = None THEN <<>> ELSE claims

Claim(predicate, subject, value) == [predicate |-> predicate, subject |-> subject, value |-> value]

EachOf(seq, ClaimsOf(_)) == FlattenSeq([i \in DOMAIN seq |-> ClaimsOf(seq[i])])

IsSeq(s) == s \in Seq(Range(s))

\* What an XML document consists of, whether a parser accepts it or not: the elements that
\* may be repeated are sequences, and so are those inside them.
IsProject(p) == IsSeq(p.cpv) /\ IsSeq(p.nuts)

IsLot(lot) == IsSeq(lot.project) /\ \A p \in Range(lot.project) : IsProject(p)

IsDocument(d) ==
    /\ d.version \in Int /\ d.date \in Nat
    /\ IsSeq(d.organisations) /\ \A o \in Range(d.organisations) : IsSeq(o.names)
    /\ IF d.root = "ContractNotice"
       THEN /\ IsSeq(d.buyers) /\ IsSeq(d.changes)
            /\ IsSeq(d.lots) /\ \A lot \in Range(d.lots) : IsLot(lot)
            /\ IsSeq(d.project) /\ \A p \in Range(d.project) : IsProject(p)
       ELSE /\ IsSeq(d.tenders) /\ IsSeq(d.contracts)
            /\ IsSeq(d.parties) /\ \A p \in Range(d.parties) : IsSeq(p.winners)
            /\ IsSeq(d.results) /\ \A r \in Range(d.results) : IsSeq(r.tenders) /\ IsSeq(r.counts)

\* What both parsers ask of the bytes before they look at an element.
SafeXML(d) == d.bytes \in 1..MAX_XML_BYTES /\ ~d.entities /\ d.wellFormed

ParseOrganisations(organisations) ==
    /\ \A i, j \in DOMAIN organisations : organisations[i].id = organisations[j].id => i = j
    /\ \A i \in DOMAIN organisations : organisations[i].id # None /\ organisations[i].names # <<>>

OrganisationIds(d) == {d.organisations[i].id : i \in DOMAIN d.organisations}

PARSER_PROFILE == "ted-eforms-cn16@0.1.0"

CN16 == <<"eforms-sdk-1.14", "2.3", "cn-standard", "16">>

CAN29 == <<"eforms-sdk-1.14", "2.3", "can-standard", "29">>

\* A lot without an identifier is refused; a project is optional.
ParseLot(lot) == lot.id # None

TEDEFormsCN16Parser(d) ==
    /\ SafeXML(d)
    /\ d.root = "ContractNotice" /\ d.profile = CN16
    /\ d.id # None /\ d.version \in 1..99
    /\ d.organisations # <<>> /\ ParseOrganisations(d.organisations)
    /\ d.buyers # <<>> /\ Range(d.buyers) \subseteq OrganisationIds(d)
    /\ d.date # NoDate
    /\ \A i \in DOMAIN d.lots : ParseLot(d.lots[i])

\* A project is a sequence of at most one element.
ProjectClaims(subject, project) ==
    EachOf(project, LAMBDA p :
        EachOf(p.cpv, LAMBDA c : <<Claim("procurement_cpv_code", subject, <<c>>)>>)
        \o EachOf(p.nuts, LAMBDA c : <<Claim("procurement_place_of_performance_nuts", subject, <<c>>)>>)
        \o Optional(p.nature, <<Claim("procurement_contract_nature", subject, <<p.nature>>)>>)
        \o Optional(p.value, <<Claim("procurement_estimated_value", subject, <<p.value, p.currency>>)>>))

BuyerClaims(d, buyer) ==
    LET o == d.organisations[SelectInSeq(d.organisations, LAMBDA x : x.id = buyer)]
    IN  <<Claim("procurement_buyer_organisation_ref", <<d.id>>, <<buyer>>)>>
        \o EachOf(o.names, LAMBDA n : <<Claim("procurement_buyer_official_name", <<buyer>>, <<n>>)>>)
        \o Optional(o.national, <<Claim("procurement_buyer_identifier", <<buyer>>, <<o.national>>)>>)

LotClaims(d, lot) ==
    LET subject == <<d.id, lot.id>>
    IN  <<Claim("procurement_lot_identifier", subject, <<lot.id>>)>>
        \o ProjectClaims(subject, lot.project)
        \o Optional(lot.deadline, <<Claim("procurement_submission_deadline", subject, <<lot.deadline>>)>>)
        \o Optional(lot.funding, <<Claim("procurement_eu_funding_indicator", subject, <<lot.funding>>)>>)

CandidateClaims(d) ==
    <<Claim("procurement_notice_type", <<d.id>>, <<d.profile[3]>>),
      Claim("procurement_notice_subtype", <<d.id>>, <<d.profile[4]>>),
      Claim("procurement_notice_issue_date", <<d.id>>, <<ToString(d.date)>>)>>
    \o Optional(d.procedure, <<Claim("procurement_procedure_identifier", <<d.id>>, <<d.procedure>>)>>)
    \o Optional(d.type, <<Claim("procurement_procedure_type", <<d.id>>, <<d.type>>)>>)
    \o EachOf(d.buyers, LAMBDA b : BuyerClaims(d, b))
    \o ProjectClaims(<<d.id>>, d.project)
    \o EachOf(d.lots, LAMBDA l : LotClaims(d, l))

-----------------------------------------------------------------------------
\* The lifecycle parser: changes of a contract notice, and result notices.

Reference(d) == <<d.id, d.version>>

CHANGE_REASON_CODES ==
    {"cancel", "cancel-intent", "cor-buy", "cor-esen", "cor-pub", "info-release",
     "susp-review", "update-add"}

WINNER_SELECTION_CODES == {"clos-nw", "open-nw", "selec-w"}

ContractKind(d) ==
    IF d.changes = <<>> THEN "COMPETITION_INITIAL"
    ELSE IF d.changes[1].reason = "cancel" THEN "NOTICE_CANCELLATION"
    ELSE "COMPETITION_CORRECTION"

\* A cancellation carries no change nodes, any other change at least one.
ParseContractNotice(d) ==
    /\ TEDEFormsCN16Parser(d)
    /\ d.procedure # None
    /\ \A i \in DOMAIN d.changes :
        /\ d.changes[i].reason \in CHANGE_REASON_CODES
        /\ (d.changes[i].reason = "cancel") <=> (d.changes[i].nodes = 0)

ContractNoticeClaims(d) ==
    LET subject == Reference(d)
    IN  CandidateClaims(d)
        \o <<Claim("procurement_notice_lifecycle_kind", subject, <<ContractKind(d)>>)>>
        \o EachOf(d.changes, LAMBDA c :
             <<Claim("procurement_changed_notice_reference", subject, c.previous),
               Claim("procurement_change_reason_code", subject, <<c.reason>>)>>)

\* dict lookups: the last element with the key wins; NoRow when there is none.
NoRow == [id |-> None, party |-> None, lot |-> None, amount |-> None, currency |-> None, winners |-> <<>>]

Row(table, key) ==
    LET i == SelectLastInSeq(table, LAMBDA r : r.id = key)
    IN  IF i = 0 THEN NoRow ELSE table[i]

PartyWinners(d, tender) == Row(d.parties, tender.party).winners

\* [mutant] a tender may be for another lot and its party unknown.
ParseLotResultUnbound(d, r) ==
    /\ r.id # None /\ r.lot # None
    /\ r.status \in WINNER_SELECTION_CODES
    /\ r.status = "selec-w" => r.tenders # <<>>

\* One lot result against the tenders, parties and organisations it names.
ParseLotResult(d, r) ==
    /\ r.id # None /\ r.lot # None
    /\ r.status \in WINNER_SELECTION_CODES
    /\ \A i \in DOMAIN r.counts : r.counts[i] >= 0
    /\ r.status = "selec-w" => r.tenders # <<>>
    /\ \A i \in DOMAIN r.tenders :
        LET t == Row(d.tenders, r.tenders[i])
        IN  /\ t # NoRow /\ t.lot = r.lot
            /\ r.status = "selec-w" => PartyWinners(d, t) # <<>>
            /\ Range(PartyWinners(d, t)) \subseteq OrganisationIds(d)
            /\ t.amount # None => t.currency # None

ParseResultNotice(d) ==
    /\ SafeXML(d)
    /\ d.root = "ContractAwardNotice" /\ d.profile = CAN29
    /\ d.id # None /\ d.version \in 0..99
    /\ d.procedure # None /\ d.date # NoDate
    /\ ParseOrganisations(d.organisations)
    /\ \A i \in DOMAIN d.parties : d.parties[i].id # None
    /\ \A i \in DOMAIN d.tenders : d.tenders[i].id # None /\ d.tenders[i].lot # None
    /\ d.results # <<>>
    /\ \A i \in DOMAIN d.results : ParseLotResult(d, d.results[i])
    /\ \A i, j \in DOMAIN d.results : d.results[i].lot = d.results[j].lot => i = j
    /\ \A i \in DOMAIN d.contracts : d.contracts[i].id # None

\* The claims of one tender named by a lot result.
TenderClaims(d, r, t) ==
    EachOf(PartyWinners(d, t), LAMBDA w :
        <<Claim("procurement_winner_organisation_ref", <<r.lot>>, <<w>>)>>
        \o EachOf(Row(d.organisations, w).names, LAMBDA n :
             <<Claim("procurement_winner_official_name", <<w>>, <<n>>)>>))
    \o Optional(t.amount, <<Claim("procurement_awarded_value", <<r.lot>>, <<t.amount, t.currency>>)>>)

ResultNoticeClaims(d) ==
    <<Claim("procurement_notice_lifecycle_kind", Reference(d), <<"PROCEDURE_RESULT">>)>>
    \o EachOf(d.results, LAMBDA r :
         <<Claim("procurement_result_lot_identifier", <<r.id>>, <<r.lot>>),
           Claim("procurement_winner_selection_status", <<r.lot>>, <<r.status>>)>>
         \o EachOf(r.counts, LAMBDA n : <<Claim("procurement_tenders_received_count", <<r.lot>>, <<ToString(n)>>)>>)
         \o EachOf(r.tenders, LAMBDA t : TenderClaims(d, r, Row(d.tenders, t))))
    \o EachOf(d.contracts, LAMBDA c :
         <<Claim("procurement_contract_identifier", <<d.procedure>>, <<c.id>>)>>
         \o Optional(c.date, <<Claim("procurement_award_date", <<c.id>>, <<c.date>>)>>))

Parses(d) == IF d.root = "ContractNotice" THEN ParseContractNotice(d) ELSE ParseResultNotice(d)

\* What the parser returns for a document it accepts.
Notice(d) ==
    IF d.root = "ContractNotice"
    THEN [reference |-> Reference(d), date |-> d.date, procedure |-> d.procedure,
          kind |-> ContractKind(d),
          previous |-> IF d.changes = <<>> THEN <<None, 0>> ELSE d.changes[1].previous,
          lots |-> ToBag([i \in DOMAIN d.lots |-> d.lots[i].id]),
          claims |-> ContractNoticeClaims(d), statuses |-> {}, winners |-> {}, counted |-> FALSE]
    ELSE [reference |-> Reference(d), date |-> d.date, procedure |-> d.procedure,
          kind |-> "PROCEDURE_RESULT", previous |-> <<None, 0>>,
          lots |-> ToBag([i \in DOMAIN d.results |-> d.results[i].lot]),
          claims |-> ResultNoticeClaims(d),
          statuses |-> {d.results[i].status : i \in DOMAIN d.results},
          winners |-> UNION {UNION {Range(PartyWinners(d, Row(d.tenders, r.tenders[i]))) :
                                      i \in DOMAIN r.tenders} : r \in Range(d.results)},
          counted |-> \E i \in DOMAIN d.results : d.results[i].counts # <<>>]
=============================================================================
