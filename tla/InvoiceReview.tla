---------------------------- MODULE InvoiceReview ----------------------------
(***************************************************************************)
(* What the nodes of the agent graph compute: the supplier match, the      *)
(* duplicate check over the drafts of the organisation, the confidence and *)
(* the recommendation, the draft, and what a reviewer's edits make of it.  *)
(* Control (steps, checkpoints, failures) is the WorkflowService module.   *)
(* start_run keeps the event loop of the one server process, so analyses   *)
(* follow one another; reviews run in threads at any time.                 *)
(***************************************************************************)
EXTENDS Naturals, FiniteSets

CONSTANTS
    Runs,               \* agent runs of one organisation
    DocNumber,          \* DOC-<document id> of each run: runs of one document share it
    Invoices,           \* what the analysis provider may extract from a document
    Edits,              \* what reviewers may send as edited_fields
    Registry,           \* the suppliers of the organisation: [name, tax]
    PartOf,             \* <<a, b>>: name a occurs in name b, letter case ignored
    TooShort,           \* supplier names and numbers that DraftCreateArgs refuses
    CategoryConfidence, \* confidences of category suggestions, in hundredths
    Threshold           \* settings.confidence_approval_threshold, in 1/10000

Missing == "missing"            \* a field that is None
Unknown == "Unknown supplier"   \* the name a draft gets without a supplier
DefaultCurrency == "BRL"        \* InvoiceFields.currency

ASSUME ThresholdAssumption  == Threshold \in 0..10000
ASSUME ConfidenceAssumption == CategoryConfidence \subseteq 0..100

\* An amount is a set: empty for None. others counts issue date, due date, description.
Fields == [supplier : STRING, tax : STRING, number : STRING, amount : SUBSET Nat,
           currency : STRING, others : 0..3]
Drafts == [supplier : STRING, number : STRING, amount : SUBSET Nat, currency : STRING,
           match : STRING]
Matches == [score : {0, 60, 88, 100}, supplier : STRING]
Found   == [run : Runs, score : 4..10]
Shares  == 0..10000

ASSUME NumbersAssumption  == DocNumber \in [Runs -> STRING]
ASSUME TextsAssumption    == {Missing, Unknown, DefaultCurrency} \subseteq STRING
ASSUME InputsAssumption   == Invoices \cup Edits \subseteq Fields
ASSUME RegistryAssumption ==
    Registry \subseteq [name : STRING \ {Missing}, tax : STRING] /\ IsFiniteSet(Registry)

VARIABLES
    stage,          \* the node each run is about to execute, or how it ended
    fields,         \* extracted_fields of each run
    match,          \* supplier_match: its score (hundredths) and supplier
    duplicates,     \* duplicate_matches: the run of each draft found and its score
    category,       \* confidence of the category suggestion, in hundredths
    confidence,     \* confidence_breakdown.final_score, in 1/10000
    draft,          \* draft_pre_entries row of each run
    edited          \* the edited_fields each run was approved with

vars == <<stage, fields, match, duplicates, category, confidence, draft, edited>>

Analysing == {"supplier_lookup", "duplicate_check", "categorize_document",
              "calculate_confidence", "create_draft"}

NoFields == [supplier |-> Missing, tax |-> Missing, number |-> Missing,
             amount |-> {}, currency |-> Missing, others |-> 0]
NoMatch  == [score |-> 0, supplier |-> Missing]
NoDraft  == [supplier |-> Missing, number |-> Missing, amount |-> {},
             currency |-> Missing, match |-> Missing]

Drafted == {r \in Runs : draft[r] # NoDraft}

Init ==
    /\ stage      = [r \in Runs |-> "new"]
    /\ fields     = [r \in Runs |-> NoFields]
    /\ match      = [r \in Runs |-> NoMatch]
    /\ duplicates = [r \in Runs |-> {}]
    /\ category   = [r \in Runs |-> 0]
    /\ confidence = [r \in Runs |-> 0]
    /\ draft      = [r \in Runs |-> NoDraft]
    /\ edited     = [r \in Runs |-> NoFields]

Goto(r, node) == stage' = [stage EXCEPT ![r] = node]

One(b) == IF b THEN 1 ELSE 0

\* ilike "%name%".
Within(name, other) == name # Missing /\ (name = other \/ <<name, other>> \in PartOf)

-----------------------------------------------------------------------------
(* Supplier lookup *)

\* find_candidates: by tax id or by a part of the legal name.
Candidates(f) ==
    {s \in Registry : \/ f.tax # Missing /\ s.tax = f.tax
                      \/ Within(f.supplier, s.name)}

\* The supplier with the invoice's tax id is among the candidates.
ByTax(f) == \E s \in Candidates(f) : f.tax = s.tax

\* Mutant: an unknown supplier scores like an ambiguous one.
MatchScoreLenient(f) == IF Cardinality(Candidates(f)) # 1 THEN 60
                        ELSE IF ByTax(f) THEN 100 ELSE 88

\* Mutant: one candidate with the tax id settles the score of several.
MatchScoreOfSome(f) == IF Candidates(f) = {} THEN 0
                       ELSE IF ByTax(f) THEN 100
                       ELSE IF Cardinality(Candidates(f)) > 1 THEN 60 ELSE 88

MatchScore(f) == IF Candidates(f) = {} THEN 0
                 ELSE IF Cardinality(Candidates(f)) > 1 THEN 60
                 ELSE IF ByTax(f) THEN 100 ELSE 88

-----------------------------------------------------------------------------
(* Duplicate check *)

\* find_duplicate_drafts: a draft has to agree on every field that is given.
SameSupplier(f, d) == Within(f.supplier, d.supplier)
SameNumber(f, d)   == f.number # Missing /\ f.number = d.number
SameAmount(f, d)   == f.amount # {} /\ f.amount = d.amount

\* Mutant: a draft has to agree on some field only.
PassesFilterLoosely(f, d) == SameSupplier(f, d) \/ SameNumber(f, d) \/ SameAmount(f, d)

PassesFilter(f, d) == /\ f.supplier # Missing => SameSupplier(f, d)
                      /\ f.number # Missing => SameNumber(f, d)
                      /\ f.amount # {} => SameAmount(f, d)

\* In tenths.
DuplicateScore(f, d) ==
    5 * One(SameNumber(f, d)) + 3 * One(SameAmount(f, d)) + 2 * One(SameSupplier(f, d))

DuplicatesOf(f) ==
    IF f.number = Missing /\ f.amount = {} THEN {}
    ELSE {[run |-> q, score |-> DuplicateScore(f, draft[q])] :
             q \in {p \in Drafted : /\ PassesFilter(f, draft[p])
                                    /\ DuplicateScore(f, draft[p]) >= 4}}

-----------------------------------------------------------------------------
(* Confidence and recommendation *)

\* How many of the six fields have a value; zero counts as none.
Present(f) == f.others + One(f.supplier # Missing) + One(f.number # Missing)
                       + One(f.amount \notin {{}, {0}})

\* A duplicate costs its score (in hundredths), but never more than a half.
Penalty(dups) == IF dups = {} THEN 0
                 ELSE IF \E d \in dups : d.score >= 5 THEN 50 ELSE 40

\* 0.35 quality + 0.30 match + 0.20 category + 0.15 (1 - penalty), in 1/60000, then
\* rounded to four digits; the float arithmetic of the code is taken as exact.
Score(present, matchScore, categoryScore, penalty) ==
    3500 * present + 180 * matchScore + 120 * categoryScore + 90 * (100 - penalty)
Rounded(score) == (score + 3) \div 6

\* human_review's advice to the person.
RecommendsApproval(r) == confidence[r] >= Threshold /\ duplicates[r] = {}

-----------------------------------------------------------------------------
(* Draft and edits *)

\* Mutant: an amount that is None stays None.
DraftOfBare(f, r) == [supplier |-> IF f.supplier = Missing THEN Unknown ELSE f.supplier,
                      number |-> IF f.number = Missing THEN DocNumber[r] ELSE f.number,
                      amount |-> f.amount, currency |-> f.currency,
                      match |-> match[r].supplier]

\* create_draft: None becomes a default, a missing number that of the document.
DraftOf(f, r) == [supplier |-> IF f.supplier = Missing THEN Unknown ELSE f.supplier,
                  number |-> IF f.number = Missing THEN DocNumber[r] ELSE f.number,
                  amount |-> IF f.amount = {} THEN {0} ELSE f.amount,
                  currency |-> f.currency, match |-> match[r].supplier]

\* Mutant: fields the reviewer left out are cleared.
MergedClearing(f, e) ==
    [e EXCEPT !.others = f.others,
              !.currency = IF @ = Missing THEN DefaultCurrency ELSE @]

\* edited_fields as the request schema fills them in, over the extracted ones.
Merged(f, e) == [f EXCEPT
    !.supplier = IF e.supplier = Missing THEN @ ELSE e.supplier,
    !.tax      = IF e.tax = Missing THEN @ ELSE e.tax,
    !.number   = IF e.number = Missing THEN @ ELSE e.number,
    !.amount   = IF e.amount = {} THEN @ ELSE e.amount,
    !.currency = IF e.currency = Missing THEN DefaultCurrency ELSE e.currency]

\* DraftCreateArgs wants two characters.
Refused(f) == f.number \in TooShort \/ f.supplier \in TooShort

-----------------------------------------------------------------------------
(* The nodes *)

\* Mutant: analyses of different runs overlap.
LoopFreeAlways == TRUE

\* No other start_run holds the event loop.
LoopFree == \A q \in Runs : stage[q] \notin Analysing

ExtractFields(r, f) ==
    /\ stage[r] = "new" /\ LoopFree
    /\ fields' = [fields EXCEPT ![r] = f]
    /\ Goto(r, "supplier_lookup")
    /\ UNCHANGED <<match, duplicates, category, confidence, draft, edited>>

\* Without name and tax id the tool raises and the run fails.
SupplierLookup(r) ==
    LET f == fields[r] IN
    /\ stage[r] = "supplier_lookup"
    /\ \/ /\ f.supplier = Missing /\ f.tax = Missing
          /\ Goto(r, "failed")
          /\ UNCHANGED match
       \/ /\ f.supplier # Missing \/ f.tax # Missing
          /\ \E name \in IF Candidates(f) = {} THEN {Missing}
                         ELSE {s.name : s \in Candidates(f)} :
                match' = [match EXCEPT ![r] = [score |-> MatchScore(f), supplier |-> name]]
          /\ Goto(r, "duplicate_check")
    /\ UNCHANGED <<fields, duplicates, category, confidence, draft, edited>>

DuplicateCheck(r) ==
    /\ stage[r] = "duplicate_check"
    /\ duplicates' = [duplicates EXCEPT ![r] = DuplicatesOf(fields[r])]
    /\ Goto(r, "categorize_document")
    /\ UNCHANGED <<fields, match, category, confidence, draft, edited>>

CategorizeDocument(r, c) ==
    /\ stage[r] = "categorize_document"
    /\ category' = [category EXCEPT ![r] = c]
    /\ Goto(r, "calculate_confidence")
    /\ UNCHANGED <<fields, match, duplicates, confidence, draft, edited>>

CalculateConfidence(r) ==
    /\ stage[r] = "calculate_confidence"
    /\ confidence' = [confidence EXCEPT ![r] =
          Rounded(Score(Present(fields[r]), match[r].score, category[r],
                        Penalty(duplicates[r])))]
    /\ Goto(r, "create_draft")
    /\ UNCHANGED <<fields, match, duplicates, category, draft, edited>>

CreateDraft(r) ==
    /\ stage[r] = "create_draft"
    /\ IF Refused(fields[r])
       THEN Goto(r, "failed") /\ UNCHANGED draft
       ELSE /\ draft' = [draft EXCEPT ![r] = DraftOf(fields[r], r)]
            /\ Goto(r, "review")
    /\ UNCHANGED <<fields, match, duplicates, category, confidence, edited>>

Decide(r, decision) ==
    /\ stage[r] = "review"
    /\ Goto(r, decision)
    /\ UNCHANGED <<fields, match, duplicates, category, confidence, draft, edited>>

\* approve_run with edits: the draft is rewritten, the match and the duplicates are
\* those of the extracted fields still.
ApproveEdited(r, e) ==
    LET f == Merged(fields[r], e) IN
    /\ stage[r] = "review"
    /\ IF Refused(f)
       THEN Goto(r, "failed") /\ UNCHANGED <<fields, draft, edited>>
       ELSE /\ fields' = [fields EXCEPT ![r] = f]
            /\ draft' = [draft EXCEPT ![r] = DraftOf(f, r)]
            /\ edited' = [edited EXCEPT ![r] = e]
            /\ Goto(r, "edited")
    /\ UNCHANGED <<match, duplicates, category, confidence>>

Next == \E r \in Runs :
    \/ \E f \in Invoices : ExtractFields(r, f)
    \/ SupplierLookup(r) \/ DuplicateCheck(r)
    \/ \E c \in CategoryConfidence : CategorizeDocument(r, c)
    \/ CalculateConfidence(r) \/ CreateDraft(r)
    \/ \E decision \in {"approved", "rejected"} : Decide(r, decision)
    \/ \E e \in Edits : ApproveEdited(r, e)

Spec == Init /\ [][Next]_vars

-----------------------------------------------------------------------------
(* Properties *)

Stages == {"new", "review", "approved", "rejected", "edited", "failed"} \cup Analysing

\* Scores stay within 0 and 1, nothing is a duplicate of itself, and a draft under
\* review has an amount whatever was extracted (draft_pre_entries.amount is NOT NULL).
TypeOK ==
    /\ stage \in [Runs -> Stages]
    /\ fields \in [Runs -> Fields] /\ edited \in [Runs -> Fields]
    /\ match \in [Runs -> Matches] /\ duplicates \in [Runs -> SUBSET Found]
    /\ category \in [Runs -> 0..100] /\ confidence \in [Runs -> Shares]
    /\ draft \in [Runs -> Drafts]
    /\ \A r \in Runs : /\ \A d \in duplicates[r] : d.run # r
                       /\ stage[r] = "review" => draft[r].amount # {}

Repeats(d, e) == d.number = e.number /\ d.supplier = e.supplier /\ d.amount = e.amount

\* What the duplicate check cannot grade to 0.4, however alike the drafts: no number,
\* and no amount (nothing is looked up without both) or no supplier.
TooLittleGiven(f) == f.number = Missing /\ (f.amount = {} \/ f.supplier = Missing)

\* Two drafts for one invoice that no review was warned of stem from a reviewer's
\* edits or from an invoice that gives too little, such as two versions of a document
\* whose number and amount could not be read: otherwise the agent never drafts a
\* repeated invoice unnoticed, whatever is reviewed while it works.
UnseenDuplicatesAreExplained == \A q, r \in Drafted :
    q # r /\ Repeats(draft[q], draft[r]) =>
        \/ \E d \in duplicates[q] : d.run = r
        \/ \E d \in duplicates[r] : d.run = q
        \/ "edited" \in {stage[q], stage[r]}
        \/ TooLittleGiven(fields[q]) \/ TooLittleGiven(fields[r])

\* The filter makes the graded score an all-or-nothing one: whatever a review reports
\* as a duplicate scores what the invoice's given fields allow at most, and costs
\* half; a repeated number with another amount is never reported.
MatchesAreExact == \A r \in Runs : stage[r] \in Analysing \cup {"review"} =>
    \A d \in duplicates[r] :
        /\ d.score = 5 * One(fields[r].number # Missing) + 3 * One(fields[r].amount # {})
                   + 2 * One(fields[r].supplier # Missing)
        /\ Penalty(duplicates[r]) = 50

\* An invoice whose supplier the registry does not know is never recommended for
\* approval, however complete it is and however sure the category, as long as the
\* threshold is above 0.70 (the default is 0.72, the settings allow less).
UnknownSupplierNotRecommended == \A r \in Runs :
    Threshold > 7000 /\ stage[r] = "review" /\ match[r].supplier = Missing =>
        ~RecommendsApproval(r)

\* Whatever the name on the invoice, a registered tax id finds its supplier (score 1.0),
\* unless the name finds others too: then the first candidate is taken, which may be
\* another supplier, but never with more than the 0.60 of an ambiguous match.  The
\* draft of a matched run refers to a registered supplier.
TaxIdFindsSupplier == \A r \in Runs :
    stage[r] \in {"duplicate_check", "create_draft", "review"} =>
        LET f == fields[r]  m == match[r] IN
        /\ f.tax # Missing /\ (\E s \in Registry : s.tax = f.tax) =>
               \/ m.score = 100 /\ \E s \in Registry : s.tax = f.tax /\ s.name = m.supplier
               \/ m.score = 60
        /\ m.score > 0 /\ stage[r] = "review" =>
               draft[r].match \in {s.name : s \in Registry}

\* What a reviewer sends replaces those values in the draft that was reviewed; the
\* rest of the draft is the one the reviewer saw, except for the currency, which the
\* edit schema sets to BRL when it is not sent.
DraftHoldsEdits ==
    [][\A r \in Runs : stage[r] = "review" /\ stage'[r] = "edited" =>
        /\ \A x \in {"supplier", "number"} :
               draft'[r][x] = IF edited'[r][x] = Missing THEN draft[r][x] ELSE edited'[r][x]
        /\ draft'[r].amount = IF edited'[r].amount = {} THEN draft[r].amount
                              ELSE edited'[r].amount
        /\ draft'[r].currency = IF edited'[r].currency = Missing THEN DefaultCurrency
                                ELSE edited'[r].currency
        /\ draft'[r].match = draft[r].match]_vars

=============================================================================
