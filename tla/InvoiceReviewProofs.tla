------------------------- MODULE InvoiceReviewProofs -------------------------
(***************************************************************************)
(* Proofs about InvoiceReview, for any suppliers, invoices, edits and any  *)
(* number of runs: its types, that what the duplicate check reports is     *)
(* exact, that an unknown supplier is never recommended for approval and a *)
(* registered tax id finds its own or an ambiguous match, that a repeated  *)
(* invoice goes unnoticed only after edits or when it gives too little,    *)
(* and that an edit changes what it names and the currency.                *)
(***************************************************************************)
EXTENDS InvoiceReview, FiniteSetTheorems, TLAPS

\* Nodes at and before which a run has neither a draft nor reported duplicates.
NotChecked == {"new", "supplier_lookup", "duplicate_check"}
NotDrafted == {"new"} \cup Analysing

OwnDraft     == \A r \in Runs : stage[r] \in NotDrafted => draft[r] = NoDraft
NoneReported == \A r \in Runs : stage[r] \in NotChecked => duplicates[r] = {}

TypeInv == TypeOK /\ OwnDraft

-----------------------------------------------------------------------------
(* What the operators return *)

\* A match has one of the four scores, and a found supplier has a name.
LEMMA MatchTyped ==
    ASSUME NEW f \in Fields
    PROVE  /\ MatchScore(f) \in {0, 60, 88, 100}
           /\ Candidates(f) = {} => MatchScore(f) = 0
           /\ Candidates(f) # {} => MatchScore(f) >= 60
           /\ \A s \in Candidates(f) : s.name \in STRING /\ s.name # Missing
<1>1. /\ MatchScore(f) \in {0, 60, 88, 100}
      /\ Candidates(f) = {} => MatchScore(f) = 0
      /\ Candidates(f) # {} => MatchScore(f) >= 60
  <2>1. CASE Candidates(f) = {}
    <3>1. Cardinality(Candidates(f)) = 0
      BY <2>1, FS_EmptySet
    <3>2. ~\E s \in Candidates(f) : f.tax = s.tax
      BY <2>1
    <3> QED BY <2>1, <3>1, <3>2 DEF MatchScore
  <2>2. CASE Candidates(f) # {} /\ Cardinality(Candidates(f)) > 1
    BY <2>2 DEF MatchScore
  <2>3. CASE Candidates(f) # {} /\ ~(Cardinality(Candidates(f)) > 1)
    BY <2>3 DEF MatchScore
  <2> QED BY <2>1, <2>2, <2>3
<1>2. Candidates(f) \subseteq [name : STRING \ {Missing}, tax : STRING]
  BY RegistryAssumption DEF RegistryAssumption, Candidates
<1> QED BY <1>1, <1>2

\* A reported duplicate agrees with the invoice on everything the invoice gives, so
\* its score is fixed by which fields are given, and reaches one half.
LEMMA ScoreIsFull ==
    ASSUME NEW f, NEW d, PassesFilter(f, d), DuplicateScore(f, d) >= 4
    PROVE  /\ DuplicateScore(f, d) = 5 * One(f.number # Missing) + 3 * One(f.amount # {})
                                   + 2 * One(f.supplier # Missing)
           /\ DuplicateScore(f, d) \in 5..10
<1>1. /\ SameNumber(f, d) <=> f.number # Missing
      /\ SameAmount(f, d) <=> f.amount # {}
      /\ SameSupplier(f, d) <=> f.supplier # Missing
  BY DEF PassesFilter, SameNumber, SameAmount, SameSupplier, Within
<1> DEFINE n == One(f.number # Missing)  a == One(f.amount # {})  s == One(f.supplier # Missing)
<1>2. n \in {0, 1} /\ a \in {0, 1} /\ s \in {0, 1}
  BY DEF One
<1>3. DuplicateScore(f, d) = 5 * n + 3 * a + 2 * s
  BY <1>1 DEF DuplicateScore, One
<1> QED BY <1>2, <1>3

\* The duplicate check reports other runs' drafts with scores from one half to one.
LEMMA DuplicatesTyped ==
    ASSUME NEW f
    PROVE  \A d \in DuplicatesOf(f) :
              /\ d \in Found
              /\ draft[d.run] # NoDraft
              /\ d.score = 5 * One(f.number # Missing) + 3 * One(f.amount # {})
                         + 2 * One(f.supplier # Missing)
              /\ d.score >= 5
<1> SUFFICES ASSUME NEW d \in DuplicatesOf(f)
             PROVE  /\ d \in Found
                    /\ draft[d.run] # NoDraft
                    /\ d.score = 5 * One(f.number # Missing) + 3 * One(f.amount # {})
                               + 2 * One(f.supplier # Missing)
                    /\ d.score >= 5
  OBVIOUS
<1>1. PICK q \in Drafted : /\ PassesFilter(f, draft[q]) /\ DuplicateScore(f, draft[q]) >= 4
                           /\ d = [run |-> q, score |-> DuplicateScore(f, draft[q])]
  BY DEF DuplicatesOf
<1>2. q \in Runs /\ draft[q] # NoDraft
  BY DEF Drafted
<1> QED BY <1>1, <1>2, ScoreIsFull DEF Found

\* The arithmetic of the confidence: its bound, and the bound without a match.
LEMMA ScoreBounds == \A n, m, c, p :
    n \in 0..6 /\ m \in 0..100 /\ c \in 0..100 /\ p \in 0..100 =>
        /\ Rounded(Score(n, m, c, p)) \in Shares
        /\ Rounded(Score(n, 0, c, p)) <= 7000
<1> TAKE n, m, c, p
<1> HAVE n \in 0..6 /\ m \in 0..100 /\ c \in 0..100 /\ p \in 0..100
<1> DEFINE quality == 3500 * n  matched == 180 * m  suggested == 120 * c
           unrepeated == 90 * (100 - p)
<1>1. /\ quality \in 0..21000 /\ matched \in 0..18000
      /\ suggested \in 0..12000 /\ unrepeated \in 0..9000
  OBVIOUS
<1>2. /\ Score(n, m, c, p) = quality + matched + suggested + unrepeated
      /\ Score(n, 0, c, p) = quality + suggested + unrepeated
  BY <1>1 DEF Score
<1> HIDE DEF quality, matched, suggested, unrepeated
<1> DEFINE all == quality + matched + suggested + unrepeated
           unmatched == quality + suggested + unrepeated
<1>3. all \in Nat /\ all <= 60000
  <2>1. all \in Nat
    BY <1>1
  <2>2. all <= 60000
    BY <1>1
  <2> QED BY <2>1, <2>2
<1>4. unmatched \in Nat /\ unmatched <= 42000
  <2>1. unmatched \in Nat
    BY <1>1
  <2>2. unmatched <= 42000
    BY <1>1
  <2> QED BY <2>1, <2>2
<1>5. Score(n, m, c, p) = all /\ Score(n, 0, c, p) = unmatched
  BY <1>2
<1> HIDE DEF all, unmatched
<1>6. Rounded(all) \in Shares
  BY <1>3 DEF Rounded, Shares
<1>7. Rounded(unmatched) <= 7000
  BY <1>4 DEF Rounded
<1> QED BY <1>5, <1>6, <1>7

\* At most six of the fields that count have a value.
LEMMA PresentTyped == ASSUME NEW f \in Fields PROVE Present(f) \in 0..6
<1>1. \A b : One(b) \in {0, 1}
  BY DEF One
<1>2. f.others \in 0..3
  BY DEF Fields
<1> QED BY <1>1, <1>2 DEF Present

\* The penalty is none, 0.4 or 0.5.
LEMMA PenaltyTyped == ASSUME NEW dups PROVE Penalty(dups) \in {0, 40, 50}
BY DEF Penalty

\* Edited fields are fields, and what a draft is made of is a draft.
LEMMA DraftTyped ==
    ASSUME TypeOK, NEW f \in Fields, NEW e \in Fields, NEW r \in Runs
    PROVE  /\ Merged(f, e) \in Fields /\ Merged(f, e).others = f.others
           /\ DraftOf(f, r) \in Drafts /\ DraftOf(f, r).amount # {}
<1> DEFINE sup == IF e.supplier = Missing THEN f.supplier ELSE e.supplier
           tid == IF e.tax = Missing THEN f.tax ELSE e.tax
           num == IF e.number = Missing THEN f.number ELSE e.number
           amt == IF e.amount = {} THEN f.amount ELSE e.amount
           cur == IF e.currency = Missing THEN DefaultCurrency ELSE e.currency
<1>1. /\ sup \in STRING /\ tid \in STRING /\ num \in STRING /\ cur \in STRING
      /\ amt \in SUBSET Nat
  <2>1. sup \in STRING
    BY DEF Fields
  <2>2. tid \in STRING
    BY DEF Fields
  <2>3. num \in STRING
    BY DEF Fields
  <2>4. cur \in STRING
    BY TextsAssumption DEF TextsAssumption, Fields
  <2>5. amt \in SUBSET Nat
    BY DEF Fields
  <2> QED BY <2>1, <2>2, <2>3, <2>4, <2>5
<1>2. Merged(f, e) = [f EXCEPT !.supplier = sup, !.tax = tid, !.number = num,
                               !.amount = amt, !.currency = cur]
  BY DEF Merged
<1> HIDE DEF sup, tid, num, amt, cur
<1>3. Merged(f, e) \in Fields /\ Merged(f, e).others = f.others
  BY <1>1, <1>2 DEF Fields
<1> DEFINE name == IF f.supplier = Missing THEN Unknown ELSE f.supplier
           sum  == IF f.amount = {} THEN {0} ELSE f.amount
           no   == IF f.number = Missing THEN DocNumber[r] ELSE f.number
<1>4. /\ name \in STRING /\ no \in STRING /\ sum \in SUBSET Nat /\ sum # {}
      /\ f.currency \in STRING /\ match[r].supplier \in STRING
  <2>1. name \in STRING
    BY TextsAssumption DEF TextsAssumption, Fields
  <2>2. sum \in SUBSET Nat /\ sum # {}
    BY DEF Fields
  <2>3. no \in STRING /\ f.currency \in STRING
    BY NumbersAssumption DEF NumbersAssumption, Fields
  <2>4. match[r].supplier \in STRING
    BY DEF TypeOK, Matches
  <2> QED BY <2>1, <2>2, <2>3, <2>4
<1>5. DraftOf(f, r) = [supplier |-> name, number |-> no, amount |-> sum,
                       currency |-> f.currency, match |-> match[r].supplier]
  BY DEF DraftOf
<1> HIDE DEF name, sum, no
<1>6. DraftOf(f, r) \in Drafts /\ DraftOf(f, r).amount # {}
  BY <1>4, <1>5 DEF Drafts
<1> QED BY <1>3, <1>6

-----------------------------------------------------------------------------
(* Types *)

\* The initial state is typed and without drafts.
LEMMA InitTyped == Init => TypeInv
<1> SUFFICES ASSUME Init PROVE TypeInv
  OBVIOUS
<1>1. NoFields \in Fields
  BY TextsAssumption DEF TextsAssumption, NoFields, Fields
<1>2. NoMatch \in Matches
  BY TextsAssumption DEF TextsAssumption, NoMatch, Matches
<1>3. NoDraft \in Drafts
  BY TextsAssumption DEF TextsAssumption, NoDraft, Drafts
<1>4. TypeOK
  BY <1>1, <1>2, <1>3 DEF Init, TypeOK, Stages, Analysing, Shares
<1>5. OwnDraft
  BY DEF Init, OwnDraft
<1> QED BY <1>4, <1>5 DEF TypeInv

\* The types of the variables other than stage.
DataTyped ==
    /\ fields \in [Runs -> Fields] /\ edited \in [Runs -> Fields]
    /\ match \in [Runs -> Matches] /\ duplicates \in [Runs -> SUBSET Found]
    /\ category \in [Runs -> 0..100] /\ confidence \in [Runs -> Shares]
    /\ draft \in [Runs -> Drafts]

\* A run that moves on with typed data, no duplicate of its own and a draft fit for
\* where it goes keeps the invariant.
LEMMA MoveTyped ==
    ASSUME TypeInv, NEW r \in Runs, NEW node \in Stages, Goto(r, node), DataTyped',
           \A q \in Runs \ {r} : draft'[q] = draft[q] /\ duplicates'[q] = duplicates[q],
           \A d \in duplicates'[r] : d.run # r,
           node = "review" => draft'[r].amount # {},
           node \in NotDrafted => draft'[r] = NoDraft
    PROVE  TypeInv'
<1>1. stage' \in [Runs -> Stages] /\ \A q \in Runs : stage'[q] = IF q = r THEN node ELSE stage[q]
  BY DEF TypeInv, TypeOK, Goto
<1>2. ASSUME NEW q \in Runs
      PROVE  /\ \A d \in duplicates'[q] : d.run # q
             /\ stage'[q] = "review" => draft'[q].amount # {}
             /\ stage'[q] \in NotDrafted => draft'[q] = NoDraft
  <2>1. CASE q = r
    BY <1>1, <2>1
  <2>2. CASE q # r
    <3>1. stage'[q] = stage[q] /\ draft'[q] = draft[q] /\ duplicates'[q] = duplicates[q]
      BY <1>1, <2>2
    <3> QED BY <3>1 DEF TypeInv, TypeOK, OwnDraft
  <2> QED BY <2>1, <2>2
<1>3. TypeOK'
  BY <1>1, <1>2 DEF TypeOK, DataTyped
<1>4. OwnDraft'
  BY <1>2 DEF OwnDraft
<1> QED BY <1>3, <1>4 DEF TypeInv

\* Every node keeps the types, and drafts only what it analyses or reviews.
LEMMA StepTyped == ASSUME TypeInv, NEW r \in Runs PROVE
    /\ \A f \in Invoices : ExtractFields(r, f) => TypeInv'
    /\ SupplierLookup(r) => TypeInv'
    /\ DuplicateCheck(r) => TypeInv'
    /\ \A c \in CategoryConfidence : CategorizeDocument(r, c) => TypeInv'
    /\ CalculateConfidence(r) => TypeInv'
    /\ CreateDraft(r) => TypeInv'
    /\ \A decision \in {"approved", "rejected"} : Decide(r, decision) => TypeInv'
    /\ \A e \in Edits : ApproveEdited(r, e) => TypeInv'
<1>d. DataTyped /\ TypeOK
  BY DEF TypeInv, TypeOK, DataTyped
<1>r. \A q \in Runs : \A d \in duplicates[q] : d.run # q
  BY DEF TypeInv, TypeOK
<1>o. stage[r] \in NotDrafted => draft[r] = NoDraft
  BY DEF TypeInv, OwnDraft
<1>s. {"new", "review", "approved", "rejected", "edited", "failed", "supplier_lookup",
       "duplicate_check", "categorize_document", "calculate_confidence", "create_draft"} = Stages
  BY DEF Stages, Analysing
<1>n. {"new", "supplier_lookup", "duplicate_check", "categorize_document",
       "calculate_confidence", "create_draft"} = NotDrafted
  BY DEF NotDrafted, Analysing
<1>f. fields[r] \in Fields
  BY <1>d DEF DataTyped
<1>1. ASSUME NEW f \in Invoices, ExtractFields(r, f) PROVE TypeInv'
  <2>1. f \in Fields
    BY InputsAssumption DEF InputsAssumption
  <2>2. /\ stage[r] = "new" /\ Goto(r, "supplier_lookup")
        /\ fields' = [fields EXCEPT ![r] = f]
        /\ UNCHANGED <<match, duplicates, category, confidence, draft, edited>>
    BY <1>1 DEF ExtractFields
  <2>3. DataTyped'
    BY <1>d, <2>1, <2>2 DEF DataTyped
  <2> QED BY <1>r, <1>o, <1>s, <1>n, <2>2, <2>3, MoveTyped
<1>2. ASSUME SupplierLookup(r) PROVE TypeInv'
  <2> DEFINE f == fields[r]
  <2>1. \A name \in {x.name : x \in Candidates(f)} \cup {Missing} :
           [score |-> MatchScore(f), supplier |-> name] \in Matches
    BY <1>f, MatchTyped, TextsAssumption DEF TextsAssumption, Matches
  <2>2. /\ stage[r] = "supplier_lookup" /\ (Goto(r, "failed") \/ Goto(r, "duplicate_check"))
        /\ UNCHANGED <<fields, duplicates, category, confidence, draft, edited>>
    BY <1>2 DEF SupplierLookup
  <2>3. \/ UNCHANGED match
        \/ \E name \in {x.name : x \in Candidates(f)} \cup {Missing} :
              match' = [match EXCEPT ![r] = [score |-> MatchScore(f), supplier |-> name]]
    BY <1>2 DEF SupplierLookup
  <2>4. match' \in [Runs -> Matches]
    BY <1>d, <2>1, <2>3 DEF DataTyped
  <2>5. DataTyped'
    BY <1>d, <2>2, <2>4 DEF DataTyped
  <2> QED BY <1>r, <1>o, <1>s, <1>n, <2>2, <2>5, MoveTyped
<1>3. ASSUME DuplicateCheck(r) PROVE TypeInv'
  <2> DEFINE dups == DuplicatesOf(fields[r])
  <2>1. dups \in SUBSET Found /\ \A d \in dups : draft[d.run] # NoDraft
    BY DuplicatesTyped
  <2>2. /\ stage[r] = "duplicate_check" /\ Goto(r, "categorize_document")
        /\ duplicates' = [duplicates EXCEPT ![r] = dups]
        /\ UNCHANGED <<fields, match, category, confidence, draft, edited>>
    BY <1>3 DEF DuplicateCheck
  <2> HIDE DEF dups
  <2>3. draft[r] = NoDraft
    BY <1>o, <1>n, <2>2
  <2>4. DataTyped'
    BY <1>d, <2>1, <2>2 DEF DataTyped
  <2>5. \A q \in Runs : duplicates'[q] = IF q = r THEN dups ELSE duplicates[q]
    BY <1>d, <2>2 DEF DataTyped
  <2>6. \A d \in duplicates'[r] : d.run # r
    BY <2>1, <2>3, <2>5
  <2> QED BY <1>o, <1>s, <1>n, <2>2, <2>4, <2>5, <2>6, MoveTyped
<1>4. ASSUME NEW c \in CategoryConfidence, CategorizeDocument(r, c) PROVE TypeInv'
  <2>1. c \in 0..100
    BY ConfidenceAssumption DEF ConfidenceAssumption
  <2>2. /\ stage[r] = "categorize_document" /\ Goto(r, "calculate_confidence")
        /\ category' = [category EXCEPT ![r] = c]
        /\ UNCHANGED <<fields, match, duplicates, confidence, draft, edited>>
    BY <1>4 DEF CategorizeDocument
  <2>3. DataTyped'
    BY <1>d, <2>1, <2>2 DEF DataTyped
  <2> QED BY <1>r, <1>o, <1>s, <1>n, <2>2, <2>3, MoveTyped
<1>5. ASSUME CalculateConfidence(r) PROVE TypeInv'
  <2> DEFINE given == Present(fields[r])
             matched == match[r].score
             penalty == Penalty(duplicates[r])
             x == Rounded(Score(given, matched, category[r], penalty))
  <2>1. matched \in {0, 60, 88, 100} /\ category[r] \in 0..100
    BY <1>d DEF DataTyped, Matches
  <2>2. penalty \in {0, 40, 50}
    BY PenaltyTyped
  <2>3. /\ stage[r] = "calculate_confidence" /\ Goto(r, "create_draft")
        /\ confidence' = [confidence EXCEPT ![r] = x]
        /\ UNCHANGED <<fields, match, duplicates, category, draft, edited>>
    BY <1>5 DEF CalculateConfidence
  <2>4. given \in 0..6
    BY <1>f, PresentTyped
  <2> HIDE DEF given, matched, penalty
  <2>5. matched \in 0..100 /\ penalty \in 0..100
    BY <2>1, <2>2
  <2>6. x \in Shares
    BY <2>1, <2>4, <2>5, ScoreBounds
  <2> HIDE DEF x
  <2>7. DataTyped'
    BY <1>d, <2>3, <2>6 DEF DataTyped
  <2> QED BY <1>r, <1>o, <1>s, <1>n, <2>3, <2>7, MoveTyped
<1>6. ASSUME CreateDraft(r) PROVE TypeInv'
  <2> DEFINE new == DraftOf(fields[r], r)
  <2>1. new \in Drafts /\ new.amount # {}
    BY <1>d, <1>f, DraftTyped
  <2>2. /\ stage[r] = "create_draft"
        /\ \/ Goto(r, "failed") /\ UNCHANGED draft
           \/ Goto(r, "review") /\ draft' = [draft EXCEPT ![r] = new]
        /\ UNCHANGED <<fields, match, duplicates, category, confidence, edited>>
    BY <1>6 DEF CreateDraft
  <2> HIDE DEF new
  <2>3. DataTyped'
    BY <1>d, <2>1, <2>2 DEF DataTyped
  <2>4. CASE Goto(r, "failed") /\ UNCHANGED draft
    BY <1>r, <1>o, <1>s, <1>n, <2>2, <2>3, <2>4, MoveTyped
  <2>5. CASE Goto(r, "review") /\ draft' = [draft EXCEPT ![r] = new]
    <3>1. \A q \in Runs : draft'[q] = IF q = r THEN new ELSE draft[q]
      BY <1>d, <2>5 DEF DataTyped
    <3> QED BY <1>r, <1>s, <1>n, <2>1, <2>2, <2>3, <2>5, <3>1, MoveTyped
  <2> QED BY <2>2, <2>4, <2>5
<1>7. ASSUME NEW decision \in {"approved", "rejected"}, Decide(r, decision) PROVE TypeInv'
  <2>1. /\ stage[r] = "review" /\ Goto(r, decision)
        /\ UNCHANGED <<fields, match, duplicates, category, confidence, draft, edited>>
    BY <1>7 DEF Decide
  <2>2. DataTyped'
    BY <1>d, <2>1 DEF DataTyped
  <2> QED BY <1>r, <1>s, <1>n, <2>1, <2>2, MoveTyped
<1>8. ASSUME NEW e \in Edits, ApproveEdited(r, e) PROVE TypeInv'
  <2> DEFINE f == Merged(fields[r], e)
             new == DraftOf(f, r)
  <2>1. e \in Fields
    BY InputsAssumption DEF InputsAssumption
  <2>2. f \in Fields
    BY <1>d, <1>f, <2>1, DraftTyped
  <2>3. new \in Drafts
    BY <1>d, <2>2, DraftTyped
  <2>4. /\ stage[r] = "review"
        /\ \/ Goto(r, "failed") /\ UNCHANGED <<fields, draft, edited>>
           \/ /\ Goto(r, "edited") /\ fields' = [fields EXCEPT ![r] = f]
              /\ draft' = [draft EXCEPT ![r] = new] /\ edited' = [edited EXCEPT ![r] = e]
        /\ UNCHANGED <<match, duplicates, category, confidence>>
    BY <1>8 DEF ApproveEdited
  <2> HIDE DEF new, f
  <2>5. DataTyped'
    BY <1>d, <2>1, <2>2, <2>3, <2>4 DEF DataTyped
  <2>6. \A q \in Runs \ {r} : draft'[q] = draft[q]
    BY <1>d, <2>4 DEF DataTyped
  <2> QED BY <1>r, <1>s, <1>n, <2>4, <2>5, <2>6, MoveTyped
<1> QED BY <1>1, <1>2, <1>3, <1>4, <1>5, <1>6, <1>7, <1>8

\* Hence the types are an invariant of every step.
LEMMA TypeInductive == TypeInv /\ [Next]_vars => TypeInv'
<1>1. ASSUME TypeInv, Next PROVE TypeInv'
  BY <1>1, StepTyped DEF Next
<1>2. ASSUME TypeInv, UNCHANGED vars PROVE TypeInv'
  BY <1>2 DEF vars, TypeInv, TypeOK, OwnDraft
<1> QED BY <1>1, <1>2

\* Scores are shares of one, no run is a duplicate of itself, every reviewed draft has
\* an amount (the nodes of WorkflowService, draft_pre_entries).
THEOREM ReviewTypeCorrect == Spec => []TypeOK
<1>1. TypeInv => TypeOK
  BY DEF TypeInv
<1> QED BY <1>1, InitTyped, TypeInductive, PTL DEF Spec

-----------------------------------------------------------------------------
(* What the duplicate check reports is exact *)

ExactInv == NoneReported /\ MatchesAreExact

\* The duplicate check itself reports exact matches, half the confidence each.
LEMMA ReportedExact ==
    ASSUME NEW f, NEW d \in DuplicatesOf(f)
    PROVE  /\ d.score = 5 * One(f.number # Missing) + 3 * One(f.amount # {})
                      + 2 * One(f.supplier # Missing)
           /\ Penalty(DuplicatesOf(f)) = 50
<1>1. d.score >= 5 /\ DuplicatesOf(f) # {}
  BY DuplicatesTyped
<1> QED BY <1>1, DuplicatesTyped DEF Penalty

\* A run that stays with its fields and its duplicates, or ends, keeps the invariant.
LEMMA StayExact ==
    ASSUME TypeInv, ExactInv, NEW r \in Runs, NEW node, Goto(r, node),
           \A q \in Runs : duplicates'[q] = duplicates[q],
           \A q \in Runs \ {r} : fields'[q] = fields[q],
           node \in Analysing \cup {"review"} =>
               \/ node \in NotChecked /\ stage[r] \in NotChecked
               \/ /\ node \notin NotChecked /\ stage[r] \in Analysing \cup {"review"}
                  /\ fields'[r] = fields[r],
           node # "new"
    PROVE  ExactInv'
<1>1. \A q \in Runs : stage'[q] = IF q = r THEN node ELSE stage[q]
  BY DEF TypeInv, TypeOK, Goto
<1>2. ASSUME NEW q \in Runs, stage'[q] \in NotChecked PROVE duplicates'[q] = {}
  BY <1>1, <1>2 DEF ExactInv, NoneReported, NotChecked, Analysing
<1>3. ASSUME NEW q \in Runs, stage'[q] \in Analysing \cup {"review"}, NEW d \in duplicates'[q]
      PROVE  /\ d.score = 5 * One(fields'[q].number # Missing)
                        + 3 * One(fields'[q].amount # {})
                        + 2 * One(fields'[q].supplier # Missing)
             /\ Penalty(duplicates'[q]) = 50
  <2>1. d \in duplicates[q] /\ duplicates'[q] = duplicates[q]
    BY <1>3
  <2>2. stage'[q] \notin NotChecked
    BY <1>2, <1>3
  <2>3. stage[q] \in Analysing \cup {"review"} /\ fields'[q] = fields[q]
    BY <1>1, <1>3, <2>2
  <2> QED BY <2>1, <2>3 DEF ExactInv, MatchesAreExact
<1>4. NoneReported'
  BY <1>2 DEF NoneReported
<1>5. MatchesAreExact'
  BY <1>3 DEF MatchesAreExact
<1> QED BY <1>4, <1>5 DEF ExactInv

\* Every node keeps what is reported exact; a review with edits ends the claim.
LEMMA StepExact == ASSUME TypeInv, ExactInv, NEW r \in Runs PROVE
    /\ \A f \in Invoices : ExtractFields(r, f) => ExactInv'
    /\ SupplierLookup(r) => ExactInv'
    /\ DuplicateCheck(r) => ExactInv'
    /\ \A c \in CategoryConfidence : CategorizeDocument(r, c) => ExactInv'
    /\ CalculateConfidence(r) => ExactInv'
    /\ CreateDraft(r) => ExactInv'
    /\ \A decision \in {"approved", "rejected"} : Decide(r, decision) => ExactInv'
    /\ \A e \in Edits : ApproveEdited(r, e) => ExactInv'
<1> USE DEF NotChecked, Analysing
<1>f. fields \in [Runs -> Fields] /\ duplicates \in [Runs -> SUBSET Found]
  BY DEF TypeInv, TypeOK
<1>1. ASSUME NEW f \in Invoices, ExtractFields(r, f) PROVE ExactInv'
  BY <1>1, <1>f, StayExact DEF ExtractFields
<1>2. ASSUME SupplierLookup(r) PROVE ExactInv'
  <2>1. /\ stage[r] = "supplier_lookup" /\ (Goto(r, "failed") \/ Goto(r, "duplicate_check"))
        /\ UNCHANGED <<fields, duplicates>>
    BY <1>2 DEF SupplierLookup
  <2> QED BY <2>1, StayExact
<1>3. ASSUME DuplicateCheck(r) PROVE ExactInv'
  <2> DEFINE dups == DuplicatesOf(fields[r])
  <2>1. /\ stage[r] = "duplicate_check" /\ Goto(r, "categorize_document")
        /\ duplicates' = [duplicates EXCEPT ![r] = dups] /\ UNCHANGED fields
    BY <1>3 DEF DuplicateCheck
  <2>2. \A d \in dups :
           /\ d.score = 5 * One(fields[r].number # Missing) + 3 * One(fields[r].amount # {})
                      + 2 * One(fields[r].supplier # Missing)
           /\ Penalty(dups) = 50
    BY ReportedExact
  <2> HIDE DEF dups
  <2>3. \A q \in Runs :
           /\ stage'[q] = IF q = r THEN "categorize_document" ELSE stage[q]
           /\ duplicates'[q] = IF q = r THEN dups ELSE duplicates[q]
    BY <1>f, <2>1 DEF Goto, TypeInv, TypeOK
  <2>4. NoneReported'
    BY <2>3 DEF ExactInv, NoneReported
  <2>5. ASSUME NEW q \in Runs, stage'[q] \in Analysing \cup {"review"},
               NEW d \in duplicates'[q]
        PROVE  /\ d.score = 5 * One(fields'[q].number # Missing)
                          + 3 * One(fields'[q].amount # {})
                          + 2 * One(fields'[q].supplier # Missing)
               /\ Penalty(duplicates'[q]) = 50
    <3>1. CASE q = r
      BY <2>1, <2>2, <2>3, <2>5, <3>1
    <3>2. CASE q # r
      <4>1. stage[q] \in Analysing \cup {"review"} /\ d \in duplicates[q]
        BY <2>3, <2>5, <3>2
      <4>2. duplicates'[q] = duplicates[q] /\ fields'[q] = fields[q]
        BY <2>1, <2>3, <3>2
      <4> QED BY <4>1, <4>2 DEF ExactInv, MatchesAreExact
    <3> QED BY <3>1, <3>2
  <2>6. MatchesAreExact'
    BY <2>5 DEF MatchesAreExact
  <2> QED BY <2>4, <2>6 DEF ExactInv
<1>4. ASSUME NEW c \in CategoryConfidence, CategorizeDocument(r, c) PROVE ExactInv'
  BY <1>4, StayExact DEF CategorizeDocument
<1>5. ASSUME CalculateConfidence(r) PROVE ExactInv'
  BY <1>5, StayExact DEF CalculateConfidence
<1>6. ASSUME CreateDraft(r) PROVE ExactInv'
  <2>1. /\ stage[r] = "create_draft" /\ (Goto(r, "failed") \/ Goto(r, "review"))
        /\ UNCHANGED <<fields, duplicates>>
    BY <1>6 DEF CreateDraft
  <2> QED BY <2>1, StayExact
<1>7. ASSUME NEW decision \in {"approved", "rejected"}, Decide(r, decision) PROVE ExactInv'
  BY <1>7, StayExact DEF Decide
<1>8. ASSUME NEW e \in Edits, ApproveEdited(r, e) PROVE ExactInv'
  <2>1. /\ stage[r] = "review" /\ (Goto(r, "failed") \/ Goto(r, "edited"))
        /\ UNCHANGED duplicates /\ \A q \in Runs \ {r} : fields'[q] = fields[q]
    BY <1>8, <1>f DEF ApproveEdited
  <2> QED BY <2>1, StayExact
<1> QED BY <1>1, <1>2, <1>3, <1>4, <1>5, <1>6, <1>7, <1>8

\* The pair of invariants is inductive.
LEMMA ExactInductive == TypeInv /\ ExactInv /\ [Next]_vars => ExactInv'
<1>1. ASSUME TypeInv, ExactInv, Next PROVE ExactInv'
  BY <1>1, StepExact DEF Next
<1>2. ASSUME ExactInv, UNCHANGED vars PROVE ExactInv'
  BY <1>2 DEF vars, ExactInv, NoneReported, MatchesAreExact
<1> QED BY <1>1, <1>2

\* The graded score of the duplicate check never grades (find_duplicate_drafts): all
\* that it reports agrees with everything the invoice gives and costs one half.
THEOREM MatchesAreExactHolds == Spec => []MatchesAreExact
<1>1. Init => ExactInv
  BY DEF Init, ExactInv, NoneReported, MatchesAreExact, Analysing
<1>2. ExactInv => MatchesAreExact
  BY DEF ExactInv
<1> QED BY <1>1, <1>2, InitTyped, TypeInductive, ExactInductive, PTL DEF Spec

-----------------------------------------------------------------------------
(* An unknown supplier is never recommended for approval *)

\* What keeps the confidence of a run without a supplier low, from its lookup on.
UnmatchedScore == \A r \in Runs :
    match[r].supplier = Missing =>
        /\ match[r].score = 0
        /\ stage[r] \in {"create_draft", "review"} => confidence[r] <= 7000

\* A run that moves on with its match, to a later node or with the confidence it had
\* under review, stays bounded.
LEMMA MoveBounded ==
    ASSUME TypeInv, UnmatchedScore, NEW r \in Runs, NEW node, Goto(r, node),
           \A q \in Runs : match'[q] = match[q] /\ confidence'[q] = confidence[q],
           node \in {"create_draft", "review"} => stage[r] \in {"create_draft", "review"}
    PROVE  UnmatchedScore'
<1>1. \A q \in Runs : stage'[q] = IF q = r THEN node ELSE stage[q]
  BY DEF TypeInv, TypeOK, Goto
<1> QED BY <1>1 DEF UnmatchedScore

\* The lookup scores zero without a supplier, and the confidence follows from it.
LEMMA UnmatchedInductive == TypeInv /\ UnmatchedScore /\ [Next]_vars => UnmatchedScore'
<1> SUFFICES ASSUME TypeInv, UnmatchedScore, [Next]_vars PROVE UnmatchedScore'
  OBVIOUS
<1>t. /\ match \in [Runs -> Matches] /\ confidence \in [Runs -> Shares]
      /\ fields \in [Runs -> Fields] /\ category \in [Runs -> 0..100]
      /\ stage \in [Runs -> Stages]
  BY DEF TypeInv, TypeOK
<1>1. ASSUME NEW r \in Runs, NEW f \in Invoices, ExtractFields(r, f) PROVE UnmatchedScore'
  BY <1>1, MoveBounded DEF ExtractFields
<1>2. ASSUME NEW r \in Runs, SupplierLookup(r) PROVE UnmatchedScore'
  <2> DEFINE f == fields[r]
             score == MatchScore(f)
  <2>1. CASE Goto(r, "failed") /\ UNCHANGED match
    BY <1>2, <2>1, MoveBounded DEF SupplierLookup
  <2>2. CASE ~(Goto(r, "failed") /\ UNCHANGED match)
    <3>1. PICK name \in IF Candidates(f) = {} THEN {Missing} ELSE {s.name : s \in Candidates(f)} :
             match' = [match EXCEPT ![r] = [score |-> score, supplier |-> name]]
      BY <1>2, <2>2 DEF SupplierLookup
    <3>2. name = Missing => score = 0
      BY <1>t, MatchTyped
    <3>3. /\ stage' = [stage EXCEPT ![r] = "duplicate_check"] /\ UNCHANGED confidence
      BY <1>2, <2>2 DEF SupplierLookup, Goto
    <3> HIDE DEF score
    <3>4. \A q \in Runs : /\ match'[q] = IF q = r THEN [score |-> score, supplier |-> name]
                                         ELSE match[q]
                          /\ stage'[q] = IF q = r THEN "duplicate_check" ELSE stage[q]
      BY <1>t, <3>1, <3>3
    <3> QED BY <3>2, <3>3, <3>4 DEF UnmatchedScore
  <2> QED BY <2>1, <2>2
<1>3. ASSUME NEW r \in Runs, DuplicateCheck(r) PROVE UnmatchedScore'
  BY <1>3, MoveBounded DEF DuplicateCheck
<1>4. ASSUME NEW r \in Runs, NEW c \in CategoryConfidence, CategorizeDocument(r, c)
      PROVE  UnmatchedScore'
  BY <1>4, MoveBounded DEF CategorizeDocument
<1>5. ASSUME NEW r \in Runs, CalculateConfidence(r) PROVE UnmatchedScore'
  <2> DEFINE given == Present(fields[r])
             penalty == Penalty(duplicates[r])
             x == Rounded(Score(given, match[r].score, category[r], penalty))
  <2>1. given \in 0..6 /\ category[r] \in 0..100
    BY <1>t, PresentTyped
  <2>2. penalty \in {0, 40, 50}
    BY PenaltyTyped
  <2> HIDE DEF given, penalty
  <2>3. penalty \in 0..100 /\ 0 \in 0..100
    BY <2>2
  <2>4. match[r].score = 0 => x <= 7000
    BY <2>1, <2>3, ScoreBounds
  <2>5. /\ confidence' = [confidence EXCEPT ![r] = x] /\ UNCHANGED match
        /\ stage' = [stage EXCEPT ![r] = "create_draft"]
    BY <1>5 DEF CalculateConfidence, Goto, given, penalty
  <2> HIDE DEF x
  <2>6. \A q \in Runs : /\ confidence'[q] = IF q = r THEN x ELSE confidence[q]
                        /\ stage'[q] = IF q = r THEN "create_draft" ELSE stage[q]
    BY <1>t, <2>5
  <2> QED BY <2>4, <2>5, <2>6 DEF UnmatchedScore
<1>6. ASSUME NEW r \in Runs, CreateDraft(r) PROVE UnmatchedScore'
  <2>1. /\ stage[r] = "create_draft" /\ (Goto(r, "failed") \/ Goto(r, "review"))
        /\ UNCHANGED <<match, confidence>>
    BY <1>6 DEF CreateDraft
  <2> QED BY <2>1, MoveBounded
<1>7. ASSUME NEW r \in Runs, NEW decision \in {"approved", "rejected"}, Decide(r, decision)
      PROVE  UnmatchedScore'
  BY <1>7, MoveBounded DEF Decide
<1>8. ASSUME NEW r \in Runs, NEW e \in Edits, ApproveEdited(r, e) PROVE UnmatchedScore'
  <2>1. /\ stage[r] = "review" /\ (Goto(r, "failed") \/ Goto(r, "edited"))
        /\ UNCHANGED <<match, confidence>>
    BY <1>8 DEF ApproveEdited
  <2> QED BY <2>1, MoveBounded
<1>9. CASE UNCHANGED vars
  BY <1>9 DEF vars, UnmatchedScore
<1> QED BY <1>1, <1>2, <1>3, <1>4, <1>5, <1>6, <1>7, <1>8, <1>9 DEF Next

\* A share is a natural number.
LEMMA SharesNat == \A x \in Shares : x \in Nat
BY DEF Shares

\* The threshold is a number of ten-thousandths.
LEMMA ThresholdNat == Threshold \in Nat
BY ThresholdAssumption DEF ThresholdAssumption

\* Whatever the invoice, the category and the duplicates, a threshold above 0.70 keeps
\* a run whose supplier the registry does not know from being recommended
\* (_node_calculate_confidence, _node_human_review).
THEOREM UnknownSupplierHolds == Spec => []UnknownSupplierNotRecommended
<1>1. Init => UnmatchedScore
  BY DEF Init, UnmatchedScore, NoMatch
<1>2. TypeInv /\ UnmatchedScore => UnknownSupplierNotRecommended
  <2> SUFFICES ASSUME TypeInv, UnmatchedScore, NEW r \in Runs, Threshold > 7000,
                      stage[r] = "review", match[r].supplier = Missing
               PROVE  ~RecommendsApproval(r)
    BY DEF UnknownSupplierNotRecommended
  <2>1. confidence[r] <= 7000 /\ confidence[r] \in Nat
    <3>1. confidence[r] <= 7000
      BY DEF UnmatchedScore
    <3>2. confidence[r] \in Shares
      BY DEF TypeInv, TypeOK
    <3> QED BY <3>1, <3>2, SharesNat
  <2> QED BY <2>1, ThresholdNat DEF RecommendsApproval
<1> QED BY <1>1, <1>2, InitTyped, TypeInductive, UnmatchedInductive, PTL DEF Spec
-----------------------------------------------------------------------------
(* Where two drafts for one invoice may come from *)

\* Nodes between the duplicate check and the draft.
CheckedNodes == {"categorize_document", "calculate_confidence", "create_draft"}

\* The event loop is with one analysis at a time.
OneAnalysing == \A q, r \in Runs : stage[q] \in Analysing /\ stage[r] \in Analysing => q = r

\* The drafts that the check on an invoice is able to report.
Reportable(f, d) == ~TooLittleGiven(f) /\ PassesFilter(f, d) /\ DuplicateScore(f, d) >= 4

\* A run past its duplicate check has every such draft reported: none was added since.
CheckedReported == \A r \in Runs : stage[r] \in CheckedNodes =>
    \A q \in Drafted : stage[q] # "edited" /\ Reportable(fields[r], draft[q])
                       => \E d \in duplicates[r] : d.run = q

RepeatInv == OneAnalysing /\ CheckedReported /\ UnseenDuplicatesAreExplained

\* A draft that repeats what is drafted from f is reported, unless f gives too little.
LEMMA RepeatIsFound ==
    ASSUME NEW f, NEW r, NEW d, ~TooLittleGiven(f),
           Repeats(d, DraftOf(f, r)) \/ Repeats(DraftOf(f, r), d)
    PROVE  Reportable(f, d)
<1> DEFINE name == IF f.supplier = Missing THEN Unknown ELSE f.supplier
           sum  == IF f.amount = {} THEN {0} ELSE f.amount
           no   == IF f.number = Missing THEN DocNumber[r] ELSE f.number
<1>1. /\ DraftOf(f, r).supplier = name /\ DraftOf(f, r).number = no
      /\ DraftOf(f, r).amount = sum
  BY DEF DraftOf
<1>2. d.number = no /\ d.supplier = name /\ d.amount = sum
  BY <1>1 DEF Repeats
<1>3. /\ SameNumber(f, d) <=> f.number # Missing
      /\ SameAmount(f, d) <=> f.amount # {}
      /\ SameSupplier(f, d) <=> f.supplier # Missing
  BY <1>2 DEF SameNumber, SameAmount, SameSupplier, Within
<1>4. PassesFilter(f, d)
  BY <1>3 DEF PassesFilter
<1>5. DuplicateScore(f, d) >= 4
  BY <1>3 DEF TooLittleGiven, DuplicateScore, One
<1> QED BY <1>4, <1>5 DEF Reportable

\* A run that moves on with the drafts and reports as they are keeps the invariant.
LEMMA MoveReported ==
    ASSUME TypeInv, RepeatInv, NEW r \in Runs, NEW node, Goto(r, node), stage[r] # "edited",
           UNCHANGED <<draft, duplicates>>, fields'[r] = fields[r] \/ draft[r] = NoDraft,
           \A q \in Runs \ {r} : fields'[q] = fields[q],
           node \in Analysing => stage[r] \in Analysing \/ LoopFree,
           node \in CheckedNodes => stage[r] \in CheckedNodes /\ fields'[r] = fields[r]
    PROVE  RepeatInv'
<1>1. \A q \in Runs : stage'[q] = IF q = r THEN node ELSE stage[q]
  BY DEF TypeInv, TypeOK, Goto
<1>2. OneAnalysing'
  BY <1>1 DEF RepeatInv, OneAnalysing, LoopFree
<1>3. Drafted' = Drafted
  BY DEF Drafted
<1>4. CheckedReported'
  <2> SUFFICES ASSUME NEW p \in Runs, stage'[p] \in CheckedNodes, NEW q \in Drafted,
                      stage'[q] # "edited", Reportable(fields'[p], draft[q])
               PROVE  \E d \in duplicates[p] : d.run = q
    BY <1>3 DEF CheckedReported, Reportable
  <2>1. stage[p] \in CheckedNodes /\ fields'[p] = fields[p]
    BY <1>1
  <2>2. stage[q] # "edited"
    BY <1>1 DEF Drafted
  <2> QED BY <2>1, <2>2 DEF RepeatInv, CheckedReported
<1>5. UnseenDuplicatesAreExplained'
  <2> SUFFICES ASSUME NEW p \in Drafted, NEW q \in Drafted, p # q, Repeats(draft[p], draft[q])
               PROVE  \/ \E d \in duplicates[p] : d.run = q
                      \/ \E d \in duplicates[q] : d.run = p
                      \/ "edited" \in {stage'[p], stage'[q]}
                      \/ TooLittleGiven(fields'[p]) \/ TooLittleGiven(fields'[q])
    BY <1>3 DEF UnseenDuplicatesAreExplained
  <2>1. p \in Runs /\ q \in Runs /\ fields'[p] = fields[p] /\ fields'[q] = fields[q]
    BY DEF Drafted
  <2>2. \/ \E d \in duplicates[p] : d.run = q
        \/ \E d \in duplicates[q] : d.run = p
        \/ stage[p] = "edited" \/ stage[q] = "edited"
        \/ TooLittleGiven(fields[p]) \/ TooLittleGiven(fields[q])
    BY DEF RepeatInv, UnseenDuplicatesAreExplained
  <2> QED BY <1>1, <2>1, <2>2
<1> QED BY <1>2, <1>4, <1>5 DEF RepeatInv

\* The duplicate check reports every draft its run may repeat.
LEMMA CheckReported ==
    ASSUME TypeInv, RepeatInv, NEW r \in Runs, DuplicateCheck(r)
    PROVE  RepeatInv'
<1> DEFINE dups == DuplicatesOf(fields[r])
<1>1. \A q \in Drafted : Reportable(fields[r], draft[q]) => \E d \in dups : d.run = q
  <2> SUFFICES ASSUME NEW q \in Drafted, Reportable(fields[r], draft[q])
               PROVE  \E d \in dups : d.run = q
    OBVIOUS
  <2>1. [run |-> q, score |-> DuplicateScore(fields[r], draft[q])] \in dups
    BY DEF Reportable, TooLittleGiven, DuplicatesOf
  <2> QED BY <2>1
<1>2. /\ stage[r] = "duplicate_check" /\ stage' = [stage EXCEPT ![r] = "categorize_document"]
      /\ duplicates' = [duplicates EXCEPT ![r] = dups]
      /\ UNCHANGED <<fields, draft>>
  BY DEF DuplicateCheck, Goto
<1> HIDE DEF dups
<1>3. \A q \in Runs : /\ stage'[q] = IF q = r THEN "categorize_document" ELSE stage[q]
                      /\ duplicates'[q] = IF q = r THEN dups ELSE duplicates[q]
  BY <1>2 DEF TypeInv, TypeOK
<1>4. Drafted' = Drafted /\ r \notin Drafted
  BY <1>2 DEF Drafted, TypeInv, OwnDraft, NotDrafted, Analysing
<1>5. OneAnalysing'
  BY <1>2, <1>3 DEF RepeatInv, OneAnalysing, Analysing
<1>6. CheckedReported'
  <2> SUFFICES ASSUME NEW p \in Runs, stage'[p] \in CheckedNodes, NEW q \in Drafted,
                      stage'[q] # "edited", Reportable(fields[p], draft[q])
               PROVE  \E d \in duplicates'[p] : d.run = q
    BY <1>2, <1>4 DEF CheckedReported, Reportable
  <2>1. CASE p = r
    BY <1>1, <1>3, <2>1
  <2>2. CASE p # r
    <3>1. q \in Runs /\ stage[p] \in CheckedNodes /\ stage[q] # "edited"
      BY <1>3, <1>4, <2>2 DEF Drafted
    <3>2. \E d \in duplicates[p] : d.run = q
      BY <3>1 DEF RepeatInv, CheckedReported
    <3> QED BY <1>3, <2>2, <3>2
  <2> QED BY <2>1, <2>2
<1>7. UnseenDuplicatesAreExplained'
  <2> SUFFICES ASSUME NEW p \in Drafted, NEW q \in Drafted, p # q, Repeats(draft[p], draft[q])
               PROVE  \/ \E d \in duplicates'[p] : d.run = q
                      \/ \E d \in duplicates'[q] : d.run = p
                      \/ "edited" \in {stage'[p], stage'[q]}
                      \/ TooLittleGiven(fields[p]) \/ TooLittleGiven(fields[q])
    BY <1>2, <1>4 DEF UnseenDuplicatesAreExplained
  <2>1. p \in Runs /\ q \in Runs /\ p # r /\ q # r
    BY <1>4 DEF Drafted
  <2>2. \/ \E d \in duplicates[p] : d.run = q
        \/ \E d \in duplicates[q] : d.run = p
        \/ stage[p] = "edited" \/ stage[q] = "edited"
        \/ TooLittleGiven(fields[p]) \/ TooLittleGiven(fields[q])
    BY DEF RepeatInv, UnseenDuplicatesAreExplained
  <2> QED BY <1>3, <2>1, <2>2
<1> QED BY <1>5, <1>6, <1>7 DEF RepeatInv

\* A new draft repeats only what its run has reported, unless its invoice gives too
\* little.
LEMMA DraftReported ==
    ASSUME TypeInv, RepeatInv, NEW r \in Runs, CreateDraft(r), Goto(r, "review"),
           draft' = [draft EXCEPT ![r] = DraftOf(fields[r], r)]
    PROVE  RepeatInv'
<1> DEFINE f == fields[r]
           new == DraftOf(f, r)
<1>1. /\ stage[r] = "create_draft" /\ UNCHANGED <<fields, duplicates>>
      /\ \A q \in Runs : /\ stage'[q] = IF q = r THEN "review" ELSE stage[q]
                         /\ draft'[q] = IF q = r THEN new ELSE draft[q]
  BY DEF CreateDraft, Goto, TypeInv, TypeOK
<1>2. \A q \in Drafted : Repeats(draft[q], new) \/ Repeats(new, draft[q]) =>
         TooLittleGiven(f) \/ Reportable(f, draft[q])
  BY RepeatIsFound
<1> HIDE DEF new
<1>3. Drafted' \subseteq Drafted \cup {r} /\ r \notin Drafted
  BY <1>1 DEF Drafted, TypeInv, OwnDraft, NotDrafted, Analysing
<1>4. OneAnalysing'
  BY <1>1 DEF RepeatInv, OneAnalysing, Analysing
<1>5. \A p \in Runs : stage'[p] \notin CheckedNodes
  BY <1>1 DEF RepeatInv, OneAnalysing, Analysing, CheckedNodes
<1>6. CheckedReported'
  BY <1>5 DEF CheckedReported
<1>7. ASSUME NEW q \in Drafted, Repeats(draft[q], new) \/ Repeats(new, draft[q])
      PROVE  \/ \E d \in duplicates[r] : d.run = q
             \/ stage[q] = "edited" \/ TooLittleGiven(f)
  <2>1. TooLittleGiven(f) \/ Reportable(f, draft[q])
    BY <1>2, <1>7
  <2>2. stage[r] \in CheckedNodes
    BY <1>1 DEF CheckedNodes
  <2> QED BY <2>1, <2>2 DEF RepeatInv, CheckedReported
<1>8. UnseenDuplicatesAreExplained'
  <2> SUFFICES ASSUME NEW p \in Drafted', NEW q \in Drafted', p # q,
                      Repeats(draft'[p], draft'[q])
               PROVE  \/ \E d \in duplicates[p] : d.run = q
                      \/ \E d \in duplicates[q] : d.run = p
                      \/ "edited" \in {stage'[p], stage'[q]}
                      \/ TooLittleGiven(fields[p]) \/ TooLittleGiven(fields[q])
    BY <1>1 DEF UnseenDuplicatesAreExplained
  <2>1. p \in Runs /\ q \in Runs
    BY <1>3 DEF Drafted
  <2>2. CASE p = r
    <3>1. q \in Drafted /\ draft'[p] = new /\ draft'[q] = draft[q] /\ stage'[q] = stage[q]
      BY <1>1, <1>3, <2>1, <2>2
    <3> QED BY <1>7, <2>2, <3>1
  <2>3. CASE q = r
    <3>1. p \in Drafted /\ draft'[q] = new /\ draft'[p] = draft[p] /\ stage'[p] = stage[p]
      BY <1>1, <1>3, <2>1, <2>3
    <3> QED BY <1>7, <2>3, <3>1
  <2>4. CASE p # r /\ q # r
    <3>1. /\ p \in Drafted /\ draft'[p] = draft[p] /\ stage'[p] = stage[p]
          /\ q \in Drafted /\ draft'[q] = draft[q] /\ stage'[q] = stage[q]
      BY <1>1, <1>3, <2>1, <2>4
    <3>2. \/ \E d \in duplicates[p] : d.run = q
          \/ \E d \in duplicates[q] : d.run = p
          \/ stage[p] = "edited" \/ stage[q] = "edited"
          \/ TooLittleGiven(fields[p]) \/ TooLittleGiven(fields[q])
      BY <3>1 DEF RepeatInv, UnseenDuplicatesAreExplained
    <3> QED BY <3>1, <3>2
  <2> QED BY <2>2, <2>3, <2>4
<1> QED BY <1>4, <1>6, <1>8 DEF RepeatInv

\* A reviewer's edits only take drafts out of the claim.
LEMMA EditReported ==
    ASSUME TypeInv, RepeatInv, NEW r \in Runs, NEW f, NEW new, Goto(r, "edited"),
           stage[r] = "review", fields' = [fields EXCEPT ![r] = f],
           draft' = [draft EXCEPT ![r] = new], UNCHANGED duplicates
    PROVE  RepeatInv'
<1>1. \A q \in Runs : /\ stage'[q] = IF q = r THEN "edited" ELSE stage[q]
                      /\ draft'[q] = IF q = r THEN new ELSE draft[q]
                      /\ q # r => fields'[q] = fields[q]
  BY DEF Goto, TypeInv, TypeOK
<1>2. OneAnalysing'
  BY <1>1 DEF RepeatInv, OneAnalysing, Analysing
<1>3. CheckedReported'
  <2> SUFFICES ASSUME NEW p \in Runs, stage'[p] \in CheckedNodes, NEW q \in Drafted',
                      stage'[q] # "edited", Reportable(fields'[p], draft'[q])
               PROVE  \E d \in duplicates[p] : d.run = q
    BY DEF CheckedReported, Reportable
  <2>1. q \in Runs /\ q # r /\ p # r
    BY <1>1 DEF Drafted, CheckedNodes
  <2>2. /\ q \in Drafted /\ draft'[q] = draft[q] /\ stage[q] # "edited"
        /\ stage[p] \in CheckedNodes /\ fields'[p] = fields[p]
    BY <1>1, <2>1 DEF Drafted
  <2> QED BY <2>2 DEF RepeatInv, CheckedReported
<1>4. UnseenDuplicatesAreExplained'
  <2> SUFFICES ASSUME NEW p \in Drafted', NEW q \in Drafted', p # q,
                      Repeats(draft'[p], draft'[q]), stage'[p] # "edited",
                      stage'[q] # "edited"
               PROVE  \/ \E d \in duplicates[p] : d.run = q
                      \/ \E d \in duplicates[q] : d.run = p
                      \/ TooLittleGiven(fields'[p]) \/ TooLittleGiven(fields'[q])
    BY DEF UnseenDuplicatesAreExplained
  <2>1. p \in Runs /\ q \in Runs /\ p # r /\ q # r
    BY <1>1 DEF Drafted
  <2>2. /\ p \in Drafted /\ draft'[p] = draft[p] /\ stage'[p] = stage[p]
        /\ q \in Drafted /\ draft'[q] = draft[q] /\ stage'[q] = stage[q]
        /\ fields'[p] = fields[p] /\ fields'[q] = fields[q]
    BY <1>1, <2>1 DEF Drafted
  <2> QED BY <2>2 DEF RepeatInv, UnseenDuplicatesAreExplained
<1> QED BY <1>2, <1>3, <1>4 DEF RepeatInv

\* Hence the invariant holds of every step.
LEMMA RepeatInductive == TypeInv /\ RepeatInv /\ [Next]_vars => RepeatInv'
<1> SUFFICES ASSUME TypeInv, RepeatInv, [Next]_vars PROVE RepeatInv'
  OBVIOUS
<1>f. fields \in [Runs -> Fields]
  BY DEF TypeInv, TypeOK
<1> USE DEF CheckedNodes, Analysing
<1>1. ASSUME NEW r \in Runs, NEW f \in Invoices, ExtractFields(r, f) PROVE RepeatInv'
  <2>1. /\ stage[r] = "new" /\ LoopFree /\ Goto(r, "supplier_lookup")
        /\ UNCHANGED <<draft, duplicates>> /\ \A q \in Runs \ {r} : fields'[q] = fields[q]
    BY <1>1, <1>f DEF ExtractFields
  <2>2. draft[r] = NoDraft
    BY <2>1 DEF TypeInv, OwnDraft, NotDrafted
  <2> QED BY <2>1, <2>2, MoveReported
<1>2. ASSUME NEW r \in Runs, SupplierLookup(r) PROVE RepeatInv'
  <2>1. /\ stage[r] = "supplier_lookup" /\ (Goto(r, "failed") \/ Goto(r, "duplicate_check"))
        /\ UNCHANGED <<fields, draft, duplicates>>
    BY <1>2 DEF SupplierLookup
  <2> QED BY <2>1, MoveReported
<1>3. ASSUME NEW r \in Runs, DuplicateCheck(r) PROVE RepeatInv'
  BY <1>3, CheckReported
<1>4. ASSUME NEW r \in Runs, NEW c \in CategoryConfidence, CategorizeDocument(r, c)
      PROVE  RepeatInv'
  BY <1>4, MoveReported DEF CategorizeDocument
<1>5. ASSUME NEW r \in Runs, CalculateConfidence(r) PROVE RepeatInv'
  BY <1>5, MoveReported DEF CalculateConfidence
<1>6. ASSUME NEW r \in Runs, CreateDraft(r) PROVE RepeatInv'
  <2>1. CASE Goto(r, "failed") /\ UNCHANGED draft
    <3>1. stage[r] = "create_draft" /\ UNCHANGED <<fields, draft, duplicates>>
      BY <1>6, <2>1 DEF CreateDraft
    <3> QED BY <2>1, <3>1, MoveReported
  <2>2. CASE Goto(r, "review") /\ draft' = [draft EXCEPT ![r] = DraftOf(fields[r], r)]
    BY <1>6, <2>2, DraftReported
  <2> QED BY <1>6, <2>1, <2>2 DEF CreateDraft
<1>7. ASSUME NEW r \in Runs, NEW decision \in {"approved", "rejected"}, Decide(r, decision)
      PROVE  RepeatInv'
  BY <1>7, MoveReported DEF Decide
<1>8. ASSUME NEW r \in Runs, NEW e \in Edits, ApproveEdited(r, e) PROVE RepeatInv'
  <2>1. CASE Goto(r, "failed") /\ UNCHANGED <<fields, draft, edited>>
    <3>1. stage[r] = "review" /\ UNCHANGED <<fields, draft, duplicates>>
      BY <1>8, <2>1 DEF ApproveEdited
    <3> QED BY <2>1, <3>1, MoveReported
  <2>2. CASE ~(Goto(r, "failed") /\ UNCHANGED <<fields, draft, edited>>)
    <3> DEFINE f == Merged(fields[r], e)
               new == DraftOf(f, r)
    <3>1. /\ stage[r] = "review" /\ Goto(r, "edited") /\ UNCHANGED duplicates
          /\ fields' = [fields EXCEPT ![r] = f] /\ draft' = [draft EXCEPT ![r] = new]
      BY <1>8, <2>2 DEF ApproveEdited
    <3> HIDE DEF new, f
    <3> QED BY <3>1, EditReported
  <2> QED BY <2>1, <2>2
<1>9. CASE UNCHANGED vars
  BY <1>9 DEF vars, RepeatInv, OneAnalysing, CheckedReported, UnseenDuplicatesAreExplained, Drafted
<1> QED BY <1>1, <1>2, <1>3, <1>4, <1>5, <1>6, <1>7, <1>8, <1>9 DEF Next

\* However analyses and reviews interleave, two drafts for one invoice that no review
\* was warned of stem from a reviewer's edits or an invoice that gives too little
\* (_node_duplicate_check, create_draft, approve_run).
THEOREM UnseenDuplicatesHold == Spec => []UnseenDuplicatesAreExplained
<1>1. Init => RepeatInv
  BY DEF Init, RepeatInv, OneAnalysing, CheckedReported, CheckedNodes, Analysing,
         UnseenDuplicatesAreExplained, Drafted
<1>2. RepeatInv => UnseenDuplicatesAreExplained
  BY DEF RepeatInv
<1> QED BY <1>1, <1>2, InitTyped, TypeInductive, RepeatInductive, PTL DEF Spec
-----------------------------------------------------------------------------
(* A registered tax id finds its supplier *)

\* Nodes from which on a run has a match, and a review its draft.
MatchedNodes == CheckedNodes \cup {"duplicate_check", "review"}

\* A registered tax id has matched its supplier, or several candidates.
TaxFound(f, m) ==
    f.tax # Missing /\ (\E s \in Registry : s.tax = f.tax) =>
        \/ m.score = 100 /\ \E s \in Registry : s.tax = f.tax /\ s.name = m.supplier
        \/ m.score = 60

\* The match found at the lookup is one of the registry's, and the draft carries it.
MatchRegistered == \A r \in Runs : stage[r] \in MatchedNodes =>
    /\ TaxFound(fields[r], match[r])
    /\ match[r].score > 0 => match[r].supplier \in {s.name : s \in Registry}
    /\ stage[r] = "review" => draft[r].match = match[r].supplier

\* A run that moves on with its fields and its match keeps it, and with its draft when
\* it is to be reviewed.
LEMMA MoveMatched ==
    ASSUME TypeInv, MatchRegistered, NEW r \in Runs, NEW node, Goto(r, node),
           UNCHANGED match,
           \A q \in Runs \ {r} : fields'[q] = fields[q] /\ draft'[q] = draft[q],
           node \in MatchedNodes => stage[r] \in MatchedNodes /\ fields'[r] = fields[r],
           node = "review" => draft'[r].match = match[r].supplier
    PROVE  MatchRegistered'
<1>1. \A q \in Runs : stage'[q] = IF q = r THEN node ELSE stage[q]
  BY DEF TypeInv, TypeOK, Goto
<1> SUFFICES ASSUME NEW q \in Runs, stage'[q] \in MatchedNodes
             PROVE  /\ TaxFound(fields'[q], match[q])
                    /\ match[q].score > 0 => match[q].supplier \in {s.name : s \in Registry}
                    /\ stage'[q] = "review" => draft'[q].match = match[q].supplier
  BY DEF MatchRegistered, TaxFound
<1>2. CASE q = r
  BY <1>1, <1>2 DEF MatchRegistered
<1>3. CASE q # r
  BY <1>1, <1>3 DEF MatchRegistered
<1> QED BY <1>2, <1>3

\* A single candidate with the tax id scores 100, several score 60.
LEMMA TaxIsFound ==
    ASSUME NEW f, NEW name \in {s.name : s \in Candidates(f)}
    PROVE  TaxFound(f, [score |-> MatchScore(f), supplier |-> name])
<1> SUFFICES ASSUME f.tax # Missing, NEW s \in Registry, s.tax = f.tax
             PROVE  \/ /\ MatchScore(f) = 100
                       /\ \E x \in Registry : x.tax = f.tax /\ x.name = name
                    \/ MatchScore(f) = 60
  BY DEF TaxFound
<1>1. s \in Candidates(f)
  BY DEF Candidates
<1>2. IsFiniteSet(Candidates(f)) /\ Cardinality(Candidates(f)) \in Nat
  BY RegistryAssumption, FS_Subset, FS_CardinalityType DEF RegistryAssumption, Candidates
<1>3. CASE Cardinality(Candidates(f)) > 1
  BY <1>1, <1>3 DEF MatchScore
<1>4. CASE ~(Cardinality(Candidates(f)) > 1)
  <2>1. Cardinality(Candidates(f)) # 0
    BY <1>1, <1>2, FS_EmptySet
  <2>2. Cardinality(Candidates(f)) = 1
    BY <1>2, <1>4, <2>1
  <2>3. Candidates(f) = {s}
    BY <1>1, <1>2, <2>2, FS_Singleton
  <2>4. MatchScore(f) = 100
    BY <1>1, <1>4 DEF MatchScore, ByTax
  <2> QED BY <2>3, <2>4
<1> QED BY <1>3, <1>4

\* A match at the lookup is a candidate, and a registered tax id has one.
LEMMA LookupMatched ==
    ASSUME TypeInv, MatchRegistered, NEW r \in Runs, SupplierLookup(r),
           ~(Goto(r, "failed") /\ UNCHANGED match)
    PROVE  MatchRegistered'
<1> DEFINE f == fields[r]
           score == MatchScore(f)
<1>1. PICK name \in IF Candidates(f) = {} THEN {Missing} ELSE {s.name : s \in Candidates(f)} :
         match' = [match EXCEPT ![r] = [score |-> score, supplier |-> name]]
  BY DEF SupplierLookup
<1>2. f \in Fields
  BY DEF TypeInv, TypeOK
<1>3. Candidates(f) \subseteq Registry
  BY DEF Candidates
<1>4. /\ TaxFound(f, [score |-> score, supplier |-> name])
      /\ score > 0 => name \in {s.name : s \in Registry}
  <2>1. CASE Candidates(f) = {}
    <3>1. ~(score > 0)
      BY <1>2, <2>1, MatchTyped
    <3>2. ~(f.tax # Missing /\ \E s \in Registry : s.tax = f.tax)
      BY <2>1 DEF Candidates
    <3> QED BY <3>1, <3>2 DEF TaxFound
  <2>2. CASE Candidates(f) # {}
    <3>2. name \in {s.name : s \in Candidates(f)}
      BY <2>2
    <3>3. name \in {s.name : s \in Registry}
      BY <1>3, <3>2
    <3> QED BY <3>2, <3>3, TaxIsFound
  <2> QED BY <2>1, <2>2
<1>5. /\ stage' = [stage EXCEPT ![r] = "duplicate_check"] /\ UNCHANGED <<fields, draft>>
  BY DEF SupplierLookup, Goto
<1> HIDE DEF score
<1>6. \A q \in Runs : /\ stage'[q] = IF q = r THEN "duplicate_check" ELSE stage[q]
                      /\ match'[q] = IF q = r THEN [score |-> score, supplier |-> name]
                                     ELSE match[q]
  BY <1>1, <1>5 DEF TypeInv, TypeOK
<1> SUFFICES ASSUME NEW q \in Runs, stage'[q] \in MatchedNodes
             PROVE  /\ TaxFound(fields[q], match'[q])
                    /\ match'[q].score > 0 => match'[q].supplier \in {s.name : s \in Registry}
                    /\ stage'[q] = "review" => draft[q].match = match'[q].supplier
  BY <1>5 DEF MatchRegistered, TaxFound
<1>7. CASE q = r
  BY <1>4, <1>6, <1>7
<1>8. CASE q # r
  BY <1>6, <1>8 DEF MatchRegistered
<1> QED BY <1>7, <1>8

\* Hence the match stays registered.
LEMMA MatchInductive == TypeInv /\ MatchRegistered /\ [Next]_vars => MatchRegistered'
<1> SUFFICES ASSUME TypeInv, MatchRegistered, [Next]_vars PROVE MatchRegistered'
  OBVIOUS
<1>t. fields \in [Runs -> Fields] /\ draft \in [Runs -> Drafts]
  BY DEF TypeInv, TypeOK
<1> USE DEF MatchedNodes, CheckedNodes
<1>1. ASSUME NEW r \in Runs, NEW f \in Invoices, ExtractFields(r, f) PROVE MatchRegistered'
  <2>1. /\ Goto(r, "supplier_lookup") /\ UNCHANGED <<match, draft>>
        /\ \A q \in Runs \ {r} : fields'[q] = fields[q]
    BY <1>1, <1>t DEF ExtractFields
  <2> QED BY <2>1, MoveMatched
<1>2. ASSUME NEW r \in Runs, SupplierLookup(r) PROVE MatchRegistered'
  <2>1. CASE Goto(r, "failed") /\ UNCHANGED match
    <3>1. UNCHANGED <<fields, draft>>
      BY <1>2 DEF SupplierLookup
    <3> QED BY <2>1, <3>1, MoveMatched
  <2> QED BY <1>2, <2>1, LookupMatched
<1>3. ASSUME NEW r \in Runs, DuplicateCheck(r) PROVE MatchRegistered'
  BY <1>3, MoveMatched DEF DuplicateCheck
<1>4. ASSUME NEW r \in Runs, NEW c \in CategoryConfidence, CategorizeDocument(r, c)
      PROVE  MatchRegistered'
  BY <1>4, MoveMatched DEF CategorizeDocument
<1>5. ASSUME NEW r \in Runs, CalculateConfidence(r) PROVE MatchRegistered'
  BY <1>5, MoveMatched DEF CalculateConfidence
<1>6. ASSUME NEW r \in Runs, CreateDraft(r) PROVE MatchRegistered'
  <2>1. CASE Goto(r, "failed") /\ UNCHANGED draft
    <3>1. UNCHANGED <<fields, match>>
      BY <1>6 DEF CreateDraft
    <3> QED BY <2>1, <3>1, MoveMatched
  <2>2. CASE Goto(r, "review") /\ draft' = [draft EXCEPT ![r] = DraftOf(fields[r], r)]
    <3> DEFINE new == DraftOf(fields[r], r)
    <3>1. new.match = match[r].supplier
      BY DEF DraftOf
    <3>2. stage[r] = "create_draft" /\ UNCHANGED <<fields, match>>
      BY <1>6 DEF CreateDraft
    <3> HIDE DEF new
    <3>3. \A q \in Runs : draft'[q] = IF q = r THEN new ELSE draft[q]
      BY <1>t, <2>2 DEF new
    <3> QED BY <2>2, <3>1, <3>2, <3>3, MoveMatched
  <2> QED BY <1>6, <2>1, <2>2 DEF CreateDraft
<1>7. ASSUME NEW r \in Runs, NEW decision \in {"approved", "rejected"}, Decide(r, decision)
      PROVE  MatchRegistered'
  BY <1>7, MoveMatched DEF Decide
<1>8. ASSUME NEW r \in Runs, NEW e \in Edits, ApproveEdited(r, e) PROVE MatchRegistered'
  <2>1. /\ Goto(r, "failed") \/ Goto(r, "edited")
        /\ UNCHANGED match
        /\ \A q \in Runs \ {r} : fields'[q] = fields[q] /\ draft'[q] = draft[q]
    BY <1>8, <1>t DEF ApproveEdited
  <2> QED BY <2>1, MoveMatched
<1>9. CASE UNCHANGED vars
  BY <1>9 DEF vars, MatchRegistered, TaxFound
<1> QED BY <1>1, <1>2, <1>3, <1>4, <1>5, <1>6, <1>7, <1>8, <1>9 DEF Next

\* A registered tax id finds its supplier whatever the name on the invoice, or a match
\* of 0.60 when the name finds others too, and a matched draft refers to a registered
\* supplier (find_candidates, create_draft).
THEOREM TaxIdFindsSupplierHolds == Spec => []TaxIdFindsSupplier
<1>1. Init => MatchRegistered
  BY DEF Init, MatchRegistered, MatchedNodes, CheckedNodes
<1>2. MatchRegistered => TaxIdFindsSupplier
  <2> SUFFICES ASSUME MatchRegistered, NEW r \in Runs,
                      stage[r] \in {"duplicate_check", "create_draft", "review"}
               PROVE  /\ TaxFound(fields[r], match[r])
                      /\ match[r].score > 0 /\ stage[r] = "review" =>
                            draft[r].match \in {s.name : s \in Registry}
    BY DEF TaxIdFindsSupplier, TaxFound
  <2>1. stage[r] \in MatchedNodes
    BY DEF MatchedNodes, CheckedNodes
  <2> QED BY <2>1 DEF MatchRegistered
<1> QED BY <1>1, <1>2, InitTyped, TypeInductive, MatchInductive, PTL DEF Spec

-----------------------------------------------------------------------------
(* A reviewer's edits, and only those *)

\* The draft under review holds what was extracted.
DraftOfFields == \A r \in Runs : stage[r] = "review" => draft[r] = DraftOf(fields[r], r)

\* A run on its way to review, or leaving it, keeps that.
LEMMA MoveHolds ==
    ASSUME TypeInv, DraftOfFields, NEW r \in Runs, NEW node, Goto(r, node),
           \A q \in Runs \ {r} : /\ fields'[q] = fields[q] /\ draft'[q] = draft[q]
                                 /\ match'[q] = match[q],
           node = "review" => /\ draft'[r] = DraftOf(fields[r], r)
                              /\ fields'[r] = fields[r] /\ match'[r] = match[r]
    PROVE  DraftOfFields'
<1>1. \A q \in Runs : stage'[q] = IF q = r THEN node ELSE stage[q]
  BY DEF TypeInv, TypeOK, Goto
<1> SUFFICES ASSUME NEW q \in Runs, stage'[q] = "review"
             PROVE  draft'[q] = DraftOf(fields[q], q)'
  BY DEF DraftOfFields
<1>2. CASE q = r
  BY <1>1, <1>2 DEF DraftOf
<1>3. CASE q # r
  BY <1>1, <1>3 DEF DraftOfFields, DraftOf
<1> QED BY <1>2, <1>3

\* Hence a draft under review is always that of the run's fields.
LEMMA HoldsInductive == TypeInv /\ DraftOfFields /\ [Next]_vars => DraftOfFields'
<1> SUFFICES ASSUME TypeInv, DraftOfFields, [Next]_vars PROVE DraftOfFields'
  OBVIOUS
<1>t. /\ fields \in [Runs -> Fields] /\ draft \in [Runs -> Drafts]
      /\ match \in [Runs -> Matches]
  BY DEF TypeInv, TypeOK
<1>1. ASSUME NEW r \in Runs, NEW f \in Invoices, ExtractFields(r, f) PROVE DraftOfFields'
  BY <1>1, <1>t, MoveHolds DEF ExtractFields
<1>2. ASSUME NEW r \in Runs, SupplierLookup(r) PROVE DraftOfFields'
  <2>1. /\ Goto(r, "failed") \/ Goto(r, "duplicate_check")
        /\ UNCHANGED <<fields, draft>> /\ \A q \in Runs \ {r} : match'[q] = match[q]
    BY <1>2, <1>t DEF SupplierLookup
  <2> QED BY <2>1, MoveHolds
<1>3. ASSUME NEW r \in Runs, DuplicateCheck(r) PROVE DraftOfFields'
  BY <1>3, MoveHolds DEF DuplicateCheck
<1>4. ASSUME NEW r \in Runs, NEW c \in CategoryConfidence, CategorizeDocument(r, c)
      PROVE  DraftOfFields'
  BY <1>4, MoveHolds DEF CategorizeDocument
<1>5. ASSUME NEW r \in Runs, CalculateConfidence(r) PROVE DraftOfFields'
  BY <1>5, MoveHolds DEF CalculateConfidence
<1>6. ASSUME NEW r \in Runs, CreateDraft(r) PROVE DraftOfFields'
  <2>1. CASE Goto(r, "failed") /\ UNCHANGED draft
    <3>1. UNCHANGED <<fields, match>>
      BY <1>6 DEF CreateDraft
    <3> QED BY <2>1, <3>1, MoveHolds
  <2>2. CASE Goto(r, "review") /\ draft' = [draft EXCEPT ![r] = DraftOf(fields[r], r)]
    <3> DEFINE new == DraftOf(fields[r], r)
    <3>1. UNCHANGED <<fields, match>>
      BY <1>6 DEF CreateDraft
    <3>2. draft' = [draft EXCEPT ![r] = new]
      BY <2>2
    <3>3. \A x : x = new <=> x = DraftOf(fields[r], r)
      OBVIOUS
    <3> HIDE DEF new
    <3>4. \A q \in Runs : draft'[q] = IF q = r THEN new ELSE draft[q]
      BY <1>t, <3>2
    <3> QED BY <2>2, <3>1, <3>3, <3>4, MoveHolds
  <2> QED BY <1>6, <2>1, <2>2 DEF CreateDraft
<1>7. ASSUME NEW r \in Runs, NEW decision \in {"approved", "rejected"}, Decide(r, decision)
      PROVE  DraftOfFields'
  BY <1>7, MoveHolds DEF Decide
<1>8. ASSUME NEW r \in Runs, NEW e \in Edits, ApproveEdited(r, e) PROVE DraftOfFields'
  <2>1. /\ Goto(r, "failed") \/ Goto(r, "edited")
        /\ UNCHANGED match
        /\ \A q \in Runs \ {r} : fields'[q] = fields[q] /\ draft'[q] = draft[q]
    BY <1>8, <1>t DEF ApproveEdited
  <2> QED BY <2>1, MoveHolds
<1>9. CASE UNCHANGED vars
  BY <1>9 DEF vars, DraftOfFields, DraftOf
<1> QED BY <1>1, <1>2, <1>3, <1>4, <1>5, <1>6, <1>7, <1>8, <1>9 DEF Next

\* What one review with edits makes of the draft of its run.
EditsHeld(r) ==
    /\ \A x \in {"supplier", "number"} :
           draft'[r][x] = IF edited'[r][x] = Missing THEN draft[r][x] ELSE edited'[r][x]
    /\ draft'[r].amount = IF edited'[r].amount = {} THEN draft[r].amount
                          ELSE edited'[r].amount
    /\ draft'[r].currency = IF edited'[r].currency = Missing THEN DefaultCurrency
                            ELSE edited'[r].currency
    /\ draft'[r].match = draft[r].match

\* Only a review with edits ends in "edited", and it rewrites what was sent.
LEMMA EditsAreHeld ==
    ASSUME TypeInv, DraftOfFields, [Next]_vars, NEW r \in Runs,
           stage[r] = "review", stage'[r] = "edited"
    PROVE  EditsHeld(r)
<1>t. /\ fields \in [Runs -> Fields] /\ draft \in [Runs -> Drafts]
      /\ stage \in [Runs -> Stages] /\ edited \in [Runs -> Fields]
  BY DEF TypeInv, TypeOK
<1>1. PICK e \in Edits : ApproveEdited(r, e)
  <2>1. ASSUME NEW q \in Runs, NEW node, Goto(q, node), node # "edited" \/ q # r
        PROVE  FALSE
    BY <1>t, <2>1 DEF Goto
  <2>2. \A q \in Runs : /\ \A f \in Invoices : ~ExtractFields(q, f)
                        /\ ~SupplierLookup(q) /\ ~DuplicateCheck(q)
                        /\ \A c \in CategoryConfidence : ~CategorizeDocument(q, c)
                        /\ ~CalculateConfidence(q) /\ ~CreateDraft(q)
                        /\ \A d \in {"approved", "rejected"} : ~Decide(q, d)
    BY <2>1 DEF ExtractFields, SupplierLookup, DuplicateCheck, CategorizeDocument,
                CalculateConfidence, CreateDraft, Decide
  <2>3. ~UNCHANGED vars
    BY DEF vars
  <2>4. \A q \in Runs, e \in Edits : ApproveEdited(q, e) => q = r
    BY <2>1 DEF ApproveEdited
  <2> QED BY <2>2, <2>3, <2>4 DEF Next
<1> DEFINE f == fields[r]
           m == Merged(f, e)
<1>2. /\ draft' = [draft EXCEPT ![r] = DraftOf(m, r)] /\ edited' = [edited EXCEPT ![r] = e]
  <2>1. ~Goto(r, "failed")
    BY <1>t DEF Goto
  <2> QED BY <1>1, <2>1 DEF ApproveEdited
<1>3. draft'[r] = DraftOf(m, r) /\ edited'[r] = e
  BY <1>t, <1>2
<1>4. f \in Fields /\ draft[r] = DraftOf(f, r)
  BY <1>t DEF DraftOfFields
<1>5. /\ m.supplier = IF e.supplier = Missing THEN f.supplier ELSE e.supplier
      /\ m.number = IF e.number = Missing THEN f.number ELSE e.number
      /\ m.amount = IF e.amount = {} THEN f.amount ELSE e.amount
      /\ m.currency = IF e.currency = Missing THEN DefaultCurrency ELSE e.currency
  BY <1>4 DEF Merged, Fields
<1> HIDE DEF f, m
<1>6. \A g : /\ DraftOf(g, r)["supplier"] = IF g.supplier = Missing THEN Unknown ELSE g.supplier
             /\ DraftOf(g, r)["number"] = IF g.number = Missing THEN DocNumber[r] ELSE g.number
             /\ DraftOf(g, r).currency = g.currency
             /\ DraftOf(g, r).amount = IF g.amount = {} THEN {0} ELSE g.amount
             /\ DraftOf(g, r).match = match[r].supplier
  BY DEF DraftOf
<1>7. draft'[r]["supplier"] = IF e["supplier"] = Missing THEN draft[r]["supplier"]
                              ELSE e["supplier"]
  BY <1>3, <1>4, <1>5, <1>6
<1>8. draft'[r]["number"] = IF e["number"] = Missing THEN draft[r]["number"] ELSE e["number"]
  BY <1>3, <1>4, <1>5, <1>6
<1>9. draft'[r].amount = IF e.amount = {} THEN draft[r].amount ELSE e.amount
  BY <1>3, <1>4, <1>5, <1>6
<1>10. draft'[r].match = draft[r].match
  BY <1>3, <1>4, <1>6
<1>11. draft'[r].currency = IF e.currency = Missing THEN DefaultCurrency ELSE e.currency
  BY <1>3, <1>5, <1>6
<1> QED BY <1>3, <1>7, <1>8, <1>9, <1>10, <1>11 DEF EditsHeld

\* For any edits of any reviewer: what was sent replaces those values in the draft that
\* was reviewed, and of the others only the currency changes, to BRL (resume_run,
\* approve_run, InvoiceFields).
THEOREM DraftHoldsEditsHolds == Spec => DraftHoldsEdits
<1>1. Init => DraftOfFields
  BY DEF Init, DraftOfFields
<1>2. TypeInv /\ DraftOfFields /\ [Next]_vars =>
         (\A r \in Runs : stage[r] = "review" /\ stage'[r] = "edited" =>
            /\ \A x \in {"supplier", "number"} :
                   draft'[r][x] = IF edited'[r][x] = Missing THEN draft[r][x]
                                  ELSE edited'[r][x]
            /\ draft'[r].amount = IF edited'[r].amount = {} THEN draft[r].amount
                                  ELSE edited'[r].amount
            /\ draft'[r].currency = IF edited'[r].currency = Missing THEN DefaultCurrency
                                    ELSE edited'[r].currency
            /\ draft'[r].match = draft[r].match)
  BY EditsAreHeld DEF EditsHeld
<1> QED BY <1>1, <1>2, InitTyped, TypeInductive, HoldsInductive, PTL
        DEF Spec, DraftHoldsEdits
=============================================================================
