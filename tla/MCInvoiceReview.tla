--------------------------- MODULE MCInvoiceReview ---------------------------
(* Small organisations for the InvoiceReview module. *)
EXTENDS InvoiceReview, TLC

CONSTANT FirstDocument      \* the runs of one document; every other run has another's

Numbers  == [r \in Runs |-> IF r \in FirstDocument THEN "DOC-1" ELSE "DOC-2"]
Symmetry == Permutations(FirstDocument)

\* "Acme" is part of two legal names, the two suppliers have tax ids of their own.
TwoSuppliers == {[name |-> "Acme Ltd", tax |-> "1"], [name |-> "Acme Intl", tax |-> "2"]}
AcmeIsPart   == {<<"Acme", "Acme Ltd">>, <<"Acme", "Acme Intl">>}

\* A complete invoice; others lack fields or repeat its number with another amount.
Complete   == [supplier |-> "Acme Ltd", tax |-> "1", number |-> "INV-1", amount |-> {100},
               currency |-> "BRL", others |-> 3]
SampleInvoices ==
    {Complete,
     [Complete EXCEPT !.number = Missing],
     [Complete EXCEPT !.supplier = "Acme", !.tax = "3", !.amount = {0}],
     [Complete EXCEPT !.supplier = "Nobody", !.tax = Missing, !.currency = "EUR"],
     [Complete EXCEPT !.supplier = "Acme", !.number = Missing, !.amount = {}, !.others = 0],
     [Complete EXCEPT !.supplier = "Nobody", !.tax = "2", !.number = "7"],
     [NoFields EXCEPT !.currency = "BRL"]}

\* A corrected number, or a corrected supplier and amount.
SampleEdits ==
    {[NoFields EXCEPT !.number = "INV-1"],
     [NoFields EXCEPT !.supplier = "Acme Ltd", !.amount = {100}, !.currency = "BRL"]}
=============================================================================
