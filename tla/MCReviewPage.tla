----------------------------- MODULE MCReviewPage -----------------------------
(* Two tenants with one account each, one demo scenario, people at two pages. *)
EXTENDS ReviewPage

MCOrganizations == {"acme-finance", "northwind-ops"}
MCEmails        == {"ana", "bruno"}
MCAccounts      == {<<"acme-finance", "ana">>, <<"northwind-ops", "bruno">>}
MCTokens        == {"change-me", "mistyped"}
MCEarlier       == [r \in {1} |-> "acme-finance"]
MCKeys          == {"aws_invoice"}

\* The address follows the tenant.
MCTyped == [o \in MCOrganizations |->
              {<<a[2], "change-me">> : a \in {a \in MCAccounts : a[1] = o}}]

MCMaxClicks == [f \in Clients |-> IF f = "page" THEN 4 ELSE 1]

Plain == [from |-> "curl", op |-> "list", token |-> "change-me", org |-> "acme-finance",
          email |-> "ana", run |-> NoRun, key |-> None, action |-> None,
          edits |-> NoEdits]

\* A second client of acme-finance, who decides with edits that fit the schema,
\* uploads, and once has the token wrong.
MCRequests ==
    {[Plain EXCEPT !.token = "mistyped"]}
    \cup {[Plain EXCEPT !.op = "upload", !.key = k] : k \in MCKeys}
    \cup {[Plain EXCEPT !.op = "resume", !.run = r, !.action = "edit",
                        !.edits = {"due_date"}] : r \in Runs}

=============================================================================
