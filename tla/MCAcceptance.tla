---------------------------- MODULE MCAcceptance ----------------------------
EXTENDS Acceptance, TLC

CONSTANTS r1, r2, legacy, native, other, o1, o2, o3, e1, e2, b1, b2, b3

MCExact(org, email, content) ==
  [route |-> "exact", org |-> org, key |-> "k", action |-> "a", email |-> email,
   content |-> content, parent |-> Null]
MCGenerated(org, email, context, parent) ==
  [route |-> "generated", org |-> org, key |-> "k", action |-> "a", email |-> email,
   content |-> context, parent |-> parent]

\* o1 has two mailboxes, o3 has one; o2 sends no request.
MCMailboxOrg == [m \in Mailbox |-> IF m = b3 THEN o3 ELSE o1]

\* The integration's campaigns of o1 and o2, a native campaign, and a contact in
\* each; the contact of o1's carries a follow-up.  o3 has not used the API yet.
MCOldCampaigns ==
  {[id |-> legacy, org |-> o1, source |-> "leadboost"],
   [id |-> native, org |-> o1, source |-> "native"],
   [id |-> other, org |-> o2, source |-> "leadboost"]}
MCOldContacts == {[id |-> k, campaign |-> k, email |-> e1] : k \in {legacy, native, other}}
MCOldFollowups == {legacy}

MCReplies == {[contact |-> c, threadable |-> TRUE] : c \in {legacy, native, other}}

\* Answers to each reply, one of them to the wrong recipient, and first messages.
MCOldTenantRequest ==
  {MCGenerated(o1, e1, "x", p) : p \in MCReplies}
  \cup {MCGenerated(o1, e2, "x", [contact |-> legacy, threadable |-> TRUE]),
        MCExact(o1, e1, "x"), MCGenerated(o1, e2, "x", Null)}

\* First use, every way to use one key again, and another operation.
MCNewTenantRequest ==
  {MCExact(o3, e1, "x"), MCExact(o3, e1, "y"), MCGenerated(o3, e1, "x", Null),
   MCGenerated(o3, e1, "y", Null), [MCExact(o3, e1, "x") EXCEPT !.key = "l"]}

MCRequest == MCOldTenantRequest \cup MCNewTenantRequest

Symmetry == Permutations(Call)

=============================================================================
