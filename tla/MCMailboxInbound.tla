-------------------------- MODULE MCMailboxInbound --------------------------
EXTENDS MailboxInbound, TLC

CONSTANTS p1, p2, m1, m2, m3, b1, b2, o1, o2, c1, c2, c3, id

\* Two tenants receive a message with one Message-ID; the first tenant's server holds
\* it twice.  c1 and c3 are contacts of the first tenant, c2 of the second.
MCMailboxOf == [m \in Mail |-> IF m = m2 THEN b2 ELSE b1]
MCOrgOf == [b \in Mailbox |-> IF b = b2 THEN o2 ELSE o1]
MCIdentityOf == [m \in Mail |-> id]
MCContactOrg == [c \in Contact |-> IF c = c2 THEN o2 ELSE o1]

\* The first tenant's copy names a stored message of the second tenant, and ones that
\* went out through the second mailbox, came in by webhook or were dispatched without a
\* mailbox; the duplicate names its own thread.
MCRow(c, k, b) == [contact |-> c, kind |-> k, mailbox |-> b]
MCThreadOf ==
  [m \in Mail |-> CASE m = m1 -> {MCRow(c2, "native", Null), MCRow(c3, "dispatched", b2),
                                  MCRow(c3, "inbound", Null), MCRow(c3, "dispatched", Null)}
                    [] m = m2 -> {}
                    [] OTHER -> {MCRow(c3, "inbound", b1)}]
MCSenderOf == [m \in Mail |-> Contact]

Symmetry == Permutations(Poller)

=============================================================================
