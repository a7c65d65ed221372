------------------------------ MODULE MCServer ------------------------------
EXTENDS Server

CONSTANTS e1, e2, short, good, other

\* Two spellings of one address.
MCEmails    == {e1, e2}
MCCollation == [e \in MCEmails |-> e1]

B(decoded, email, password) == [decoded |-> decoded, email |-> email, password |-> password]
MCBodies == {B(TRUE, e1, good), B(FALSE, e2, good), B(TRUE, e2, other), B(TRUE, None, good)}
=============================================================================
