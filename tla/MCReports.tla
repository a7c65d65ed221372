----------------------------- MODULE MCReports -----------------------------
EXTENDS Reports

\* Two creators in the first team, and in each team an assignee who may be
\* a member or not.
Row(t, u, assignee, done) == [team |-> t, by |-> u, assignee |-> assignee, done |-> done]
MCRows == {Row(1, 1, 2, TRUE), Row(1, 2, None, FALSE), Row(2, 2, 1, FALSE)}
=============================================================================
