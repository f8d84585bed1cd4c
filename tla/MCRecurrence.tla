---------------------------- MODULE MCRecurrence ----------------------------
\* A small instance of Recurrence: a rule and the one an edit replaces it with.
EXTENDS Recurrence

TwoRules == {{2, 4, 6}, {3, 4, 6}}
Skipped == {4}
TwoLeads == {0, 2}
=============================================================================
