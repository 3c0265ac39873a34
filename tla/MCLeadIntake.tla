----------------------------- MODULE MCLeadIntake -----------------------------
EXTENDS LeadIntake

CONSTANTS s1, s2, s3

\* The resume of the second submission is the larger one.
SizeValues == [s \in Submissions |-> IF s = s2 THEN 2 ELSE 1]
================================================================================
