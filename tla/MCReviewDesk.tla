----------------------------- MODULE MCReviewDesk -----------------------------
EXTENDS ReviewDesk, TLC

CONSTANTS d1, r1, r2

\* Two overlapping requests to mark a lead are interchangeable.
Requests == Permutations({r1, r2})
================================================================================
