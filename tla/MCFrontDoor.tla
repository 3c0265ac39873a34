----------------------------- MODULE MCFrontDoor -----------------------------
EXTENDS FrontDoor, TLC

CONSTANTS client, other, proxy

\* The two clients are interchangeable; the proxy is not.
Clients == Permutations({client, other})
================================================================================
