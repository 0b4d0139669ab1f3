--------------------------- MODULE MCWebOnboarding ---------------------------
EXTENDS WebOnboarding

CONSTANTS h1, h2, i1, i2

\* One operator knows both identities, the other one of them.
MCLogins == [h \in Host |-> IF h = h1 THEN {i1} ELSE Identity]

\* Fresh hosts only, or two that already share an account.
Fresh == {{}}
FreshOrShared == {{}, {h1, h2}}
=============================================================================
