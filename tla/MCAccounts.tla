------------------------------ MODULE MCAccounts ------------------------------
\* The system's administrator and another one, one service account.
EXTENDS Accounts

CONSTANTS root, other, service
=============================================================================
