----------------------------- MODULE MCTurnBook -----------------------------
EXTENDS TurnBook
=============================================================================
