------------------------------ MODULE MCDesktop ------------------------------
EXTENDS Desktop
=============================================================================
