----------------------------- MODULE MCBackend -----------------------------
EXTENDS Backend
=============================================================================
