------------------------------ MODULE MCWebUi ------------------------------
EXTENDS WebUi
=============================================================================
