------------------------------ MODULE MCEngine ------------------------------
EXTENDS Engine
=============================================================================
