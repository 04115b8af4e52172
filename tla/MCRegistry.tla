----------------------------- MODULE MCRegistry ------------------------------
EXTENDS Registry

=============================================================================
