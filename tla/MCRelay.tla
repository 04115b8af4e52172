------------------------------- MODULE MCRelay -------------------------------
EXTENDS Relay

=============================================================================
