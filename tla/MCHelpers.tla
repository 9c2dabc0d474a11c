------------------------------ MODULE MCHelpers ------------------------------
EXTENDS Helpers, TLC

=============================================================================
