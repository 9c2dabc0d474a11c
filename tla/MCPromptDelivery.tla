-------------------------- MODULE MCPromptDelivery --------------------------
EXTENDS PromptDelivery
=============================================================================
