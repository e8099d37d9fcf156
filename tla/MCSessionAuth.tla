--------------------------- MODULE MCSessionAuth ---------------------------
EXTENDS SessionAuth
============================================================================
