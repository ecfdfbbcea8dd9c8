--------------------------- MODULE RightsizingMC ---------------------------
EXTENDS Rightsizing
=============================================================================
