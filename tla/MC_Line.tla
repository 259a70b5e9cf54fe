------------------------------- MODULE MC_Line -------------------------------
EXTENDS Line
==============================================================================
