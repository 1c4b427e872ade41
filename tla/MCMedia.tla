------------------------------- MODULE MCMedia -------------------------------
EXTENDS Media, TLC


=============================================================================
