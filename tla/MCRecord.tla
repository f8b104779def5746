------------------------------ MODULE MCRecord ------------------------------
\* Instances of Record for TLC; the configuration gives the constants.
EXTENDS Record
=============================================================================
