----------------------------- MODULE MCFraming ------------------------------
EXTENDS Framing
=============================================================================
