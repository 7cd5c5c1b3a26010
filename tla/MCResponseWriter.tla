-------------------------- MODULE MCResponseWriter --------------------------
EXTENDS ResponseWriter
=============================================================================
