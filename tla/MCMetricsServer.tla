-------------------------- MODULE MCMetricsServer ---------------------------
EXTENDS MetricsServer
=============================================================================
