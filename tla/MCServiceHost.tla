--------------------------- MODULE MCServiceHost ---------------------------
\* ServiceHost on both platforms, with a restart that waits longer than the join.
EXTENDS ServiceHost
=============================================================================
