---------------------------- MODULE MCLifecycle -----------------------------
EXTENDS Lifecycle
=============================================================================
