-------------------------- MODULE MCStoreLifetime --------------------------
EXTENDS StoreLifetime
=============================================================================
