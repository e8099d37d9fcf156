-------------------------- MODULE MCStoreAuthority --------------------------
EXTENDS StoreAuthority
=============================================================================
