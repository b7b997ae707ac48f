----------------------------- MODULE MCIndexer -----------------------------
EXTENDS IndexerProperties, TLC
=============================================================================
