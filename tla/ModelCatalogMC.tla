---------------------------- MODULE ModelCatalogMC ----------------------------
EXTENDS ModelCatalog
=============================================================================
