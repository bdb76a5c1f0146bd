---------------------------- MODULE MCKevCatalog -----------------------------
(* KevCatalog for TLC: CVEs come to the catalog, go and come back.            *)
EXTENDS KevCatalog

CatalogSeries == <<{"a", "b"}, {"b"}, {"a", "c"}, {"c"}, {"a", "b"}>>
===============================================================================
