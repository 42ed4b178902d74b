----------------------------- MODULE MCKeyReload -----------------------------
\* The Admin Module, one module with a watcher and one Storage Element.
EXTENDS KeyReload

CONSTANTS admin, query, element
=============================================================================
