--------------------------- MODULE MCProxyService ---------------------------
EXTENDS ProxyService
=============================================================================
