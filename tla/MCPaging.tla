------------------------------- MODULE MCPaging --------------------------------
\* Three rows in pages of one, as many values to order by; all may be pending at once.
EXTENDS Paging
=============================================================================
