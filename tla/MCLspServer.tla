---------------------------- MODULE MCLspServer ----------------------------
\* Two files, a and b; b does not exist at first unless the cfg says so.
EXTENDS LspServer

CONSTANTS a, b
=============================================================================
