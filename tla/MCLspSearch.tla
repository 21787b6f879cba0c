---------------------------- MODULE MCLspSearch ----------------------------
\* A queue of four files.
EXTENDS LspSearch

CONSTANTS f1, f2, f3, f4
MCInitialFiles == <<f1, f2, f3, f4>>
=============================================================================
