--------------------------- MODULE MCJournalFile ---------------------------
\* Instance of JournalFile for TLC: two operations whose phases advance
\* independently, two identities so that an established one could change.
EXTENDS JournalFile
=============================================================================
