------------------------------- MODULE MCFeed -------------------------------
EXTENDS Feed
=============================================================================
