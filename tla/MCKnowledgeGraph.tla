--------------------------- MODULE MCKnowledgeGraph ---------------------------
(* Small instances of KnowledgeGraph for TLC.                              *)
EXTENDS KnowledgeGraph

CONSTANTS web, api, db, w1, w2

\* The web front calls the service, which calls its database.
MCServices == <<web, api, db>>
MCCalls == {<<web, api>>, <<api, db>>}
=============================================================================
